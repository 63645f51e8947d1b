------------------------- MODULE AdvancedJobsProofs -------------------------
(***************************************************************************)
(* The safety of the job server's two Stops, for any number of connections *)
(* and jobs: httpserver.Server's inside the program, JobManager's after it.*)
(***************************************************************************)
EXTENDS AdvancedJobs, FiniteSetTheorems, TLAPS

(* The Serve goroutine keeps its error before it asks for the shutdown, and*)
(* has closed the listener before either.                                  *)
ServeOrder ==
    /\ serve = "none" <=> ~server
    /\ serve = "report" \/ reason = "server" => serveErr
    /\ serve = "done" /\ failure => serveErr
    /\ serve \in {"record", "report", "done"} => ~open

(* The handlers Stop found running stay tracked until they reply, unless   *)
(* Shutdown gives up.                                                      *)
PendingTracked ==
    /\ stop = "idle" => \A c \in Conns : http[c] # "none" => c \in tracked
    /\ \A c \in pending : http[c] = "active"
    /\ stop \in {"group", "poll"} => pending \subseteq tracked
    /\ stop \in {"select", "returned"} /\ server /\ result = {} => pending = {}

(* go-app stops a server that was started only once somebody asked.        *)
StopIsAskedFor ==
    /\ app \in {"starting", "running"} => stop = "idle"
    /\ app = "starting" => ~server
    /\ server /\ stop # "idle" => reason # "none"

HttpInv ==
    /\ HttpTypeOK
    /\ ServeOrder
    /\ PendingTracked
    /\ StopIsAskedFor
    /\ StopIsHonest

(* The jobs the wait group counts.                                         *)
Working == {j \in Jobs : run[j] \notin {"none", "gone"}}

(* Jobs are numbered in the order in which they are started, and each has  *)
(* its outcome recorded before it counts as done.                          *)
JobsInOrder ==
    \A j \in Jobs :
       /\ status[j] = "none" <=> j > nextID
       /\ run[j] = "none" <=> j > nextID
       /\ run[j] \in {"done", "gone"} => status[j] \in {"completed", "canceled"}

(* The jobs there were when Stop began.                                    *)
EarlyOnes == \E k \in 0 .. nextID : early = 1 .. k

(* The wait ends only when none of them is at work.                        *)
WaitedFor ==
    /\ jobStop = "idle" => waiter = "none" /\ ~panicked
    /\ waiter \in {"woken", "closed"} => \A j \in early : run[j] = "gone"
    /\ jobStop = "nil" => waiter = "closed"

JobInv ==
    /\ JobTypeOK
    /\ JobsInOrder
    /\ wg = Cardinality(Working)
    /\ EarlyOnes
    /\ WaitedFor
    /\ StopOutlivesJobs

-----------------------------------------------------------------------------
(* Nothing has been started.                                               *)
LEMMA ProgramInit == Init => HttpInv /\ JobInv
<1> SUFFICES ASSUME Init PROVE HttpInv /\ JobInv
  OBVIOUS
<1>1. HttpInv
  <2>1. HttpTypeOK
    BY DEF Init, HttpInit, HttpTypeOK
  <2> QED
    BY <2>1 DEF Init, HttpInit, HttpInv, ServeOrder, PendingTracked, StopIsAskedFor, StopIsHonest
<1>2. JobTypeOK
  <2>1. 0 \in 0 .. MaxJobs /\ {} \cup {} \cup {} = {}
    BY JobsAssumption
  <2> QED
    BY <2>1 DEF Init, JobInit, JobTypeOK
<1>3. JobsInOrder
  BY JobsAssumption DEF Init, JobInit, JobsInOrder, Jobs
<1>4. Working = {}
  BY DEF Init, JobInit, Working
<1>5. early = 1 .. 0
  BY DEF Init, JobInit
<1> QED
  BY <1>1, <1>2, <1>3, <1>4, <1>5, FS_EmptySet, JobsAssumption
  DEF Init, JobInit, JobInv, EarlyOnes, WaitedFor, StopOutlivesJobs, Jobs

-----------------------------------------------------------------------------
(* What jobs, commands, signals and go-app do leaves the server alone.     *)
LEMMA ServerKept ==
  ASSUME HttpInv, UNCHANGED <<server, serveVars, netVars, stopVars>>,
         reason' = reason \/ (reason' = "adapter" /\ reason = "none"),
         app' = app \/ app' \in {"jobs", "ended"}
  PROVE  HttpInv'
BY DEF HttpInv, ServeOrder, PendingTracked, StopIsAskedFor, StopIsHonest, HttpTypeOK,
       serveVars, netVars, stopVars

(* A connection's step.                                                    *)
LEMMA ConnectionKept ==
  ASSUME HttpInv, NEW c \in Conns, NEW from, NEW to \in {"none", "idle", "read", "active"},
         from # "none", ConnMove(c, from, to), UNCHANGED app,
         c \in tracked \/ from # "idle" \/ to = "none",
         reason' = reason \/ (reason' = "adapter" /\ reason = "none")
  PROVE  HttpInv'
<1> USE DEF HttpInv, ConnMove, serveVars
<1>1. HttpTypeOK'
  BY DEF HttpTypeOK
<1>2. ServeOrder'
  BY DEF ServeOrder
<1>3. PendingTracked'
  BY DEF PendingTracked, HttpTypeOK
<1>4. StopIsAskedFor'
  BY DEF StopIsAskedFor
<1>5. StopIsHonest'
  BY DEF StopIsHonest, ServeOrder
<1> QED
  BY <1>1, <1>2, <1>3, <1>4, <1>5

(* Serve, Shutdown and Stop.                                               *)
LEMMA ServerStepKept ==
  ASSUME HttpInv, ServeStep \/ StopStep \/ ServeLeaves(TRUE) \/ StopExpires, UNCHANGED app
  PROVE  HttpInv'
<1> USE DEF HttpInv, HttpTypeOK, ServeOrder, PendingTracked, StopIsAskedFor, StopIsHonest,
            ServeGoes, StopGoes, AskShutdown, Handling, serveVars, netVars, stopVars
<1>1. CASE ServeTrack
  BY <1>1 DEF ServeTrack
<1>2. ASSUME NEW fails \in BOOLEAN, ServeLeaves(fails) PROVE HttpInv'
  BY <1>2 DEF ServeLeaves
<1>3. CASE ServeReturns
  BY <1>3 DEF ServeReturns
<1>4. CASE ServeRecord
  BY <1>4 DEF ServeRecord
<1>5. CASE ServeReport
  BY <1>5 DEF ServeReport
<1>6. CASE ShutdownGroup
  BY <1>6 DEF ShutdownGroup
<1>7. ASSUME NEW c \in Conns, ShutdownCloses(c) PROVE HttpInv'
  BY <1>7 DEF ShutdownCloses
<1>8. CASE ShutdownReturns
  BY <1>8 DEF ShutdownReturns
<1>9. CASE ShutdownFails
  BY <1>9 DEF ShutdownFails
<1>10. CASE StopSelect
  BY <1>10 DEF StopSelect
<1>11. CASE StopExpires
  BY <1>11 DEF StopExpires
<1> QED
  BY <1>1, <1>2, <1>3, <1>4, <1>5, <1>6, <1>7, <1>8, <1>9, <1>10, <1>11 DEF ServeStep, StopStep

(* Every step of the program keeps the server's invariant.                 *)
LEMMA HttpStep == HttpInv /\ [Next]_vars => HttpInv'
<1> SUFFICES ASSUME HttpInv, [Next]_vars PROVE HttpInv'
  OBVIOUS
<1>1. CASE StartServer
  BY <1>1 DEF StartServer, HttpStart, HttpInv, HttpTypeOK, ServeOrder, PendingTracked,
     StopIsAskedFor, StopIsHonest, stopVars
<1>2. CASE StopServer
  BY <1>2 DEF StopServer, StopBegin, StopGoes, Handling, HttpInv, HttpTypeOK, ServeOrder,
     PendingTracked, StopIsAskedFor, StopIsHonest, serveVars
<1>3. CASE StartCli \/ StopJobs \/ End \/ Signal \/ EndRuntime \/ Command \/ JobStep
           \/ \E j \in Jobs : Timer(j)
  BY <1>3, ServerKept DEF StartCli, StopJobs, End, Signal, EndRuntime, Command, JobStep, Timer,
     AskShutdown, httpVars
<1>4. CASE ServerStep \/ ServerFails \/ ServerTimeout
  BY <1>4, ServerStepKept DEF ServerStep, ServerFails, ServerTimeout
<1>5. ASSUME NEW c \in Conns, Client(c) PROVE HttpInv'
  <2>1. CASE Connect(c)
    BY <1>5, <2>1 DEF Client, Connect, HttpInv, HttpTypeOK, ServeOrder, PendingTracked,
       StopIsAskedFor, StopIsHonest, serveVars, stopVars
  <2>2. CASE ConnRead(c) \/ ConnEnds(c)
    BY <1>5, <2>2, ConnectionKept DEF Client, ConnRead, ConnEnds
  <2> QED
    BY <1>5, <2>1, <2>2 DEF Client
<1>6. ASSUME NEW c \in Conns, ConnStep(c) PROVE HttpInv'
  BY <1>6, ConnectionKept DEF ConnStep, Handle, ConnReplies, ConnActivate, AskShutdown
<1>7. CASE UNCHANGED vars
  BY <1>7, ServerKept DEF vars, httpVars
<1> QED
  BY <1>1, <1>2, <1>3, <1>4, <1>5, <1>6, <1>7 DEF Next, AppStep

-----------------------------------------------------------------------------
(* The wait group's counter and the jobs at work.                          *)
LEMMA WorkingFinite == IsFiniteSet(Working)
<1>1. IsFiniteSet(Jobs)
  BY FS_Interval, JobsAssumption DEF Jobs
<1> QED
  BY <1>1, FS_Subset DEF Working

(* With nobody at work, every job there is has ended.                      *)
LEMMA NobodyWorks ==
  ASSUME JobInv, wg = 0
  PROVE  \A j \in early : run[j] = "gone"
<1>1. Working = {}
  BY WorkingFinite, FS_EmptySet DEF JobInv
<1>2. \A j \in early : j \in Jobs /\ ~(j > nextID)
  BY JobsAssumption DEF JobInv, JobTypeOK, EarlyOnes, Jobs
<1>3. \A j \in early : run[j] # "none"
  BY <1>2 DEF JobInv, JobsInOrder
<1> QED
  BY <1>1, <1>2, <1>3 DEF Working

(* What becomes of the jobs in a step of the program.                      *)
JobAction ==
    \/ StartJob
    \/ \E j \in Jobs : CancelJob(j) \/ RunStep(j)
    \/ JobStopBegin \/ WaiterStep \/ JobStopReturns \/ RuntimeEnds
    \/ UNCHANGED jobVars

(* The program's other parts leave the jobs alone.                         *)
LEMMA NextIsJobAction == [Next]_vars => JobAction
BY DEF Next, vars, AppStep, StartCli, StartServer, StopServer, StopJobs, End, Signal, EndRuntime,
   ServerStep, ServerFails, ServerTimeout, Client, ConnStep, Handle, Command, JobStep, Timer,
   RunStep, JobAction

(* Every such step keeps the invariant of the jobs.                        *)
LEMMA JobActionKept == JobInv /\ JobAction => JobInv'
<1> SUFFICES ASSUME JobInv, JobAction PROVE JobInv'
  OBVIOUS
<1> USE JobsAssumption
    DEF JobInv, JobTypeOK, JobsInOrder, EarlyOnes, WaitedFor, StopOutlivesJobs, Jobs
<1>1. CASE StartJob
  <2>1. Working' = Working \cup {nextID + 1} /\ nextID + 1 \notin Working
    BY <1>1 DEF StartJob, Working
  <2>2. wg' = Cardinality(Working')
    BY <1>1, <2>1, WorkingFinite, FS_AddElement DEF StartJob
  <2>3. JobTypeOK'
    BY <1>1 DEF StartJob
  <2>4. JobsInOrder'
    <3> DEFINE k == nextID + 1
    <3>1. /\ run' = [run EXCEPT ![k] = "select"]
          /\ status' = [status EXCEPT ![k] = "running"]
          /\ nextID' = k /\ k \in Jobs /\ nextID \in Nat
      BY <1>1 DEF StartJob
    <3>2. \A j \in Jobs : j # k => (j > k <=> j > nextID)
      BY <3>1
    <3>3. ~(k > k)
      BY <3>1
    <3> HIDE DEF k
    <3> QED
      BY <3>1, <3>2, <3>3
  <2>5. EarlyOnes'
    <3>1. PICK k \in 0 .. nextID : early = 1 .. k
      OBVIOUS
    <3>2. early' = early /\ nextID' = nextID + 1 /\ nextID \in Int
      BY <1>1 DEF StartJob
    <3> QED
      BY <3>1, <3>2
  <2>6. (WaitedFor /\ StopOutlivesJobs)'
    <3>1. early \subseteq Jobs /\ nextID + 1 \notin early
      OBVIOUS
    <3>2. \A j \in early : run'[j] = run[j] /\ status'[j] = status[j]
      BY <1>1, <3>1 DEF StartJob
    <3>3. panicked' => nextID' > Cardinality(early')
      <4>1. PICK k \in 0 .. nextID : early = 1 .. k
        OBVIOUS
      <4>2. Cardinality(early) = k
        BY <4>1, FS_Interval
      <4> QED
        BY <1>1, <4>1, <4>2 DEF StartJob
    <3> QED
      BY <1>1, <3>2, <3>3 DEF StartJob
  <2> QED
    BY <2>2, <2>3, <2>4, <2>5, <2>6
<1>2. ASSUME NEW j \in Jobs, CancelJob(j) PROVE JobInv'
  BY <1>2 DEF CancelJob, Working
<1>3. ASSUME NEW j \in Jobs, RunTimer(j) \/ RunCanceled(j) PROVE JobInv'
  <2>1. Working' = Working
    BY <1>3 DEF RunTimer, RunCanceled, Working
  <2> QED
    BY <1>3, <2>1 DEF RunTimer, RunCanceled
<1>4. ASSUME NEW j \in Jobs, RunRecords(j) PROVE JobInv'
  <2>1. Working' = Working
    BY <1>4 DEF RunRecords, Working
  <2> QED
    BY <1>4, <2>1 DEF RunRecords
<1>5. ASSUME NEW j \in Jobs, RunDone(j) PROVE JobInv'
  <2>1. Working' = Working \ {j} /\ j \in Working
    BY <1>5 DEF RunDone, Working
  <2>2. /\ Cardinality(Working') = Cardinality(Working) - 1
        /\ IsFiniteSet(Working') /\ Cardinality(Working') \in Nat
    BY <2>1, WorkingFinite, FS_RemoveElement, FS_CardinalityType
  <2>3. wg' = Cardinality(Working') /\ wg' \in Nat
    BY <1>5, <2>2 DEF RunDone
  <2>4. JobTypeOK'
    BY <1>5, <2>3 DEF RunDone
  <2>5. (JobsInOrder /\ EarlyOnes)'
    BY <1>5 DEF RunDone
  <2>6. wg' = 0 => \A i \in early : run'[i] = "gone"
    <3>1. wg' = 0 => Working' = {}
      BY <2>2, <2>3, FS_EmptySet
    <3>2. \A i \in early : i \in Jobs /\ run'[i] # "none"
      BY <1>5 DEF RunDone
    <3> QED
      BY <3>1, <3>2 DEF Working
  <2>7. WaitedFor'
    BY <1>5, <2>6 DEF RunDone
  <2>8. StopOutlivesJobs'
    BY <1>5 DEF RunDone
  <2> QED
    BY <2>3, <2>4, <2>5, <2>7, <2>8
<1>6. CASE JobStopBegin
  <2>1. early' = 1 .. nextID
    BY <1>6 DEF JobStopBegin
  <2>2. Working' = Working
    BY <1>6 DEF JobStopBegin, Working
  <2>3. JobTypeOK'
    BY <1>6, <2>1 DEF JobStopBegin
  <2>4. (JobsInOrder /\ EarlyOnes /\ WaitedFor)'
    BY <1>6, <2>1 DEF JobStopBegin
  <2> QED
    BY <1>6, <2>2, <2>3, <2>4 DEF JobStopBegin
<1>7. CASE WaiterCalls
  BY <1>7, NobodyWorks DEF WaiterCalls, Working
<1>8. CASE WaiterWakes
  <2>1. Working' = Working
    BY <1>8 DEF WaiterWakes, Working
  <2>2. PICK k \in 0 .. nextID : early = 1 .. k
    OBVIOUS
  <2>3. Cardinality(early) = k
    BY <2>2, FS_Interval
  <2>4. wg # 0 => nextID > k
    <3>1. wg # 0 => Working # {}
      BY FS_EmptySet
    <3>2. \A j \in Working : j \notin early /\ ~(j > nextID) /\ j \in Jobs
      BY <1>8 DEF WaiterWakes, Working
    <3> QED
      BY <2>2, <3>1, <3>2
  <2> QED
    BY <1>8, <2>1, <2>3, <2>4 DEF WaiterWakes
<1>9. CASE JobStopReturns
  BY <1>9 DEF JobStopReturns, Working
<1>10. CASE RuntimeEnds
  BY <1>10 DEF RuntimeEnds, Working
<1>11. CASE UNCHANGED jobVars
  BY <1>11 DEF jobVars, Working
<1> QED
  BY <1>1, <1>2, <1>3, <1>4, <1>5, <1>6, <1>7, <1>8, <1>9, <1>10, <1>11
  DEF JobAction, RunStep, WaiterStep

(* Both invariants hold throughout.                                        *)
LEMMA ProgramSafe == Spec => [](HttpInv /\ JobInv)
BY ProgramInit, HttpStep, NextIsJobAction, JobActionKept, PTL DEF Spec

(* httpserver: what a returned Stop says of failures, the port and the     *)
(* handlers it found running.                                              *)
THEOREM HttpStopHonest == Spec => []StopIsHonest
BY ProgramSafe, PTL DEF HttpInv

(* JobManager: what a returned Stop says of the jobs started before it,    *)
(* and that the wait group only panics if one is started after it.         *)
THEOREM JobsOutlived == Spec => []StopOutlivesJobs
BY ProgramSafe, PTL DEF JobInv
=============================================================================
