---------------------------- MODULE GatewayProofs ----------------------------
(***************************************************************************)
(* The safety of the gateway for any number of connections, requests and   *)
(* calls of Stop, and any faults: first of its handler gate, then of the   *)
(* whole, which keeps the promise of GracefulService.                      *)
(***************************************************************************)
EXTENDS Gateway, FiniteSetTheorems, TLAPS

(* Whoever is in or past wait has called stop before.                      *)
WaitersStopped == \A w \in Stops : waiter[w] # "idle" => gstopping

GateInv ==
    /\ Gate!GateTypeOK
    /\ Gate!GateCounts
    /\ Gate!SleeperHasHandler
    /\ Gate!DrainedForGood
    /\ WaitersStopped

(* The gate's instance of the standard module counts as ours does.         *)
LEMMA SameCount ==
    /\ \A S : Gate!IsFiniteSet(S) <=> IsFiniteSet(S)
    /\ \A S : Gate!Cardinality(S) = Cardinality(S)
BY DEF Gate!IsFiniteSet, IsFiniteSet, Gate!Cardinality, Cardinality

(* A test of g.active is a test of whether a handler is inside.            *)
LEMMA GateEmpty ==
    ASSUME Gate!GateCounts
    PROVE  (gactive = 0) <=> (Gate!Inside = {})
BY SameCount, FS_EmptySet DEF Gate!GateCounts

(* The initial state of the gate.                                          *)
LEMMA GateInitInv == Gate!GateInit => GateInv
<1> SUFFICES ASSUME Gate!GateInit PROVE GateInv
  OBVIOUS
<1>1. Gate!GateTypeOK
  BY DEF Gate!GateInit, Gate!GateTypeOK
<1>2. Gate!Inside = {}
  BY DEF Gate!GateInit, Gate!Inside
<1>3. Gate!GateCounts
  BY <1>2, SameCount, FS_EmptySet DEF Gate!GateInit, Gate!GateCounts
<1>4. Gate!SleeperHasHandler /\ Gate!DrainedForGood /\ WaitersStopped
  BY DEF Gate!GateInit, Gate!SleeperHasHandler, Gate!DrainedForGood,
     WaitersStopped
<1> QED
  BY <1>1, <1>3, <1>4 DEF GateInv

(* Every step of the gate keeps its invariant.                             *)
LEMMA GateStepInv == GateInv /\ [Gate!GateNext]_(Gate!gvars) => GateInv'
<1> SUFFICES ASSUME GateInv, [Gate!GateNext]_(Gate!gvars) PROVE GateInv'
  OBVIOUS
<1> USE DEF GateInv
<1>1. ASSUME NEW r \in Conns, Gate!Enter(r) PROVE GateInv'
  <2>1. r \notin Gate!Inside /\ Gate!Inside' = Gate!Inside \cup {r}
    BY <1>1 DEF Gate!Enter, Gate!Inside, Gate!GateTypeOK
  <2>2. Gate!GateCounts'
    BY <1>1, <2>1, SameCount, FS_AddElement,
       FS_CardinalityType DEF Gate!Enter, Gate!GateCounts
  <2>3. Gate!GateTypeOK'
    BY <1>1 DEF Gate!Enter, Gate!GateTypeOK
  <2>4. Gate!SleeperHasHandler' /\ Gate!DrainedForGood' /\ WaitersStopped'
    BY <1>1, <2>1 DEF Gate!Enter, Gate!SleeperHasHandler, Gate!DrainedForGood,
       WaitersStopped
  <2> QED
    BY <2>2, <2>3, <2>4
<1>2. ASSUME NEW r \in Conns, Gate!Refuse(r) PROVE GateInv'
  <2>1. Gate!Inside' = Gate!Inside
    BY <1>2 DEF Gate!Refuse, Gate!Inside, Gate!GateTypeOK
  <2>2. Gate!GateTypeOK'
    BY <1>2 DEF Gate!Refuse, Gate!GateTypeOK
  <2> QED
    BY <1>2, <2>1, <2>2 DEF Gate!Refuse, Gate!GateCounts,
       Gate!SleeperHasHandler,
       Gate!DrainedForGood, WaitersStopped
<1>3. ASSUME NEW r \in Conns, Gate!Leave(r) PROVE GateInv'
  <2>1. r \in Gate!Inside /\ Gate!Inside' = Gate!Inside \ {r}
    BY <1>3 DEF Gate!Leave, Gate!Inside, Gate!GateTypeOK
  <2>2. Gate!GateCounts' /\ gactive' \in Nat
    <3>1. /\ IsFiniteSet(Gate!Inside')
          /\ Cardinality(Gate!Inside') = Cardinality(Gate!Inside) - 1
      BY <2>1, SameCount, FS_RemoveElement DEF Gate!GateCounts
    <3>2. Cardinality(Gate!Inside') \in Nat
      BY <3>1, FS_CardinalityType
    <3> QED
      BY <1>3, <3>1, <3>2, SameCount DEF Gate!Leave, Gate!GateCounts
  <2>3. Gate!GateTypeOK'
    BY <1>3, <2>2 DEF Gate!Leave, Gate!GateTypeOK
  <2>4. (gactive' = 0) <=> (Gate!Inside' = {})
    BY <2>2, SameCount, FS_EmptySet DEF Gate!GateCounts
  <2>5. Gate!SleeperHasHandler'
    BY <1>3, <2>4 DEF Gate!Leave, Gate!SleeperHasHandler, Gate!GateTypeOK
  <2>6. Gate!DrainedForGood' /\ WaitersStopped'
    BY <1>3, <2>1 DEF Gate!Leave, Gate!DrainedForGood, WaitersStopped,
       Gate!GateTypeOK
  <2> QED
    BY <2>2, <2>3, <2>5, <2>6
<1>4. ASSUME NEW w \in Stops, Gate!StopGate(w) PROVE GateInv'
  <2>1. Gate!Inside' = Gate!Inside
    BY <1>4 DEF Gate!StopGate, Gate!Inside
  <2>2. Gate!GateTypeOK'
    BY <1>4 DEF Gate!StopGate, Gate!GateTypeOK
  <2>3. Gate!SleeperHasHandler' /\ Gate!DrainedForGood' /\ WaitersStopped'
    BY <1>4, <2>1 DEF Gate!StopGate, Gate!SleeperHasHandler,
       Gate!DrainedForGood,
       WaitersStopped, Gate!GateTypeOK
  <2> QED
    BY <1>4, <2>1, <2>2, <2>3 DEF Gate!StopGate, Gate!GateCounts
<1>5. ASSUME NEW w \in Stops, Gate!WaitCheck(w) PROVE GateInv'
  <2>1. Gate!Inside' = Gate!Inside
    BY <1>5 DEF Gate!WaitCheck, Gate!Inside
  <2>2. Gate!GateTypeOK'
    BY <1>5 DEF Gate!WaitCheck, Gate!GateTypeOK
  <2>3. Gate!SleeperHasHandler' /\ Gate!DrainedForGood' /\ WaitersStopped'
    BY <1>5, <2>1, GateEmpty DEF Gate!WaitCheck, Gate!SleeperHasHandler,
       Gate!DrainedForGood, WaitersStopped, Gate!GateTypeOK
  <2> QED
    BY <1>5, <2>1, <2>2, <2>3 DEF Gate!WaitCheck, Gate!GateCounts
<1>6. CASE UNCHANGED Gate!gvars
  BY <1>6 DEF Gate!gvars, Gate!GateTypeOK, Gate!GateCounts,
     Gate!SleeperHasHandler,
     Gate!DrainedForGood, WaitersStopped, Gate!Inside
<1> QED
  BY <1>1, <1>2, <1>3, <1>4, <1>5, <1>6 DEF Gate!GateNext

(* handlerGate's counter and its two waiting conditions are correct in     *)
(* every reachable state, for any set of requests and of calls of Stop.    *)
THEOREM GateSafe == Gate!GateSpec => []GateInv
BY GateInitInv, GateStepInv, PTL DEF Gate!GateSpec

(* Once a wait has returned no application handler runs, then or later.    *)
THEOREM GateDrained == Gate!GateSpec => []Gate!DrainedForGood
BY GateSafe, PTL DEF GateInv

(* A Stop never sleeps in wait with nobody left to wake it.                *)
THEOREM GateNoLostWakeup == Gate!GateSpec => []Gate!SleeperHasHandler
BY GateSafe, PTL DEF GateInv

-----------------------------------------------------------------------------
(* Stop holds s.mu from StopBegin to StopFinishes.                         *)
Inner == {"gate", "shutdown", "listeners", "group", "poll", "pause", "kill",
          "listener", "serve", "wait", "cleanup", "finish"}

Typed ==
    /\ stop \in [Stops -> Inner \cup {"idle", "returned"}]
    /\ result \in [Stops -> {"ok", "error"}]
    /\ DOMAIN http = Conns
    /\ socket \in BOOLEAN

(* s.mu is held by the Stop that is under way, and Start comes before what *)
(* it starts.                                                              *)
Locked ==
    /\ \A p \in Stops : stop[p] \in Inner => mu = p /\ stopping
    /\ gstopping => stopping
    /\ ~server => serve = "none" /\ \A c \in Conns : http[c] = "none"

(* A Stop that is past the wait, or was not the first to return, has seen  *)
(* wait return, or another has.                                            *)
Waited ==
    /\ \A p \in Stops :
          stop[p] \in {"cleanup", "finish"} => waiter[p] = "returned"
    /\ \A p \in Stops : stop[p] = "returned" =>
          \E q \in Stops : waiter[q] = "returned"
    /\ stopped => \E p \in Stops : stop[p] = "returned"

ServeOver == serve \in {"none", "done"}

(* The socket goes with its cleanup, and after <-s.serveDone nothing more  *)
(* comes from Serve.                                                       *)
Cleaned ==
    /\ socket => cleanup
    /\ \A p \in Stops : stop[p] = "finish" /\ result[p] = "ok" => ~cleanup
    /\ \A p \in Stops : stop[p] \in {"wait", "cleanup", "finish"} => ServeOver
    /\ stopped => ServeOver /\ ~cleanup /\ ~serveErr

(* The listener's part: what Accept says when it fails.                    *)
Accepting ==
    /\ faults \in Nat
    /\ DOMAIN pc = {"serve"}
    /\ baseClosed => closed
    /\ pc["serve"] = "dropping" => closed
    /\ pc["serve"] = "failed" => baseClosed \/ faults > 0

(* The listener is closed by a Stop past ShutdownBegin or by Serve leaving.*)
Genuine ==
    /\ \A p \in Stops : stop[p] \in {"listeners", "group", "poll", "pause",
                                     "kill", "listener", "serve"} => inShutdown
    /\ closed => inShutdown \/ serve \in {"closing", "reporting", "done"}
    /\ serve = "erred" =>
          acceptErr = "fault" \/ (acceptErr = "closed" /\ closed)
    /\ acceptErr = "fault" => faults > 0
    /\ serveErr => faults > 0 /\ requested

GatewayInv == Typed /\ Locked /\ Waited /\ Cleaned /\ Accepting /\ Genuine

(* Which parts of the state each part of the program leaves alone.         *)
LEMMA ServeLeaves ==
    ServeStep => UNCHANGED <<gateVars, stopVars, server, inShutdown>>
BY DEF ServeStep, ServeTrack, ServeAccept, ServeConn, ServeError, ServeReact,
   ServeUntrack, ServeClose, ServeClosed, ServeReport

LEMMA ConnLeaves ==
    ASSUME NEW c \in Conns, ConnStep(c)
    PROVE  UNCHANGED <<stopVars, serveVars, server, inShutdown>>
BY DEF ConnStep, ConnRead, ConnActivate, ConnEnter, ConnRefuse, ConnLeave,
   ConnKeep, ConnGiveUp, ConnClose, ConnRelease, ConnUntrack

LEMMA StopLeaves ==
    ASSUME NEW p \in Stops, StopStep(p)
    PROVE  UNCHANGED <<serveVars, http, server, stopping>>
BY DEF StopStep, StopCloseGate, ShutdownBegin, StopCloses, ShutdownListeners,
   ShutdownGroup, StopClosesConn, StopReleasesConn, ShutdownPause,
   ShutdownExpires, ShutdownReturns, KillReturns, StopListenerClosed,
   StopAwaitsServe, StopWaits, StopCleansUp, StopFinishes, JustGoTo, others,
   ownVars, connVars, stopVars

(* The gateway moves its gate only as the gate allows.                     *)
LEMMA GatewayUsesGate == [Next]_vars => [Gate!GateNext]_(Gate!gvars)
<1> SUFFICES ASSUME [Next]_vars PROVE [Gate!GateNext]_(Gate!gvars)
  OBVIOUS
<1> USE DEF Gate!gvars, gateVars
<1>1. CASE Start
  BY <1>1 DEF Start
<1>2. ASSUME NEW c \in Conns, Dial(c) PROVE UNCHANGED gateVars
  BY <1>2 DEF Dial
<1>3. CASE ServeStep
  BY <1>3, ServeLeaves
<1>4. ASSUME NEW c \in Conns, ConnStep(c) PROVE [Gate!GateNext]_(Gate!gvars)
  BY <1>4 DEF ConnStep, ConnRead, ConnActivate, ConnEnter, ConnRefuse,
     ConnLeave, ConnKeep, ConnGiveUp, ConnClose, ConnRelease, ConnUntrack,
     Gate!GateNext
<1>5. ASSUME NEW p \in Stops, StopBegin(p) PROVE UNCHANGED gateVars
  BY <1>5 DEF StopBegin, others
<1>6. ASSUME NEW p \in Stops, StopStep(p) PROVE [Gate!GateNext]_(Gate!gvars)
  BY <1>6 DEF StopStep, StopCloseGate, ShutdownBegin, StopCloses,
     ShutdownListeners, ShutdownGroup, StopClosesConn, StopReleasesConn,
     ShutdownPause, ShutdownExpires, ShutdownReturns, KillReturns,
     StopListenerClosed, StopAwaitsServe, StopWaits, StopCleansUp,
     StopFinishes, JustGoTo, others, Gate!GateNext
<1>7. CASE UNCHANGED vars
  BY <1>7 DEF vars, others
<1> QED
  BY <1>1, <1>2, <1>3, <1>4, <1>5, <1>6, <1>7 DEF Next

(* It moves its listener only as the listener allows.                      *)
LEMMA GatewayUsesAdmission == [Next]_vars => [Adm!Next]_(Adm!vars)
<1> SUFFICES ASSUME [Next]_vars PROVE [Adm!Next]_(Adm!vars)
  OBVIOUS
<1> USE DEF Adm!vars, admVars
<1>1. CASE Start
  BY <1>1 DEF Start
<1>2. ASSUME NEW c \in Conns, Dial(c) PROVE [Adm!Next]_(Adm!vars)
  BY <1>2 DEF Dial, Adm!Next
<1>3. CASE ServeStep
  BY <1>3 DEF ServeStep, ServeTrack, ServeAccept, ServeConn, ServeError,
     ServeReact, ServeUntrack, ServeClose, ServeClosed, ServeReport,
     Adm!Next, Adm!AcceptStep
<1>4. ASSUME NEW c \in Conns, ConnStep(c) PROVE [Adm!Next]_(Adm!vars)
  BY <1>4 DEF ConnStep, ConnRead, ConnActivate, ConnEnter, ConnRefuse,
     ConnLeave, ConnKeep, ConnGiveUp, ConnClose, ConnRelease, ConnUntrack,
     Adm!Next
<1>5. ASSUME NEW p \in Stops, StopBegin(p) PROVE UNCHANGED admVars
  BY <1>5 DEF StopBegin, others
<1>6. ASSUME NEW p \in Stops, StopStep(p) PROVE [Adm!Next]_(Adm!vars)
  BY <1>6 DEF StopStep, StopCloseGate, ShutdownBegin, StopCloses,
     ShutdownListeners, ShutdownGroup, StopClosesConn, StopReleasesConn,
     ShutdownPause, ShutdownExpires, ShutdownReturns, KillReturns,
     StopListenerClosed, StopAwaitsServe, StopWaits, StopCleansUp,
     StopFinishes, JustGoTo, others, Adm!Next
<1>7. CASE UNCHANGED vars
  BY <1>7 DEF vars, others
<1> QED
  BY <1>1, <1>2, <1>3, <1>4, <1>5, <1>6, <1>7 DEF Next

(* The gateway's listener and its gate behave as the modules of their own. *)
THEOREM GatewayComposes == Spec => Adm!Spec /\ Gate!GateSpec
<1>1. Init => Adm!Init /\ Gate!GateInit
  BY DEF Init
<1> QED
  BY <1>1, GatewayUsesAdmission, GatewayUsesGate, PTL DEF Spec, Adm!Spec,
     Gate!GateSpec

-----------------------------------------------------------------------------
(* The initial state.                                                      *)
LEMMA GatewayInit == Init => GatewayInv
<1> SUFFICES ASSUME Init PROVE GatewayInv
  OBVIOUS
<1>1. Typed
  BY DEF Init, Typed
<1>2. Locked /\ Waited /\ Cleaned
  BY DEF Init, Gate!GateInit, Locked, Waited, Cleaned, ServeOver, Inner
<1>3. Accepting
  BY DEF Init, Adm!Init, Accepting
<1>4. Genuine
  BY DEF Init, Adm!Init, Genuine
<1> QED
  BY <1>1, <1>2, <1>3, <1>4 DEF GatewayInv

(* Stop moves from its inner places to its inner places until it finishes. *)
LEMMA TypedStep == Typed /\ [Next]_vars => Typed'
<1> SUFFICES ASSUME Typed, [Next]_vars PROVE Typed'
  OBVIOUS
<1> USE DEF Typed
<1>1. CASE Start
  BY <1>1 DEF Start, connVars
<1>2. ASSUME NEW c \in Conns, Dial(c) PROVE Typed'
  BY <1>2 DEF Dial, stopVars, ownVars, connVars
<1>3. CASE ServeStep
  <2>1. UNCHANGED stopVars
    BY <1>3, ServeLeaves
  <2>2. DOMAIN http' = Conns
    BY <1>3 DEF ServeStep, ServeTrack, ServeAccept, ServeConn, ServeError,
       ServeReact, ServeUntrack, ServeClose, ServeClosed, ServeReport, connVars
  <2> QED
    BY <2>1, <2>2 DEF stopVars, ownVars
<1>4. ASSUME NEW c \in Conns, ConnStep(c) PROVE Typed'
  <2>1. UNCHANGED stopVars
    BY <1>4, ConnLeaves
  <2>2. DOMAIN http' = Conns
    BY <1>4 DEF ConnStep, ConnRead, ConnActivate, ConnEnter, ConnRefuse,
       ConnLeave, ConnKeep, ConnGiveUp, ConnClose, ConnRelease, ConnUntrack,
       ConnMove
  <2> QED
    BY <2>1, <2>2 DEF stopVars, ownVars
<1>5. ASSUME NEW p \in Stops, StopBegin(p) PROVE Typed'
  BY <1>5 DEF StopBegin, GoTo, others, connVars, Inner
<1>6. ASSUME NEW p \in Stops, StopStep(p) PROVE Typed'
  <2> USE DEF GoTo, JustGoTo, others, ownVars, stopVars, connVars, Inner
  <2>1. CASE StopCloseGate(p) \/ ShutdownBegin(p) \/ ShutdownListeners(p)
                 \/ ShutdownGroup(p)
    BY <2>1 DEF StopCloseGate, ShutdownBegin, ShutdownListeners, ShutdownGroup
  <2>2. CASE StopCloses(p)
    BY <2>2 DEF StopCloses
  <2>3. ASSUME NEW c \in Conns, StopClosesConn(p, c) \/ StopReleasesConn(p, c)
        PROVE  Typed'
    BY <2>3 DEF StopClosesConn, StopReleasesConn
  <2>4. CASE ShutdownPause(p) \/ ShutdownExpires(p) \/ ShutdownReturns(p)
                 \/ KillReturns(p)
    BY <2>4 DEF ShutdownPause, ShutdownExpires, ShutdownReturns, KillReturns
  <2>5. CASE StopListenerClosed(p) \/ StopAwaitsServe(p) \/ StopWaits(p)
    BY <2>5 DEF StopListenerClosed, StopAwaitsServe, StopWaits
  <2>6. CASE StopCleansUp(p)
    BY <2>6 DEF StopCleansUp
  <2>7. CASE StopFinishes(p)
    BY <2>7 DEF StopFinishes
  <2> QED
    BY <1>6, <2>1, <2>2, <2>3, <2>4, <2>5, <2>6, <2>7 DEF StopStep
<1>7. CASE UNCHANGED vars
  BY <1>7 DEF vars, others, stopVars, ownVars, connVars
<1> QED
  BY <1>1, <1>2, <1>3, <1>4, <1>5, <1>6, <1>7 DEF Next

(* The listener's part is kept by each step of the listener.               *)
LEMMA AcceptingStep == Accepting /\ [Adm!Next]_(Adm!vars) => Accepting'
<1> SUFFICES ASSUME Accepting, [Adm!Next]_(Adm!vars) PROVE Accepting'
  OBVIOUS
<1> USE DEF Accepting
(* Waking a sleeper moves nobody to "dropping" or "failed".                *)
<1>1. ASSUME NEW p, DOMAIN p = {"serve"},
             NEW q \in Adm!Signal(p) \cup Adm!Broadcast(p)
      PROVE  /\ DOMAIN q = {"serve"}
             /\ q["serve"] \in {"dropping", "failed"} => q["serve"] = p["serve"]
  BY <1>1 DEF Adm!Signal, Adm!Broadcast
<1>2. ASSUME NEW c \in Conns, Adm!Dial(c) PROVE Accepting'
  BY <1>2 DEF Adm!Dial
<1>3. CASE \/ Adm!Call("serve") \/ Adm!Saturated("serve") \/ Adm!Reserve("serve")
           \/ Adm!ReturnClosed("serve") \/ Adm!BaseFail("serve")
  BY <1>3 DEF Adm!Call, Adm!Saturated, Adm!ReturnClosed, Adm!Reserve,
     Adm!BaseFail
<1>4. ASSUME NEW c \in Conns,
             Adm!BaseAccept("serve", c) \/ Adm!RejectPeer("serve", c)
      PROVE  Accepting'
  BY <1>4 DEF Adm!BaseAccept, Adm!RejectPeer
<1>5. CASE Adm!ReleaseAfterFail("serve")
  BY <1>1, <1>5 DEF Adm!ReleaseAfterFail
<1>6. CASE Adm!Publish("serve") \/ Adm!DropConn("serve")
  BY <1>6 DEF Adm!Publish, Adm!DropConn
<1>7. CASE Adm!Discard("serve")
  BY <1>1, <1>7 DEF Adm!Discard
<1>8. CASE Adm!CloseMark
  BY <1>1, <1>8 DEF Adm!CloseMark
<1>9. CASE Adm!BaseClose
  BY <1>9 DEF Adm!BaseClose
<1>10. ASSUME NEW k \in {"conn", "server"}, NEW c \in Conns,
              Adm!CloseConn(k, c) \/ Adm!ReleaseOnce(k, c)
       PROVE  Accepting'
  BY <1>1, <1>10 DEF Adm!CloseConn, Adm!ReleaseOnce
<1>11. CASE UNCHANGED Adm!vars
  BY <1>11 DEF Adm!vars
<1> QED
  BY <1>2, <1>3, <1>4, <1>5, <1>6, <1>7, <1>8, <1>9, <1>10, <1>11
     DEF Adm!Next, Adm!AcceptStep

(* s.mu keeps Start and other Stops out while a Stop is under way.         *)
LEMMA LockedStep == Typed /\ Locked /\ [Next]_vars => Locked'
<1> SUFFICES ASSUME Typed, Locked, [Next]_vars PROVE Locked'
  OBVIOUS
<1> USE NoneAssumption DEF Typed, Locked
<1>1. CASE Start
  BY <1>1 DEF Start, gateVars
<1>2. ASSUME NEW c \in Conns, Dial(c) PROVE Locked'
  BY <1>2 DEF Dial, stopVars, ownVars, connVars, gateVars, serveVars
<1>3. CASE ServeStep
  <2>1. UNCHANGED <<gateVars, stopVars, server>> /\ serve # "none"
    BY <1>3, ServeLeaves DEF ServeStep, ServeTrack, ServeAccept, ServeConn,
       ServeError, ServeReact, ServeUntrack, ServeClose, ServeClosed,
       ServeReport
  <2> QED
    BY <2>1 DEF stopVars, ownVars, gateVars
<1>4. ASSUME NEW c \in Conns, ConnStep(c) PROVE Locked'
  <2>1. UNCHANGED <<stopVars, serveVars, server>>
    BY <1>4, ConnLeaves
  <2>2. gstopping' = gstopping
    BY <1>4 DEF ConnStep, ConnRead, ConnActivate, ConnEnter, ConnRefuse,
       ConnLeave, ConnKeep, ConnGiveUp, ConnClose, ConnRelease, ConnUntrack,
       gateVars, Gate!Enter, Gate!Refuse, Gate!Leave
  <2>3. http[c] # "none"
    BY <1>4 DEF ConnStep, ConnRead, ConnActivate, ConnEnter, ConnRefuse,
       ConnLeave, ConnKeep, ConnGiveUp, ConnClose, ConnRelease, ConnUntrack,
       ConnMove
  <2> QED
    BY <2>1, <2>2, <2>3 DEF stopVars, ownVars, serveVars
<1>5. ASSUME NEW p \in Stops, StopBegin(p) PROVE Locked'
  BY <1>5 DEF StopBegin, GoTo, others, connVars, gateVars, serveVars, Inner
<1>6. ASSUME NEW p \in Stops, StopStep(p) PROVE Locked'
  <2>1. UNCHANGED <<serve, http, server, stopping>>
    BY <1>6, StopLeaves DEF serveVars
  <2>2. stop[p] \in Inner /\ \A q \in Stops \ {p} : stop'[q] = stop[q]
    BY <1>6 DEF StopStep, StopCloseGate, ShutdownBegin, StopCloses,
       ShutdownListeners, ShutdownGroup, StopClosesConn, StopReleasesConn,
       ShutdownPause, ShutdownExpires, ShutdownReturns, KillReturns,
       StopListenerClosed, StopAwaitsServe, StopWaits, StopCleansUp,
       StopFinishes, JustGoTo, GoTo, others, ownVars, stopVars, Inner
  <2>3. mu' = mu \/ stop'[p] = "returned"
    BY <1>6 DEF StopStep, StopCloseGate, ShutdownBegin, StopCloses,
       ShutdownListeners, ShutdownGroup, StopClosesConn, StopReleasesConn,
       ShutdownPause, ShutdownExpires, ShutdownReturns, KillReturns,
       StopListenerClosed, StopAwaitsServe, StopWaits, StopCleansUp,
       StopFinishes, JustGoTo, GoTo, others, ownVars, stopVars
  <2> QED
    BY <2>1, <2>2, <2>3 DEF Inner
<1>7. CASE UNCHANGED vars
  BY <1>7 DEF vars, others, stopVars, ownVars, connVars, gateVars, serveVars
<1> QED
  BY <1>1, <1>2, <1>3, <1>4, <1>5, <1>6, <1>7 DEF Next

(* A wait that has returned stays so.                                      *)
LEMMA ReturnedStays ==
    GateInv /\ [Gate!GateNext]_(Gate!gvars) =>
        \A q \in Stops : waiter[q] = "returned" => waiter'[q] = "returned"
BY DEF GateInv, Gate!GateTypeOK, Gate!GateNext, Gate!Enter, Gate!Refuse,
   Gate!Leave, Gate!StopGate, Gate!WaitCheck, Gate!gvars

(* A Stop returns only after a wait has.                                   *)
LEMMA WaitedStep ==
    Typed /\ GateInv /\ Waited /\ [Next]_vars => Waited'
<1> SUFFICES ASSUME Typed, GateInv, Waited, [Next]_vars PROVE Waited'
  OBVIOUS
<1> USE DEF Typed, Waited
<1>0. \A q \in Stops : waiter[q] = "returned" => waiter'[q] = "returned"
  BY ReturnedStays, GatewayUsesGate
<1>1. CASE UNCHANGED <<stop, stopped>>
  BY <1>0, <1>1
<1>2. ASSUME NEW p \in Stops, StopBegin(p) PROVE Waited'
  BY <1>0, <1>2 DEF StopBegin, GoTo
<1>3. ASSUME NEW p \in Stops, StopStep(p) PROVE Waited'
  <2> USE <1>0 DEF GoTo, JustGoTo, others, ownVars, stopVars
  <2>1. CASE \/ StopCloseGate(p) \/ ShutdownBegin(p) \/ ShutdownListeners(p)
             \/ ShutdownGroup(p)
    BY <2>1 DEF StopCloseGate, ShutdownBegin, ShutdownListeners, ShutdownGroup
  <2>2. CASE StopCloses(p)
    BY <2>2 DEF StopCloses
  <2>3. ASSUME NEW c \in Conns, StopClosesConn(p, c) \/ StopReleasesConn(p, c)
        PROVE  Waited'
    BY <2>3 DEF StopClosesConn, StopReleasesConn
  <2>4. CASE \/ ShutdownPause(p) \/ ShutdownExpires(p) \/ ShutdownReturns(p)
             \/ KillReturns(p)
    BY <2>4 DEF ShutdownPause, ShutdownExpires, ShutdownReturns, KillReturns
  <2>5. CASE StopListenerClosed(p) \/ StopAwaitsServe(p)
    BY <2>5 DEF StopListenerClosed, StopAwaitsServe
  <2>6. CASE StopWaits(p) \/ StopCleansUp(p)
    BY <2>6 DEF StopWaits, StopCleansUp
  <2>7. CASE StopFinishes(p)
    BY <2>7 DEF StopFinishes
  <2> QED
    BY <1>3, <2>1, <2>2, <2>3, <2>4, <2>5, <2>6, <2>7 DEF StopStep
<1> QED
  BY <1>1, <1>2, <1>3, ServeLeaves, ConnLeaves
     DEF Next, Start, Dial, vars, stopVars, ownVars

(* The socket is removed by its cleanup, and Serve is over by then.        *)
LEMMA CleanedStep ==
    Typed /\ Locked /\ Cleaned /\ [Next]_vars => Cleaned'
<1> SUFFICES ASSUME Typed, Locked, Cleaned, [Next]_vars PROVE Cleaned'
  OBVIOUS
<1> USE NoneAssumption DEF Typed, Cleaned, ServeOver
<1>1. CASE Start
  BY <1>1 DEF Start, Locked, Inner
<1>2. CASE UNCHANGED <<stopVars, serve, serveErr>>
  BY <1>2 DEF stopVars, ownVars
<1>3. CASE ServeStep
  <2>1. UNCHANGED stopVars /\ ~ServeOver
    BY <1>3, ServeLeaves DEF ServeStep, ServeTrack, ServeAccept, ServeConn,
       ServeError, ServeReact, ServeUntrack, ServeClose, ServeClosed,
       ServeReport
  <2> QED
    BY <2>1 DEF stopVars, ownVars
<1>4. ASSUME NEW p \in Stops, StopBegin(p) PROVE Cleaned'
  BY <1>4 DEF StopBegin, GoTo, others, serveVars
<1>5. ASSUME NEW p \in Stops, StopStep(p) PROVE Cleaned'
  <2> USE DEF GoTo, JustGoTo, others, ownVars, stopVars
  <2>0. UNCHANGED <<serve, serveErr>>
    BY <1>5, StopLeaves DEF serveVars
  <2>1. CASE \/ StopCloseGate(p) \/ ShutdownBegin(p) \/ ShutdownListeners(p)
             \/ ShutdownGroup(p)
    BY <2>0, <2>1 DEF StopCloseGate, ShutdownBegin, ShutdownListeners,
       ShutdownGroup, Locked
  <2>2. CASE StopCloses(p)
    BY <2>0, <2>2 DEF StopCloses
  <2>3. ASSUME NEW c \in Conns, StopClosesConn(p, c) \/ StopReleasesConn(p, c)
        PROVE  Cleaned'
    BY <2>0, <2>3 DEF StopClosesConn, StopReleasesConn
  <2>4. CASE \/ ShutdownPause(p) \/ ShutdownExpires(p) \/ ShutdownReturns(p)
             \/ KillReturns(p)
    BY <2>0, <2>4 DEF ShutdownPause, ShutdownExpires, ShutdownReturns,
       KillReturns
  <2>5. CASE StopListenerClosed(p) \/ StopAwaitsServe(p) \/ StopWaits(p)
    BY <2>0, <2>5 DEF StopListenerClosed, StopAwaitsServe, StopWaits
  <2>6. CASE StopCleansUp(p)
    BY <2>0, <2>6 DEF StopCleansUp, Locked, Inner
  <2>7. CASE StopFinishes(p)
    BY <2>0, <2>7 DEF StopFinishes
  <2> QED
    BY <1>5, <2>1, <2>2, <2>3, <2>4, <2>5, <2>6, <2>7 DEF StopStep
<1> QED
  BY <1>1, <1>2, <1>3, <1>4, <1>5, ConnLeaves
     DEF Next, Dial, vars, others, serveVars

(* Serve takes the closing of its listener for a failure only if nobody    *)
(* asked for it.                                                           *)
LEMMA GenuineStep ==
    Typed /\ Locked /\ Accepting /\ Genuine /\ [Next]_vars => Genuine'
<1> SUFFICES ASSUME Typed, Locked, Accepting, Genuine, [Next]_vars
             PROVE  Genuine'
  OBVIOUS
<1> USE DEF Genuine
<1>1. CASE Start
  BY <1>1 DEF Start, Locked, admVars
<1>2. CASE UNCHANGED <<stop, inShutdown, closed, faults, serve, acceptErr,
                       serveErr, requested>>
  BY <1>2
<1>3. CASE ServeStep
  <2>1. UNCHANGED <<stop, inShutdown>>
    BY <1>3, ServeLeaves DEF stopVars
  <2>2. faults' \in Nat /\ faults' >= faults /\ (closed => closed')
    BY <1>3 DEF Accepting, ServeStep, ServeTrack, ServeAccept, ServeConn,
       ServeError, ServeReact, ServeUntrack, ServeClose, ServeClosed,
       ServeReport, admVars, Adm!Call, Adm!Saturated, Adm!Reserve,
       Adm!BaseAccept, Adm!RejectPeer, Adm!BaseFail, Adm!Discard, Adm!Publish,
       Adm!ReturnClosed, Adm!DropConn, Adm!ReleaseAfterFail, Adm!CloseMark,
       Adm!BaseClose
  <2>3. CASE ServeTrack \/ ServeUntrack \/ ServeClosed
    BY <2>1, <2>3 DEF ServeTrack, ServeUntrack, ServeClosed, admVars
  <2>4. CASE ServeAccept \/ ServeConn
    <3>1. closed' = closed /\ UNCHANGED serveVars
      BY <2>4 DEF ServeAccept, ServeConn, Adm!Call, Adm!Saturated, Adm!Reserve,
         Adm!BaseAccept, Adm!RejectPeer, Adm!BaseFail, Adm!Discard, Adm!Publish
    <3> QED
      BY <2>1, <2>2, <3>1 DEF serveVars, Accepting
  <2>5. CASE ServeError
    <3>1. UNCHANGED <<closed, faults, serveErr, requested>> /\ serve' = "erred"
      BY <2>5 DEF ServeError, Adm!ReturnClosed, Adm!DropConn,
         Adm!ReleaseAfterFail
    <3>2. \/ acceptErr' = "closed" /\ closed
          \/ acceptErr' = "fault" /\ faults > 0
      <4>1. CASE Adm!ReturnClosed("serve") /\ acceptErr' = "closed"
        BY <4>1 DEF Adm!ReturnClosed
      <4>2. CASE Adm!DropConn("serve") /\ acceptErr' = "closed"
        BY <4>2 DEF Adm!DropConn, Accepting
      <4>3. CASE /\ Adm!ReleaseAfterFail("serve")
                 /\ acceptErr' = IF baseClosed THEN "closed" ELSE "fault"
        BY <4>3 DEF Adm!ReleaseAfterFail, Accepting
      <4> QED
        BY <2>5, <4>1, <4>2, <4>3 DEF ServeError
    <3>3. serve = "loop"
      BY <2>5 DEF ServeError
    <3> QED
      BY <2>1, <3>1, <3>2, <3>3
  <2>6. CASE ServeReact
    BY <2>1, <2>6 DEF ServeReact, admVars
  <2>7. CASE ServeClose
    <3>1. serve = "closing" /\ UNCHANGED <<serveVars, faults>>
      BY <2>7 DEF ServeClose, Adm!CloseMark, Adm!BaseClose
    <3> QED
      BY <2>1, <3>1 DEF serveVars
  <2>8. CASE ServeReport
    <3>1. serveErr' = (acceptErr = "fault")
      BY <2>8 DEF ServeReport
    <3>2. acceptErr = "fault" => requested'
      BY <2>8 DEF ServeReport
    <3>3. /\ UNCHANGED <<closed, faults, acceptErr>>
          /\ serve' = "done" /\ serve = "reporting"
      BY <2>8 DEF ServeReport, admVars
    <3> QED
      BY <2>1, <3>1, <3>2, <3>3
  <2> QED
    BY <1>3, <2>3, <2>4, <2>5, <2>6, <2>7, <2>8 DEF ServeStep
<1>4. ASSUME NEW c \in Conns, Dial(c) \/ ConnStep(c) PROVE Genuine'
  <2>1. UNCHANGED <<stopVars, serveVars, inShutdown>>
    BY <1>4, ConnLeaves DEF Dial
  <2>2. UNCHANGED <<closed, faults>>
    BY <1>4 DEF Dial, Adm!Dial, ConnStep, ConnRead, ConnActivate, ConnEnter,
       ConnRefuse, ConnLeave, ConnKeep, ConnGiveUp, ConnClose, ConnRelease,
       ConnUntrack, admVars, Adm!CloseConn, Adm!ReleaseOnce
  <2> QED
    BY <2>1, <2>2 DEF stopVars, serveVars
<1>5. ASSUME NEW p \in Stops, StopBegin(p) PROVE Genuine'
  BY <1>5 DEF StopBegin, GoTo, others, serveVars, admVars, Typed
<1>6. ASSUME NEW p \in Stops, StopStep(p) PROVE Genuine'
  <2> USE DEF GoTo, JustGoTo, others, ownVars, stopVars, admVars, Typed
  <2>0. UNCHANGED <<serve, acceptErr, serveErr, requested>>
    BY <1>6, StopLeaves DEF serveVars
  <2>1. CASE \/ StopCloseGate(p) \/ ShutdownBegin(p) \/ ShutdownListeners(p)
             \/ ShutdownGroup(p)
    BY <2>0, <2>1 DEF StopCloseGate, ShutdownBegin, ShutdownListeners,
       ShutdownGroup
  <2>2. CASE StopCloses(p)
    BY <2>0, <2>2 DEF StopCloses, Adm!CloseMark, Adm!BaseClose
  <2>3. ASSUME NEW c \in Conns, StopClosesConn(p, c) \/ StopReleasesConn(p, c)
        PROVE  Genuine'
    BY <2>0, <2>3 DEF StopClosesConn, StopReleasesConn, Adm!CloseConn,
       Adm!ReleaseOnce
  <2>4. CASE \/ ShutdownPause(p) \/ ShutdownExpires(p) \/ ShutdownReturns(p)
             \/ KillReturns(p)
    BY <2>0, <2>4 DEF ShutdownPause, ShutdownExpires, ShutdownReturns,
       KillReturns
  <2>5. CASE StopListenerClosed(p) \/ StopAwaitsServe(p) \/ StopWaits(p)
    BY <2>0, <2>5 DEF StopListenerClosed, StopAwaitsServe, StopWaits
  <2>6. CASE StopCleansUp(p) \/ StopFinishes(p)
    BY <2>0, <2>6 DEF StopCleansUp, StopFinishes
  <2> QED
    BY <1>6, <2>1, <2>2, <2>3, <2>4, <2>5, <2>6 DEF StopStep
<1> QED
  BY <1>1, <1>2, <1>3, <1>4, <1>5, <1>6
     DEF Next, vars, others, stopVars, serveVars, admVars

(* The gateway's invariant, for any instance.                              *)
THEOREM GatewaySafe == Spec => [](GateInv /\ GatewayInv)
<1>1. Init => GatewayInv
  BY GatewayInit
<1>2. GateInv /\ GatewayInv /\ [Next]_vars => GatewayInv'
  BY TypedStep, LockedStep, WaitedStep, CleanedStep, GenuineStep,
     AcceptingStep, GatewayUsesAdmission DEF GatewayInv
<1> QED
  BY <1>1, <1>2, GatewayComposes, GateSafe, PTL DEF Spec

(* A Stop that returned nil left neither socket nor cleanup behind, and    *)
(* reported what Serve had to say.                                         *)
THEOREM GatewayStoppedIsClean == Spec => []StoppedIsClean
<1>1. GatewayInv => StoppedIsClean
  BY DEF GatewayInv, Typed, Cleaned, StoppedIsClean
<1> QED
  BY <1>1, GatewaySafe, PTL

(* The gateway's own closing of the listener is never reported as a        *)
(* failure of Serve.                                                       *)
THEOREM GatewayFailureIsGenuine == Spec => []FailureIsGenuine
<1>1. GatewayInv => FailureIsGenuine
  BY DEF GatewayInv, Genuine, FailureIsGenuine
<1> QED
  BY <1>1, GatewaySafe, PTL

-----------------------------------------------------------------------------
(* Each step of the gateway is a step of the abstract service or hidden.   *)
AnyReturned == \E p \in Stops : stop[p] = "returned"

(* What the abstract service sees depends on little.                       *)
LEMMA Hidden ==
    ASSUME UNCHANGED <<gstopping, handler, server, socket>>,
           AnyReturned' <=> AnyReturned
    PROVE  UNCHANGED Service!vars
BY DEF Service!vars, Phase, Inflight, AnyReturned

(* A handler that begins or ends is a request that does.                   *)
LEMMA ConnSimulates ==
    ASSUME NEW c \in Conns, ConnStep(c), GateInv, GatewayInv
    PROVE  Service!Begin(c) \/ Service!End(c) \/ UNCHANGED Service!vars
<1>0. UNCHANGED <<stopVars, server>>
  BY ConnLeaves
<1> USE DEF GateInv, Gate!GateTypeOK
<1>1. CASE ConnEnter(c)
  <2>1. c \notin Inflight /\ Inflight' = Inflight \cup {c}
    BY <1>1 DEF ConnEnter, Gate!Enter, Inflight
  <2>2. server /\ ~gstopping /\ ~gstopping'
    BY <1>1 DEF ConnEnter, ConnMove, Gate!Enter, GatewayInv, Locked
  <2> QED
    BY <1>0, <2>1, <2>2 DEF Service!Begin, Phase, stopVars, ownVars
<1>2. CASE ConnLeave(c)
  <2>1. c \in Inflight /\ Inflight' = Inflight \ {c} /\ gstopping' = gstopping
    BY <1>2 DEF ConnLeave, Gate!Leave, Inflight
  <2> QED
    BY <1>0, <2>1 DEF Service!End, Phase, stopVars, ownVars
<1>3. CASE ConnRefuse(c)
  <2>1. Inflight' = Inflight /\ gstopping' = gstopping
    BY <1>3 DEF ConnRefuse, Gate!Refuse, Inflight
  <2> QED
    BY <1>0, <2>1 DEF Service!vars, Phase, stopVars, ownVars
<1>4. CASE UNCHANGED gateVars
  BY <1>0, <1>4, Hidden DEF gateVars, stopVars, ownVars, AnyReturned
<1> QED
  BY <1>1, <1>2, <1>3, <1>4 DEF ConnStep, ConnRead, ConnActivate, ConnKeep,
     ConnGiveUp, ConnClose, ConnRelease, ConnUntrack

(* The first Stop to pass the gate ends the serving, ...                   *)
LEMMA BeginSimulates ==
    ASSUME NEW p \in Stops, StopBegin(p) \/ StopCloseGate(p), GateInv, GatewayInv
    PROVE  Service!BeginStop \/ UNCHANGED Service!vars
<1> USE DEF GoTo, others, ownVars, gateVars, GatewayInv, Typed
<1>1. AnyReturned => gstopping
  BY DEF AnyReturned, GateInv, Gate!DrainedForGood, Waited
<1>2. CASE StopBegin(p)
  <2>1. AnyReturned' <=> AnyReturned
    BY <1>2 DEF StopBegin, AnyReturned, Waited
  <2> QED
    BY <1>2, <2>1, Hidden DEF StopBegin
<1>3. CASE StopCloseGate(p)
  <2>1. AnyReturned' <=> AnyReturned
    BY <1>3 DEF StopCloseGate, AnyReturned
  <2>2. gstopping' /\ UNCHANGED <<handler, server, socket>>
    BY <1>3 DEF StopCloseGate, Gate!StopGate
  <2>3. CASE gstopping
    BY <2>1, <2>2, <2>3, Zenon DEF Service!vars, Phase, Inflight, AnyReturned
  <2>4. CASE ~gstopping
    BY <1>1, <2>1, <2>2, <2>4 DEF Service!BeginStop, Phase, Inflight,
       AnyReturned
  <2> QED
    BY <2>3, <2>4
<1> QED
  BY <1>2, <1>3

(* ... and one removes the socket and returns only when it has drained.    *)
LEMMA EndSimulates ==
    ASSUME NEW p \in Stops, StopCleansUp(p) \/ StopFinishes(p), GateInv, GatewayInv
    PROVE  Service!Retire \/ Service!Return \/ UNCHANGED Service!vars
<1> USE DEF GoTo, others, ownVars, gateVars, GatewayInv, Typed
<1>1. gstopping /\ Inflight = {} /\ stop[p] \in {"cleanup", "finish"}
  BY DEF StopCleansUp, StopFinishes, Waited, GateInv, Gate!DrainedForGood,
     Gate!Inside, Inflight
<1>2. UNCHANGED <<gstopping, handler, server>>
  BY DEF StopCleansUp, StopFinishes
<1>3. CASE StopCleansUp(p)
  <2>1. AnyReturned' <=> AnyReturned
    BY <1>3 DEF StopCleansUp, AnyReturned
  <2>2. CASE socket' = socket
    BY <1>2, <2>1, <2>2, Hidden
  <2>3. CASE socket' # socket
    <3>1. socket /\ socket' = FALSE
      BY <1>3, <2>3 DEF StopCleansUp
    <3> QED
      BY <1>1, <1>2, <2>1, <3>1 DEF Service!Retire, Phase, Inflight,
         AnyReturned
  <2> QED
    BY <2>2, <2>3
<1>4. CASE StopFinishes(p)
  <2>1. AnyReturned' /\ socket' = socket
    BY <1>4 DEF StopFinishes, AnyReturned
  <2> QED
    BY <1>1, <1>2, <2>1 DEF Service!Return, Service!vars, Phase, Inflight,
       AnyReturned
<1> QED
  BY <1>3, <1>4

(* What Stop does in between is hidden.                                    *)
LEMMA StopHidden ==
    ASSUME NEW p \in Stops, StopStep(p), GatewayInv, GateInv,
           ~StopCloseGate(p), ~StopCleansUp(p), ~StopFinishes(p)
    PROVE  UNCHANGED Service!vars
<1> USE DEF GoTo, JustGoTo, others, ownVars, gateVars, connVars, stopVars,
        GatewayInv, Typed
<1>1. UNCHANGED <<gstopping, handler, server, socket>>
  BY DEF StopStep, ShutdownBegin, StopCloses, ShutdownListeners, ShutdownGroup,
     StopClosesConn, StopReleasesConn, ShutdownPause, ShutdownExpires,
     ShutdownReturns, KillReturns, StopListenerClosed, StopAwaitsServe,
     StopWaits, Gate!WaitCheck
<1>2. \/ stop' = stop
      \/ \E to \in Inner : stop[p] \in Inner /\ stop' = [stop EXCEPT ![p] = to]
  BY DEF StopStep, ShutdownBegin, StopCloses, ShutdownListeners, ShutdownGroup,
     StopClosesConn, StopReleasesConn, ShutdownPause, ShutdownExpires,
     ShutdownReturns, KillReturns, StopListenerClosed, StopAwaitsServe,
     StopWaits, Inner
<1>3. AnyReturned' <=> AnyReturned
  BY <1>2 DEF AnyReturned, Inner
<1> QED
  BY <1>1, <1>3, Hidden

(* The gateway keeps the promise of GracefulService: whatever fails and    *)
(* whoever calls Stop, requests begin only before the first Stop, and a    *)
(* Stop removes the socket and returns only when no handler runs.          *)
THEOREM GatewayImplementsService == Spec => ImplementsService
<1>1. Init => Service!Init
  BY DEF Init, Gate!GateInit, Service!Init, Phase, Inflight
<1>2. GateInv /\ GatewayInv /\ [Next]_vars => [Service!Next]_(Service!vars)
  <2> SUFFICES ASSUME GateInv, GatewayInv, [Next]_vars
               PROVE  [Service!Next]_(Service!vars)
    OBVIOUS
  <2> USE DEF Service!Next
  <2>1. CASE Start
    BY <2>1 DEF Start, gateVars, Service!Start, Phase, Inflight, GatewayInv,
       Locked
  <2>2. ASSUME NEW c \in Conns, Dial(c) PROVE UNCHANGED Service!vars
    BY <2>2, Hidden DEF Dial, gateVars, stopVars, ownVars, AnyReturned
  <2>3. CASE ServeStep
    BY <2>3, Hidden, ServeLeaves DEF gateVars, stopVars, ownVars, AnyReturned
  <2>4. ASSUME NEW c \in Conns, ConnStep(c) PROVE [Service!Next]_(Service!vars)
    BY <2>4, ConnSimulates
  <2>5. ASSUME NEW p \in Stops, StopBegin(p) PROVE [Service!Next]_(Service!vars)
    BY <2>5, BeginSimulates
  <2>6. ASSUME NEW p \in Stops, StopStep(p) PROVE [Service!Next]_(Service!vars)
    BY <2>6, BeginSimulates, EndSimulates, StopHidden
  <2>7. CASE UNCHANGED vars
    BY <2>7, Hidden DEF vars, others, gateVars, stopVars, ownVars, AnyReturned
  <2> QED
    BY <2>1, <2>2, <2>3, <2>4, <2>5, <2>6, <2>7 DEF Next
<1> QED
  BY <1>1, <1>2, GatewaySafe, PTL DEF Spec, ImplementsService, Service!Spec
=============================================================================
