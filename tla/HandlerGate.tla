---------------------------- MODULE HandlerGate ----------------------------
(***************************************************************************)
(* handlerGate and gatedHandler (localgateway/gateway.go): every request   *)
(* passes enter before the application's handler and leave after it; Stop  *)
(* calls stop, which refuses all later entries, and wait, which sleeps on  *)
(* a condition variable created by the first wait until the last handler   *)
(* has left.  Each critical section of g.mu is one action.                 *)
(***************************************************************************)
EXTENDS Integers, FiniteSets

CONSTANTS
    Requests,  \* goroutines serving requests
    Waiters    \* calls of Stop, each calling stop and then wait

VARIABLES
    gstopping,  \* g.stopping
    gactive,    \* g.active
    cond,       \* g.cond # nil
    handler,    \* each request goroutine: outside, inside, or turned away
    waiter      \* each call of Stop: where it is between stop and wait's end

gvars == <<gstopping, gactive, cond, handler, waiter>>

GateTypeOK ==
    /\ gstopping \in BOOLEAN
    /\ gactive \in Nat
    /\ cond \in BOOLEAN
    /\ handler \in [Requests -> {"out", "in", "refused"}]
    /\ waiter \in [Waiters -> {"idle", "checking", "sleeping", "returned"}]

GateInit ==
    /\ gstopping = FALSE
    /\ gactive = 0
    /\ cond = FALSE
    /\ handler = [r \in Requests |-> "out"]
    /\ waiter = [w \in Waiters |-> "idle"]

-----------------------------------------------------------------------------
(* enter() returns true and ServeHTTP calls the application's handler.     *)
Enter(r) ==
    /\ handler[r] # "in"
    /\ ~gstopping
    /\ gactive' = gactive + 1
    /\ handler' = [handler EXCEPT ![r] = "in"]
    /\ UNCHANGED <<gstopping, cond, waiter>>

(* enter() returns false: 503 Service Unavailable.                         *)
Refuse(r) ==
    /\ handler[r] # "in"
    /\ gstopping
    /\ handler' = [handler EXCEPT ![r] = "refused"]
    /\ UNCHANGED <<gstopping, gactive, cond, waiter>>

(* mutant: leave broadcasts before the last handler is out.                *)
LeaveEarlyBroadcast(r) ==
    /\ handler[r] = "in"
    /\ gactive' = gactive - 1
    /\ handler' = [handler EXCEPT ![r] = "out"]
    /\ waiter' = [w \in Waiters |->
                     IF waiter[w] = "sleeping" /\ gactive' = 1 /\ cond
                     THEN "checking" ELSE waiter[w]]
    /\ UNCHANGED <<gstopping, cond>>

(* The deferred leave(), also when the handler panics.                     *)
Leave(r) ==
    /\ handler[r] = "in"
    /\ gactive' = gactive - 1
    /\ handler' = [handler EXCEPT ![r] = "out"]
    /\ waiter' = [w \in Waiters |->
                     IF waiter[w] = "sleeping" /\ gactive' = 0 /\ cond
                     THEN "checking" ELSE waiter[w]]
    /\ UNCHANGED <<gstopping, cond>>

(* stop()                                                                  *)
StopGate(w) ==
    /\ waiter[w] = "idle"
    /\ gstopping' = TRUE
    /\ waiter' = [waiter EXCEPT ![w] = "checking"]
    /\ UNCHANGED <<gactive, cond, handler>>

(* One test of wait's loop, on entry or after a wake-up.                   *)
WaitCheck(w) ==
    /\ waiter[w] = "checking"
    /\ cond' = TRUE
    /\ waiter' = [waiter EXCEPT ![w] = IF gactive # 0 THEN "sleeping"
                                                      ELSE "returned"]
    /\ UNCHANGED <<gstopping, gactive, handler>>

GateNext ==
    \/ \E r \in Requests : Enter(r) \/ Refuse(r) \/ Leave(r)
    \/ \E w \in Waiters : StopGate(w) \/ WaitCheck(w)

GateSpec == GateInit /\ [][GateNext]_gvars

-----------------------------------------------------------------------------
Inside == {r \in Requests : handler[r] = "in"}

(* g.active counts the handlers that entered and have not left, however    *)
(* entries, refusals and departures interleave with Stop.                  *)
GateCounts == IsFiniteSet(Inside) /\ gactive = Cardinality(Inside)

(* No lost wake-up: a Stop asleep in wait always has a handler left to     *)
(* wake it, although leave broadcasts only if a wait created the condition *)
(* variable before it.                                                     *)
SleeperHasHandler ==
    (\E w \in Waiters : waiter[w] = "sleeping") => cond /\ Inside # {}

(* Once one call of wait has returned no handler runs, then or later.      *)
DrainedForGood ==
    (\E w \in Waiters : waiter[w] = "returned") => gstopping /\ Inside = {}
=============================================================================
