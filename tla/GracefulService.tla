--------------------------- MODULE GracefulService ---------------------------
(***************************************************************************)
(* What localgateway promises its application, without HTTP, connections   *)
(* or locks: requests begin only while the service is serving, the first   *)
(* Stop ends that for good, the endpoint is taken away only when no        *)
(* request is in flight, and Stop returns only then.                       *)
(***************************************************************************)
CONSTANT Requests

VARIABLES
    phase,     \* "new", "serving", "draining" (in Stop), "quiet" (a Stop returned)
    inflight,  \* requests inside the application's handler
    endpoint   \* the endpoint is visible to clients

vars == <<phase, inflight, endpoint>>

TypeOK ==
    /\ phase \in {"new", "serving", "draining", "quiet"}
    /\ inflight \subseteq Requests
    /\ endpoint \in BOOLEAN

Init == phase = "new" /\ inflight = {} /\ endpoint = FALSE

Start ==
    /\ phase = "new"
    /\ phase' = "serving"
    /\ endpoint' = TRUE
    /\ UNCHANGED inflight

Begin(r) ==
    /\ phase = "serving"
    /\ r \notin inflight
    /\ inflight' = inflight \cup {r}
    /\ UNCHANGED <<phase, endpoint>>

End(r) ==
    /\ r \in inflight
    /\ inflight' = inflight \ {r}
    /\ UNCHANGED <<phase, endpoint>>

BeginStop ==
    /\ phase \in {"new", "serving"}
    /\ phase' = "draining"
    /\ UNCHANGED <<inflight, endpoint>>

(* A Stop whose removal failed returns all the same; a later Stop retries. *)
Retire ==
    /\ phase \in {"draining", "quiet"}
    /\ inflight = {}
    /\ endpoint /\ endpoint' = FALSE
    /\ UNCHANGED <<phase, inflight>>

Return ==
    /\ phase = "draining"
    /\ inflight = {}
    /\ phase' = "quiet"
    /\ UNCHANGED <<inflight, endpoint>>

Next ==
    \/ Start
    \/ \E r \in Requests : Begin(r) \/ End(r)
    \/ BeginStop
    \/ Retire
    \/ Return

Spec == Init /\ [][Next]_vars
=============================================================================
