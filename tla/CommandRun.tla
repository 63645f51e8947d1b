----------------------------- MODULE CommandRun -----------------------------
(***************************************************************************)
(* What process promises who runs a command, without pipes, goroutines,    *)
(* signals or timers: the command writes to its streams while it runs;     *)
(* what has been written is delivered in order, stream by stream, by       *)
(* chunks of any size; then there is one verdict, after which nothing is   *)
(* written or delivered any more, and which is "completed" only if nothing *)
(* is missing.                                                             *)
(***************************************************************************)
EXTENDS Integers, Sequences

CONSTANT Streams

VARIABLES
    written,    \* bytes written to each stream
    delivered,  \* bytes of it that were delivered
    log,        \* all that was delivered
    verdict     \* "none" before the start, "running", or the command's end

vars == <<written, delivered, log, verdict>>

Init ==
    /\ written = [s \in Streams |-> 0]
    /\ delivered = [s \in Streams |-> 0]
    /\ log = <<>>
    /\ verdict = "none"

(* A command that cannot be started has failed.                            *)
Start ==
    /\ verdict = "none"
    /\ verdict' \in {"running", "failed"}
    /\ UNCHANGED <<written, delivered, log>>

Write(s) ==
    /\ verdict = "running"
    /\ written' = [written EXCEPT ![s] = @ + 1]
    /\ UNCHANGED <<delivered, log, verdict>>

Deliver(s, n) ==
    /\ verdict = "running"
    /\ delivered[s] + n <= written[s]
    /\ log' = log \o [k \in 1 .. n |-> <<s, delivered[s] + k>>]
    /\ delivered' = [delivered EXCEPT ![s] = @ + n]
    /\ UNCHANGED <<written, verdict>>

Finish ==
    /\ verdict = "running"
    /\ \/ verdict' \in {"failed", "canceled"}
       \/ verdict' = "completed" /\ delivered = written
    /\ UNCHANGED <<written, delivered, log>>

Next ==
    \/ Start \/ Finish
    \/ \E s \in Streams : Write(s) \/ \E n \in 1 .. written[s] : Deliver(s, n)

Spec == Init /\ [][Next]_vars
=============================================================================
