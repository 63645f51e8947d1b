------------------------------ MODULE Admission ------------------------------
(***************************************************************************)
(* admissionListener (localgateway/admission.go): a net.Listener that lets *)
(* at most Max connections exist at a time.  A slot is reserved before the *)
(* wrapped listener's Accept is called and given back when that call       *)
(* fails, when the connection arrives after Close, or by the first Close   *)
(* of the connection.                                                      *)
(*                                                                         *)
(* Every critical section of l.mu is one atomic action.  l.cond is the set *)
(* of goroutines asleep in cond.Wait: Signal wakes any one of them,        *)
(* Broadcast all, and a woken goroutine still has to take the lock again.  *)
(***************************************************************************)
EXTENDS Integers, FiniteSets

CONSTANTS
    Acceptors,  \* goroutines that call Accept (net/http uses one)
    Conns,      \* connections clients open, each used once
    Closers,    \* goroutines that may close an admitted connection
    Max,        \* l.max
    NoConn,     \* "no connection"
    MaxFaults   \* bound: failures of the wrapped Accept while it is open

ASSUME MaxAssumption == Max \in Nat \ {0}
ASSUME FaultsAssumption == MaxFaults \in Nat
ASSUME AcceptorsAssumption == IsFiniteSet(Acceptors)
ASSUME NamesAssumption == NoConn \notin Conns /\ Acceptors \cap Conns = {}

VARIABLES
    active,      \* l.active
    closed,      \* l.closed
    baseClosed,  \* the wrapped listener is closed
    pc,          \* where each acceptor is inside Accept
    got,         \* the connection the wrapped Accept returned to an acceptor
    transport,   \* the life of each connection's transport
    admitted,    \* connections returned to the caller as an admittedConn
    released,    \* admitted connections whose once.Do(release) has run
    closing,     \* closers between Conn.Close and once.Do, per connection
    faults       \* failures of the wrapped Accept so far

vars == <<active, closed, baseClosed, pc, got, transport, admitted, released,
          closing, faults>>

Where(place) == {a \in Acceptors : pc[a] = place}

TypeOK ==
    /\ active \in 0 .. Max
    /\ closed \in BOOLEAN
    /\ baseClosed \in BOOLEAN
    /\ pc \in [Acceptors -> {"idle", "locking", "waiting", "accepting",
                             "failed", "accepted", "dropping"}]
    /\ got \in [Acceptors -> Conns \cup {NoConn}]
    /\ transport \in [Conns -> {"none", "queued", "held", "open", "closed"}]
    /\ admitted \subseteq Conns
    /\ released \subseteq admitted
    /\ closing \in [Conns -> SUBSET Closers]
    /\ faults \in 0 .. MaxFaults

Init ==
    /\ active = 0
    /\ closed = FALSE
    /\ baseClosed = FALSE
    /\ pc = [a \in Acceptors |-> "idle"]
    /\ got = [a \in Acceptors |-> NoConn]
    /\ transport = [c \in Conns |-> "none"]
    /\ admitted = {}
    /\ released = {}
    /\ closing = [c \in Conns |-> {}]
    /\ faults = 0

-----------------------------------------------------------------------------
(* sync.Cond: the program counters that cond.Signal and cond.Broadcast can *)
(* leave behind when they are called with the counters p.                  *)

Signal(p) ==
    LET asleep == {w \in Acceptors : p[w] = "waiting"}
    IN  IF asleep = {} THEN {p}
                       ELSE {[p EXCEPT ![w] = "locking"] : w \in asleep}

Broadcast(p) ==
    {[w \in Acceptors |-> IF p[w] = "waiting" THEN "locking" ELSE p[w]]}

-----------------------------------------------------------------------------
(* A client reaches the operating system's accept queue.                   *)
Dial(c) ==
    /\ ~baseClosed
    /\ transport[c] = "none"
    /\ transport' = [transport EXCEPT ![c] = "queued"]
    /\ UNCHANGED <<active, closed, baseClosed, pc, got, admitted, released,
                   closing, faults>>

(* Accept is called; the goroutine is about to take l.mu.                  *)
Call(a) ==
    /\ pc[a] = "idle"
    /\ pc' = [pc EXCEPT ![a] = "locking"]
    /\ UNCHANGED <<active, closed, baseClosed, got, transport, admitted,
                   released, closing, faults>>

(* No slot is free: cond.Wait.                                             *)
Saturated(a) ==
    /\ pc[a] = "locking"
    /\ active >= Max /\ ~closed
    /\ pc' = [pc EXCEPT ![a] = "waiting"]
    /\ UNCHANGED <<active, closed, baseClosed, got, transport, admitted,
                   released, closing, faults>>

(* The listener is closed: Accept returns net.ErrClosed.                   *)
ReturnClosed(a) ==
    /\ pc[a] = "locking"
    /\ closed
    /\ pc' = [pc EXCEPT ![a] = "idle"]
    /\ UNCHANGED <<active, closed, baseClosed, got, transport, admitted,
                   released, closing, faults>>

(* active++, then the lock is dropped for the wrapped Accept.              *)
Reserve(a) ==
    /\ pc[a] = "locking"
    /\ active < Max
    /\ ~closed
    /\ active' = active + 1
    /\ pc' = [pc EXCEPT ![a] = "accepting"]
    /\ UNCHANGED <<closed, baseClosed, got, transport, admitted, released,
                   closing, faults>>

(* peerListener.Accept returns a connection of an authorized peer.         *)
BaseAccept(a, c) ==
    /\ pc[a] = "accepting"
    /\ ~baseClosed
    /\ transport[c] = "queued"
    /\ transport' = [transport EXCEPT ![c] = "held"]
    /\ got' = [got EXCEPT ![a] = c]
    /\ pc' = [pc EXCEPT ![a] = "accepted"]
    /\ UNCHANGED <<active, closed, baseClosed, admitted, released, closing,
                   faults>>

(* peerListener.Accept closes a connection of another user and loops.      *)
RejectPeer(a, c) ==
    /\ pc[a] = "accepting"
    /\ ~baseClosed
    /\ transport[c] = "queued"
    /\ transport' = [transport EXCEPT ![c] = "closed"]
    /\ UNCHANGED <<active, closed, baseClosed, pc, got, admitted, released,
                   closing, faults>>

(* The wrapped Accept fails: because the listener is closed, or by itself. *)
BaseFail(a) ==
    /\ pc[a] = "accepting"
    /\ baseClosed \/ faults < MaxFaults
    /\ faults' = IF baseClosed THEN faults ELSE faults + 1
    /\ pc' = [pc EXCEPT ![a] = "failed"]
    /\ UNCHANGED <<active, closed, baseClosed, got, transport, admitted,
                   released, closing>>

(* mutant: the error path returns without l.release().                     *)
ReleaseForgotten(a) ==
    /\ pc[a] = "failed"
    /\ pc' = [pc EXCEPT ![a] = "idle"]
    /\ UNCHANGED <<active, closed, baseClosed, got, transport, admitted,
                   released, closing, faults>>

(* l.release() on the error path of Accept, which returns the error.       *)
ReleaseAfterFail(a) ==
    /\ pc[a] = "failed"
    /\ active' = active - 1
    /\ pc' \in Signal([pc EXCEPT ![a] = "idle"])
    /\ UNCHANGED <<closed, baseClosed, got, transport, admitted, released,
                   closing, faults>>

(* mutant: the connection is handed over without looking at l.closed.      *)
PublishAnyway(a) ==
    /\ pc[a] = "accepted"
    /\ admitted' = admitted \cup {got[a]}
    /\ transport' = [transport EXCEPT ![got[a]] = "open"]
    /\ got' = [got EXCEPT ![a] = NoConn]
    /\ pc' = [pc EXCEPT ![a] = "idle"]
    /\ UNCHANGED <<active, closed, baseClosed, released, closing, faults>>

(* The listener is still open: Accept returns the connection, wrapped.     *)
Publish(a) ==
    /\ pc[a] = "accepted"
    /\ ~closed
    /\ admitted' = admitted \cup {got[a]}
    /\ transport' = [transport EXCEPT ![got[a]] = "open"]
    /\ got' = [got EXCEPT ![a] = NoConn]
    /\ pc' = [pc EXCEPT ![a] = "idle"]
    /\ UNCHANGED <<active, closed, baseClosed, released, closing, faults>>

(* Close won the race with the wrapped Accept: the slot is given back ...  *)
Discard(a) ==
    /\ pc[a] = "accepted"
    /\ closed
    /\ active' = active - 1
    /\ pc' \in Signal([pc EXCEPT ![a] = "dropping"])
    /\ UNCHANGED <<closed, baseClosed, got, transport, admitted, released,
                   closing, faults>>

(* ... and then, without the lock, the connection is closed.               *)
DropConn(a) ==
    /\ pc[a] = "dropping"
    /\ transport' = [transport EXCEPT ![got[a]] = "closed"]
    /\ got' = [got EXCEPT ![a] = NoConn]
    /\ pc' = [pc EXCEPT ![a] = "idle"]
    /\ UNCHANGED <<active, closed, baseClosed, admitted, released, closing,
                   faults>>

(* mutant: Close wakes nobody.                                             *)
CloseMarkSilent ==
    /\ ~closed
    /\ closed' = TRUE
    /\ UNCHANGED <<active, baseClosed, pc, got, transport, admitted, released,
                   closing, faults>>

(* The locked part of admissionListener.Close, when it has an effect.      *)
CloseMark ==
    /\ ~closed
    /\ closed' = TRUE
    /\ pc' \in Broadcast(pc)
    /\ UNCHANGED <<active, baseClosed, got, transport, admitted, released,
                   closing, faults>>

(* l.Listener.Close(): what is still in the accept queue is reset.         *)
BaseClose ==
    /\ closed
    /\ ~baseClosed
    /\ baseClosed' = TRUE
    /\ transport' = [c \in Conns |-> IF transport[c] = "queued"
                                     THEN "closed" ELSE transport[c]]
    /\ UNCHANGED <<active, closed, pc, got, admitted, released, closing,
                   faults>>

(* admittedConn.Close, first half: the transport is closed.                *)
CloseConn(k, c) ==
    /\ c \in admitted
    /\ k \notin closing[c]
    /\ transport' = [transport EXCEPT ![c] = "closed"]
    /\ closing' = [closing EXCEPT ![c] = @ \cup {k}]
    /\ UNCHANGED <<active, closed, baseClosed, pc, got, admitted, released,
                   faults>>

(* mutant: release without cond.Signal.                                    *)
ReleaseSilently(k, c) ==
    /\ k \in closing[c]
    /\ closing' = [closing EXCEPT ![c] = @ \ {k}]
    /\ released' = released \cup {c}
    /\ active' = IF c \in released THEN active ELSE active - 1
    /\ UNCHANGED <<closed, baseClosed, pc, got, transport, admitted, faults>>

(* admittedConn.Close, second half: once.Do(release).                      *)
ReleaseOnce(k, c) ==
    /\ k \in closing[c]
    /\ closing' = [closing EXCEPT ![c] = @ \ {k}]
    /\ released' = released \cup {c}
    /\ \/ c \in released /\ UNCHANGED <<active, pc>>
       \/ c \notin released /\ active' = active - 1 /\ pc' \in Signal(pc)
    /\ UNCHANGED <<closed, baseClosed, got, transport, admitted, faults>>

-----------------------------------------------------------------------------
(* The steps of one acceptor after Accept has been called.                 *)
AcceptStep(a) ==
    \/ Saturated(a)
    \/ ReturnClosed(a)
    \/ Reserve(a)
    \/ \E c \in Conns : BaseAccept(a, c) \/ RejectPeer(a, c)
    \/ BaseFail(a)
    \/ ReleaseAfterFail(a)
    \/ Publish(a)
    \/ Discard(a)
    \/ DropConn(a)

Next ==
    \/ \E c \in Conns : Dial(c)
    \/ \E a \in Acceptors : Call(a) \/ AcceptStep(a)
    \/ CloseMark
    \/ BaseClose
    \/ \E k \in Closers, c \in Conns : CloseConn(k, c) \/ ReleaseOnce(k, c)

(* What the program's scheduling gives: goroutines run, the server calls   *)
(* Accept again and closes every connection it was handed, a Close in      *)
(* progress completes.  Nothing forces a client to dial or Close to be     *)
(* called.                                                                 *)
Fairness ==
    /\ \A a \in Acceptors : WF_vars(Call(a)) /\ WF_vars(AcceptStep(a))
    /\ \A c \in Conns :
          /\ WF_vars(\E k \in Closers : transport[c] = "open" /\ CloseConn(k, c))
          /\ \A k \in Closers : WF_vars(ReleaseOnce(k, c))
    /\ WF_vars(BaseClose)

Spec == Init /\ [][Next]_vars

FairSpec == Spec /\ Fairness

-----------------------------------------------------------------------------
(* The holders of a reserved slot: an acceptor between active++ and the    *)
(* end of its Accept, or a connection whose release has not run.           *)
Held == {a \in Acceptors : pc[a] \in {"accepting", "failed", "accepted"}}
           \cup (admitted \ released)

(* Slots are neither leaked nor given back twice, whichever of the three   *)
(* release paths of admission.go runs and however many goroutines close    *)
(* the same connection: l.active counts exactly the holders of a slot.     *)
SlotsConserved == IsFiniteSet(Held) /\ active = Cardinality(Held)

(* The connections that are really open on the server's side.              *)
Live == {c \in Conns : transport[c] \in {"held", "open"}}

(* The bound the listener exists for: never more than Max connections are  *)
(* open, although Accept gives the slot of a discarded connection back     *)
(* before it closes that connection.                                       *)
LiveBounded == IsFiniteSet(Live) /\ Cardinality(Live) <= Max

(* Every free slot has an awake goroutine about to take it as long as      *)
(* anyone sleeps for a slot, so a single Signal per release is enough.     *)
NoLostWakeup ==
    Where("waiting") # {} /\ ~closed
        => Max - active <= Cardinality(Where("locking"))

(* Close leaves no goroutine asleep in Accept.                             *)
ClosedWakesAll == closed => Where("waiting") = {}

(* Once Close has run its locked part, Accept hands over no connection,    *)
(* not even one the operating system had already accepted.                 *)
NothingAdmittedAfterClose == [][closed => admitted' = admitted]_vars

(* A connection in the accept queue does not stay there: a saturated       *)
(* listener takes it up after a connection is closed, and Close resets it. *)
QueueIsServed ==
    \A c \in Conns : (transport[c] = "queued") ~> (transport[c] # "queued")

(* Close makes every pending Accept return, whether it sleeps for a slot,  *)
(* is blocked in the wrapped Accept or holds a connection.                 *)
CloseEndsAccept ==
    \A a \in Acceptors : (closed /\ pc[a] # "idle") ~> (pc[a] = "idle")

=============================================================================
