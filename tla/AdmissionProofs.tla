-------------------------- MODULE AdmissionProofs --------------------------
(***************************************************************************)
(* The safety of the admission listener for every number of slots,         *)
(* acceptors, connections and closers.                                     *)
(***************************************************************************)
EXTENDS Admission, FiniteSetTheorems, TLAPS

PCs == {"idle", "locking", "waiting", "accepting", "failed", "accepted",
        "dropping"}

(* Types, without the range of l.active: that follows from SlotsConserved. *)
Shapes ==
    /\ active \in Int /\ active <= Max
    /\ closed \in BOOLEAN
    /\ baseClosed \in BOOLEAN
    /\ pc \in [Acceptors -> PCs]
    /\ got \in [Acceptors -> Conns \cup {NoConn}]
    /\ transport \in [Conns -> {"none", "queued", "held", "open", "closed"}]
    /\ admitted \subseteq Conns
    /\ released \subseteq admitted
    /\ closing \in [Conns -> SUBSET Closers]
    /\ faults \in 0 .. MaxFaults

(* An acceptor has a connection exactly while it is accepted or dropping;  *)
(* that connection is held, by no other acceptor, and not yet admitted.    *)
Holding ==
    /\ \A a \in Acceptors :
          pc[a] \in {"accepted", "dropping"} => got[a] \in Conns
    /\ \A a \in Acceptors : got[a] # NoConn =>
          /\ pc[a] \in {"accepted", "dropping"}
          /\ transport[got[a]] = "held"
    /\ \A a, b \in Acceptors : got[a] # NoConn /\ got[a] = got[b] => a = b
    /\ \A c \in Conns : transport[c] = "held" =>
          \E a \in Acceptors : got[a] = c

(* A connection is admitted from its opening on, and its slot is released  *)
(* only after its transport is closed.                                     *)
Opened ==
    \A c \in Conns :
       /\ c \in admitted => transport[c] \in {"open", "closed"}
       /\ transport[c] = "open" => c \in admitted /\ c \notin released
       /\ closing[c] # {} => c \in admitted /\ transport[c] = "closed"

(* Connections are discarded only after Close.                             *)
DropsAfterClose == ~closed => Where("dropping") = {}

AdmInv ==
    /\ Shapes
    /\ SlotsConserved
    /\ Holding
    /\ Opened
    /\ ClosedWakesAll
    /\ DropsAfterClose

-----------------------------------------------------------------------------
(* What cond.Signal does to the program counters: at most one sleeper      *)
(* becomes awake, everybody else stays.                                    *)
LEMMA SignalFacts ==
    ASSUME NEW p \in [Acceptors -> PCs], NEW q \in Signal(p)
    PROVE  /\ q \in [Acceptors -> PCs]
           /\ \A a \in Acceptors : p[a] # "waiting" => q[a] = p[a]
           /\ \A a \in Acceptors :
                 p[a] = "waiting" => q[a] \in {"waiting", "locking"}
<1>1. CASE {w \in Acceptors : p[w] = "waiting"} = {}
  BY <1>1 DEF Signal
<1>2. CASE {w \in Acceptors : p[w] = "waiting"} # {}
  <2>1. PICK w \in {v \in Acceptors : p[v] = "waiting"} :
           q = [p EXCEPT ![w] = "locking"]
    BY <1>2 DEF Signal
  <2> QED
    BY <2>1 DEF PCs
<1> QED
  BY <1>1, <1>2

(* What cond.Broadcast does to them.                                       *)
LEMMA BroadcastFacts ==
    ASSUME NEW p \in [Acceptors -> PCs], NEW q \in Broadcast(p)
    PROVE  /\ q \in [Acceptors -> PCs]
           /\ \A a \in Acceptors : p[a] # "waiting" => q[a] = p[a]
           /\ \A a \in Acceptors : q[a] # "waiting"
BY DEF Broadcast, PCs

(* The ways a step may change the holders of slots, and what l.active must *)
(* do for the count to stay right.                                         *)
LEMMA HeldSame ==
    ASSUME SlotsConserved, Held' = Held, active' = active
    PROVE  SlotsConserved'
BY DEF SlotsConserved

LEMMA HeldGrows ==
    ASSUME SlotsConserved, NEW x, x \notin Held, Held' = Held \cup {x},
           active' = active + 1
    PROVE  SlotsConserved'
BY FS_AddElement, FS_CardinalityType DEF SlotsConserved

LEMMA HeldShrinks ==
    ASSUME SlotsConserved, NEW x, x \in Held, Held' = Held \ {x},
           active' = active - 1
    PROVE  SlotsConserved'
BY FS_RemoveElement, FS_CardinalityType DEF SlotsConserved

LEMMA HeldMoves ==
    ASSUME SlotsConserved, NEW x, x \in Held, NEW y, y \notin Held,
           Held' = (Held \ {x}) \cup {y}, active' = active
    PROVE  SlotsConserved'
<1>1. IsFiniteSet(Held \ {x}) /\ Cardinality(Held \ {x}) = Cardinality(Held) - 1
  BY FS_RemoveElement DEF SlotsConserved
<1>2. IsFiniteSet(Held') /\ Cardinality(Held') = Cardinality(Held \ {x}) + 1
  BY <1>1, FS_AddElement DEF SlotsConserved
<1>3. Cardinality(Held) \in Nat
  BY FS_CardinalityType DEF SlotsConserved
<1> QED
  BY <1>1, <1>2, <1>3 DEF SlotsConserved

-----------------------------------------------------------------------------
(* A new listener satisfies the invariant.                                 *)
LEMMA AdmInitInv == Init => AdmInv
<1> SUFFICES ASSUME Init PROVE AdmInv
  OBVIOUS
<1>1. Shapes
  <2>1. active \in Int /\ active <= Max /\ faults \in 0 .. MaxFaults
    BY MaxAssumption, FaultsAssumption DEF Init
  <2>2. pc \in [Acceptors -> PCs]
    BY DEF Init, PCs
  <2>3. got \in [Acceptors -> Conns \cup {NoConn}]
    BY DEF Init
  <2>4. closing \in [Conns -> SUBSET Closers]
    BY DEF Init
  <2> QED
    BY <2>1, <2>2, <2>3, <2>4 DEF Init, Shapes
<1>2. Held = {}
  BY DEF Init, Held
<1>3. SlotsConserved
  BY <1>2, FS_EmptySet DEF Init, SlotsConserved
<1>4. Holding
  BY NamesAssumption DEF Init, Holding
<1>5. Opened /\ ClosedWakesAll /\ DropsAfterClose
  BY DEF Init, Opened, ClosedWakesAll, DropsAfterClose, Where
<1> QED
  BY <1>1, <1>3, <1>4, <1>5 DEF AdmInv

(* Every step keeps the invariant.                                         *)
LEMMA AdmStepInv == AdmInv /\ [Next]_vars => AdmInv'
<1> SUFFICES ASSUME AdmInv, [Next]_vars PROVE AdmInv'
  OBVIOUS
<1> USE MaxAssumption, FaultsAssumption, NamesAssumption
<1>a. Shapes /\ SlotsConserved /\ Holding /\ Opened /\ ClosedWakesAll
        /\ DropsAfterClose
  BY DEF AdmInv
<1>1. ASSUME NEW c \in Conns, Dial(c) PROVE AdmInv'
  <2>1. Shapes'
    BY <1>a, <1>1 DEF Dial, Shapes, PCs
  <2>2. SlotsConserved'
    <3>1. Held' = Held
      BY <1>a, <1>1 DEF Dial, Held, Shapes, PCs
    <3> QED
      BY <1>a, <1>1, <3>1, HeldSame DEF Dial
  <2>3. Holding'
    BY <1>a, <1>1 DEF Dial, Holding, Shapes, PCs
  <2>4. Opened'
    BY <1>a, <1>1 DEF Dial, Opened, Holding, Shapes, PCs
  <2>5. ClosedWakesAll' /\ DropsAfterClose'
    BY <1>a, <1>1 DEF Dial, ClosedWakesAll, DropsAfterClose, Where, Shapes, PCs
  <2> QED
    BY <2>1, <2>2, <2>3, <2>4, <2>5 DEF AdmInv
<1>2. ASSUME NEW a \in Acceptors, Call(a) PROVE AdmInv'
  <2>1. Shapes'
    BY <1>a, <1>2 DEF Call, Shapes, PCs
  <2>2. SlotsConserved'
    <3>1. Held' = Held
      BY <1>a, <1>2 DEF Call, Held, Shapes, PCs
    <3> QED
      BY <1>a, <1>2, <3>1, HeldSame DEF Call
  <2>3. Holding'
    BY <1>a, <1>2 DEF Call, Holding, Shapes, PCs
  <2>4. Opened'
    BY <1>a, <1>2 DEF Call, Opened, Holding, Shapes, PCs
  <2>5. ClosedWakesAll' /\ DropsAfterClose'
    BY <1>a, <1>2 DEF Call, ClosedWakesAll, DropsAfterClose, Where, Shapes, PCs
  <2> QED
    BY <2>1, <2>2, <2>3, <2>4, <2>5 DEF AdmInv
<1>3. ASSUME NEW a \in Acceptors, Saturated(a) PROVE AdmInv'
  <2>1. Shapes'
    BY <1>a, <1>3 DEF Saturated, Shapes, PCs
  <2>2. SlotsConserved'
    <3>1. Held' = Held
      BY <1>a, <1>3 DEF Saturated, Held, Shapes, PCs
    <3> QED
      BY <1>a, <1>3, <3>1, HeldSame DEF Saturated
  <2>3. Holding'
    BY <1>a, <1>3 DEF Saturated, Holding, Shapes, PCs
  <2>4. Opened'
    BY <1>a, <1>3 DEF Saturated, Opened, Holding, Shapes, PCs
  <2>5. ClosedWakesAll' /\ DropsAfterClose'
    BY <1>a, <1>3 DEF Saturated, ClosedWakesAll, DropsAfterClose, Where, Shapes, PCs
  <2> QED
    BY <2>1, <2>2, <2>3, <2>4, <2>5 DEF AdmInv
<1>4. ASSUME NEW a \in Acceptors, ReturnClosed(a) PROVE AdmInv'
  <2>1. Shapes'
    BY <1>a, <1>4 DEF ReturnClosed, Shapes, PCs
  <2>2. SlotsConserved'
    <3>1. Held' = Held
      BY <1>a, <1>4 DEF ReturnClosed, Held, Shapes, PCs
    <3> QED
      BY <1>a, <1>4, <3>1, HeldSame DEF ReturnClosed
  <2>3. Holding'
    BY <1>a, <1>4 DEF ReturnClosed, Holding, Shapes, PCs
  <2>4. Opened'
    BY <1>a, <1>4 DEF ReturnClosed, Opened, Holding, Shapes, PCs
  <2>5. ClosedWakesAll' /\ DropsAfterClose'
    BY <1>a, <1>4 DEF ReturnClosed, ClosedWakesAll, DropsAfterClose, Where, Shapes, PCs
  <2> QED
    BY <2>1, <2>2, <2>3, <2>4, <2>5 DEF AdmInv
<1>5. ASSUME NEW a \in Acceptors, Reserve(a) PROVE AdmInv'
  <2>1. Shapes'
    BY <1>a, <1>5 DEF Reserve, Shapes, PCs
  <2>2. SlotsConserved'
    <3>1. a \notin Held /\ Held' = Held \cup {a}
      BY <1>a, <1>5 DEF Reserve, Held, Shapes, PCs
    <3> QED
      BY <1>a, <1>5, <3>1, HeldGrows DEF Reserve
  <2>3. Holding'
    BY <1>a, <1>5 DEF Reserve, Holding, Shapes, PCs
  <2>4. Opened'
    BY <1>a, <1>5 DEF Reserve, Opened, Holding, Shapes, PCs
  <2>5. ClosedWakesAll' /\ DropsAfterClose'
    BY <1>a, <1>5 DEF Reserve, ClosedWakesAll, DropsAfterClose, Where, Shapes, PCs
  <2> QED
    BY <2>1, <2>2, <2>3, <2>4, <2>5 DEF AdmInv
<1>6. ASSUME NEW a \in Acceptors, NEW c \in Conns, BaseAccept(a, c) PROVE AdmInv'
  <2>1. Shapes'
    BY <1>a, <1>6 DEF BaseAccept, Shapes, PCs
  <2>2. SlotsConserved'
    <3>1. Held' = Held
      BY <1>a, <1>6 DEF BaseAccept, Held, Shapes, PCs
    <3> QED
      BY <1>a, <1>6, <3>1, HeldSame DEF BaseAccept
  <2>3. Holding'
    BY <1>a, <1>6 DEF BaseAccept, Holding, Shapes, PCs
  <2>4. Opened'
    BY <1>a, <1>6 DEF BaseAccept, Opened, Holding, Shapes, PCs
  <2>5. ClosedWakesAll' /\ DropsAfterClose'
    BY <1>a, <1>6 DEF BaseAccept, ClosedWakesAll, DropsAfterClose, Where, Shapes, PCs
  <2> QED
    BY <2>1, <2>2, <2>3, <2>4, <2>5 DEF AdmInv
<1>7. ASSUME NEW a \in Acceptors, NEW c \in Conns, RejectPeer(a, c) PROVE AdmInv'
  <2>1. Shapes'
    BY <1>a, <1>7 DEF RejectPeer, Shapes, PCs
  <2>2. SlotsConserved'
    <3>1. Held' = Held
      BY <1>a, <1>7 DEF RejectPeer, Held, Shapes, PCs
    <3> QED
      BY <1>a, <1>7, <3>1, HeldSame DEF RejectPeer
  <2>3. Holding'
    BY <1>a, <1>7 DEF RejectPeer, Holding, Shapes, PCs
  <2>4. Opened'
    BY <1>a, <1>7 DEF RejectPeer, Opened, Holding, Shapes, PCs
  <2>5. ClosedWakesAll' /\ DropsAfterClose'
    BY <1>a, <1>7 DEF RejectPeer, ClosedWakesAll, DropsAfterClose, Where, Shapes, PCs
  <2> QED
    BY <2>1, <2>2, <2>3, <2>4, <2>5 DEF AdmInv
<1>8. ASSUME NEW a \in Acceptors, BaseFail(a) PROVE AdmInv'
  <2>1. Shapes'
    BY <1>a, <1>8 DEF BaseFail, Shapes, PCs
  <2>2. SlotsConserved'
    <3>1. Held' = Held
      BY <1>a, <1>8 DEF BaseFail, Held, Shapes, PCs
    <3> QED
      BY <1>a, <1>8, <3>1, HeldSame DEF BaseFail
  <2>3. Holding'
    BY <1>a, <1>8 DEF BaseFail, Holding, Shapes, PCs
  <2>4. Opened'
    BY <1>a, <1>8 DEF BaseFail, Opened, Holding, Shapes, PCs
  <2>5. ClosedWakesAll' /\ DropsAfterClose'
    BY <1>a, <1>8 DEF BaseFail, ClosedWakesAll, DropsAfterClose, Where, Shapes, PCs
  <2> QED
    BY <2>1, <2>2, <2>3, <2>4, <2>5 DEF AdmInv
<1>9. ASSUME NEW a \in Acceptors, ReleaseAfterFail(a) PROVE AdmInv'
  <2> DEFINE p == [pc EXCEPT ![a] = "idle"]
  <2>p. p \in [Acceptors -> PCs]
    BY <1>a DEF Shapes, PCs
  <2>0. /\ pc' \in [Acceptors -> PCs]
        /\ \A b \in Acceptors : p[b] # "waiting" => pc'[b] = p[b]
        /\ \A b \in Acceptors :
              p[b] = "waiting" => pc'[b] \in {"waiting", "locking"}
    BY <1>9, <2>p, SignalFacts DEF ReleaseAfterFail
  <2>1. Shapes'
    BY <1>a, <1>9, <2>0 DEF ReleaseAfterFail, Shapes, PCs
  <2>2. SlotsConserved'
    <3>1. a \in Held /\ Held' = Held \ {a}
      BY <1>a, <1>9, <2>0 DEF ReleaseAfterFail, Held, Shapes, PCs
    <3> QED
      BY <1>a, <1>9, <3>1, HeldShrinks DEF ReleaseAfterFail
  <2>3. Holding'
    BY <1>a, <1>9, <2>0 DEF ReleaseAfterFail, Holding, Shapes, PCs
  <2>4. Opened'
    BY <1>a, <1>9, <2>0 DEF ReleaseAfterFail, Opened, Holding, Shapes, PCs
  <2>5. ClosedWakesAll' /\ DropsAfterClose'
    BY <1>a, <1>9, <2>0 DEF ReleaseAfterFail, ClosedWakesAll, DropsAfterClose, Where, Shapes, PCs
  <2> QED
    BY <2>1, <2>2, <2>3, <2>4, <2>5 DEF AdmInv
<1>10. ASSUME NEW a \in Acceptors, Publish(a) PROVE AdmInv'
  <2>0. got[a] \in Conns \ admitted /\ transport[got[a]] = "held"
    BY <1>a, <1>10 DEF Publish, Holding, Opened
  <2>1. Shapes'
    BY <1>a, <1>10, <2>0 DEF Publish, Shapes, PCs
  <2>2. SlotsConserved'
    <3>1. a \in Held /\ got[a] \notin Held
             /\ Held' = (Held \ {a}) \cup {got[a]}
      BY <1>a, <1>10, <2>0 DEF Publish, Held, Shapes, PCs
    <3> QED
      BY <1>a, <1>10, <3>1, HeldMoves DEF Publish
  <2>3. Holding'
    BY <1>a, <1>10, <2>0 DEF Publish, Holding, Shapes, PCs
  <2>4. Opened'
    BY <1>a, <1>10, <2>0 DEF Publish, Opened, Holding, Shapes, PCs
  <2>5. ClosedWakesAll' /\ DropsAfterClose'
    BY <1>a, <1>10 DEF Publish, ClosedWakesAll, DropsAfterClose, Where, Shapes, PCs
  <2> QED
    BY <2>1, <2>2, <2>3, <2>4, <2>5 DEF AdmInv
<1>11. ASSUME NEW a \in Acceptors, Discard(a) PROVE AdmInv'
  <2> DEFINE p == [pc EXCEPT ![a] = "dropping"]
  <2>p. p \in [Acceptors -> PCs]
    BY <1>a DEF Shapes, PCs
  <2>0. /\ pc' \in [Acceptors -> PCs]
        /\ \A b \in Acceptors : p[b] # "waiting" => pc'[b] = p[b]
        /\ \A b \in Acceptors :
              p[b] = "waiting" => pc'[b] \in {"waiting", "locking"}
    BY <1>11, <2>p, SignalFacts DEF Discard
  <2>1. Shapes'
    BY <1>a, <1>11, <2>0 DEF Discard, Shapes, PCs
  <2>2. SlotsConserved'
    <3>1. a \in Held /\ Held' = Held \ {a}
      BY <1>a, <1>11, <2>0 DEF Discard, Held, Shapes, PCs
    <3> QED
      BY <1>a, <1>11, <3>1, HeldShrinks DEF Discard
  <2>3. Holding'
    BY <1>a, <1>11, <2>0 DEF Discard, Holding, Shapes, PCs
  <2>4. Opened'
    BY <1>a, <1>11, <2>0 DEF Discard, Opened, Holding, Shapes, PCs
  <2>5. ClosedWakesAll' /\ DropsAfterClose'
    BY <1>a, <1>11, <2>0 DEF Discard, ClosedWakesAll, DropsAfterClose, Where, Shapes, PCs
  <2> QED
    BY <2>1, <2>2, <2>3, <2>4, <2>5 DEF AdmInv
<1>12. ASSUME NEW a \in Acceptors, DropConn(a) PROVE AdmInv'
  <2>1. Shapes'
    BY <1>a, <1>12 DEF DropConn, Shapes, PCs
  <2>2. SlotsConserved'
    <3>1. Held' = Held
      BY <1>a, <1>12 DEF DropConn, Held, Shapes, PCs
    <3> QED
      BY <1>a, <1>12, <3>1, HeldSame DEF DropConn
  <2>3. Holding'
    BY <1>a, <1>12 DEF DropConn, Holding, Shapes, PCs
  <2>4. Opened'
    BY <1>a, <1>12 DEF DropConn, Opened, Holding, Shapes, PCs
  <2>5. ClosedWakesAll' /\ DropsAfterClose'
    BY <1>a, <1>12 DEF DropConn, ClosedWakesAll, DropsAfterClose, Where, Shapes, PCs
  <2> QED
    BY <2>1, <2>2, <2>3, <2>4, <2>5 DEF AdmInv
<1>13. ASSUME CloseMark PROVE AdmInv'
  <2>0. /\ pc' \in [Acceptors -> PCs]
        /\ \A b \in Acceptors : pc[b] # "waiting" => pc'[b] = pc[b]
        /\ \A b \in Acceptors : pc'[b] # "waiting"
    BY <1>a, <1>13, BroadcastFacts DEF CloseMark, Shapes
  <2>q. \A b \in Acceptors :
           /\ (pc'[b] \in {"accepting", "failed", "accepted"})
                 <=> (pc[b] \in {"accepting", "failed", "accepted"})
           /\ (pc'[b] \in {"accepted", "dropping"})
                 <=> (pc[b] \in {"accepted", "dropping"})
    BY <1>13 DEF CloseMark, Broadcast
  <2>u. /\ admitted' = admitted /\ released' = released /\ got' = got
        /\ transport' = transport
    BY <1>13 DEF CloseMark
  <2>1. Shapes'
    BY <1>a, <1>13, <2>0 DEF CloseMark, Shapes, PCs
  <2>2. SlotsConserved'
    <3>1. Held' = Held
      BY <2>q, <2>u DEF Held
    <3> QED
      BY <1>a, <1>13, <3>1, HeldSame DEF CloseMark
  <2>3. Holding'
    BY <1>a, <2>q, <2>u DEF Holding
  <2>4. Opened'
    BY <1>a, <1>13, <2>0 DEF CloseMark, Opened, Holding, Shapes, PCs
  <2>5. ClosedWakesAll' /\ DropsAfterClose'
    BY <1>a, <1>13, <2>0 DEF CloseMark, ClosedWakesAll, DropsAfterClose, Where, Shapes, PCs
  <2> QED
    BY <2>1, <2>2, <2>3, <2>4, <2>5 DEF AdmInv
<1>14. ASSUME BaseClose PROVE AdmInv'
  <2>1. Shapes'
    BY <1>a, <1>14 DEF BaseClose, Shapes, PCs
  <2>2. SlotsConserved'
    <3>1. Held' = Held
      BY <1>a, <1>14 DEF BaseClose, Held, Shapes, PCs
    <3> QED
      BY <1>a, <1>14, <3>1, HeldSame DEF BaseClose
  <2>3. Holding'
    BY <1>a, <1>14 DEF BaseClose, Holding, Shapes, PCs
  <2>4. Opened'
    BY <1>a, <1>14 DEF BaseClose, Opened, Holding, Shapes, PCs
  <2>5. ClosedWakesAll' /\ DropsAfterClose'
    BY <1>a, <1>14 DEF BaseClose, ClosedWakesAll, DropsAfterClose, Where, Shapes, PCs
  <2> QED
    BY <2>1, <2>2, <2>3, <2>4, <2>5 DEF AdmInv
<1>15. ASSUME NEW k \in Closers, NEW c \in Conns, CloseConn(k, c) PROVE AdmInv'
  <2>1. Shapes'
    BY <1>a, <1>15 DEF CloseConn, Shapes, PCs
  <2>2. SlotsConserved'
    <3>1. Held' = Held
      BY <1>a, <1>15 DEF CloseConn, Held, Shapes, PCs
    <3> QED
      BY <1>a, <1>15, <3>1, HeldSame DEF CloseConn
  <2>3. Holding'
    BY <1>a, <1>15 DEF CloseConn, Holding, Opened, Shapes, PCs
  <2>4. Opened'
    BY <1>a, <1>15 DEF CloseConn, Opened, Holding, Shapes, PCs
  <2>5. ClosedWakesAll' /\ DropsAfterClose'
    BY <1>a, <1>15 DEF CloseConn, ClosedWakesAll, DropsAfterClose, Where, Shapes, PCs
  <2> QED
    BY <2>1, <2>2, <2>3, <2>4, <2>5 DEF AdmInv
<1>16. ASSUME NEW k \in Closers, NEW c \in Conns, ReleaseOnce(k, c)
       PROVE AdmInv'
  <2>0. /\ c \in admitted /\ transport[c] = "closed"
        /\ transport' = transport /\ admitted' = admitted
        /\ released' = released \cup {c} /\ got' = got /\ closed' = closed
    BY <1>a, <1>16 DEF ReleaseOnce, Opened
  <2>1. /\ pc' \in [Acceptors -> PCs]
        /\ \A b \in Acceptors : pc[b] # "waiting" => pc'[b] = pc[b]
        /\ \A b \in Acceptors :
              pc[b] = "waiting" => pc'[b] \in {"waiting", "locking"}
    BY <1>a, <1>16, SignalFacts DEF ReleaseOnce, Shapes
  <2>2. Shapes'
    BY <1>a, <1>16, <2>0, <2>1 DEF ReleaseOnce, Shapes
  <2>3. SlotsConserved'
    <3>1. CASE c \in released
      <4>1. Held' = Held /\ active' = active
        BY <1>16, <2>0, <3>1 DEF ReleaseOnce, Held
      <4> QED
        BY <1>a, <4>1, HeldSame
    <3>2. CASE c \notin released
      <4>1. c \in Held /\ Held' = Held \ {c}
        BY <1>a, <2>0, <2>1, <3>2 DEF Held, Shapes
      <4>2. active' = active - 1
        BY <1>16, <3>2 DEF ReleaseOnce
      <4> QED
        BY <1>a, <4>1, <4>2, HeldShrinks
    <3> QED
      BY <3>1, <3>2
  <2>4. Holding'
    BY <1>a, <2>0, <2>1 DEF Holding, Shapes
  <2>5. Opened'
    BY <1>a, <1>16, <2>0 DEF ReleaseOnce, Opened, Shapes
  <2>6. ClosedWakesAll' /\ DropsAfterClose'
    BY <1>a, <2>0, <2>1 DEF ClosedWakesAll, DropsAfterClose, Where
  <2> QED
    BY <2>2, <2>3, <2>4, <2>5, <2>6 DEF AdmInv
<1>17. CASE UNCHANGED vars
  <2>1. Held' = Held
    BY <1>17 DEF vars, Held
  <2> QED
    BY <1>a, <1>17, <2>1, HeldSame DEF vars, AdmInv, Shapes, Holding, Opened,
       ClosedWakesAll, DropsAfterClose, Where
<1> QED
  BY <1>1, <1>2, <1>3, <1>4, <1>5, <1>6, <1>7, <1>8, <1>9, <1>10, <1>11, <1>12,
     <1>13, <1>14, <1>15, <1>16, <1>17 DEF Next, AcceptStep

(* Slots are conserved: l.active is the number of reservations, for every  *)
(* number of slots, acceptors, connections and closers.                    *)
THEOREM AdmissionSafe == Spec => []AdmInv
BY AdmInitInv, AdmStepInv, PTL DEF Spec

(* l.active counts exactly the holders of a slot.                          *)
THEOREM AdmissionConserves == Spec => []SlotsConserved
BY AdmissionSafe, PTL DEF AdmInv

(* Type correctness; l.active never leaves 0 .. l.max.                     *)
THEOREM AdmissionTyped == Spec => []TypeOK
<1>1. AdmInv => TypeOK
  <2> SUFFICES ASSUME AdmInv PROVE TypeOK
    OBVIOUS
  <2>1. active \in Nat
    BY FS_CardinalityType DEF AdmInv, SlotsConserved
  <2>2. active \in 0 .. Max
    BY <2>1, MaxAssumption DEF AdmInv, Shapes
  <2> QED
    BY <2>2 DEF AdmInv, Shapes, TypeOK, PCs
<1> QED
  BY <1>1, AdmissionSafe, PTL

(* Close leaves no goroutine asleep in Accept.                             *)
THEOREM AdmissionCloseWakes == Spec => []ClosedWakesAll
BY AdmissionSafe, PTL DEF AdmInv

-----------------------------------------------------------------------------
(* Accept hands over a connection only in Publish, which needs an open     *)
(* listener.                                                               *)
THEOREM AdmissionClosedIsFinal == Spec => NothingAdmittedAfterClose
<1>1. [Next]_vars => [closed => admitted' = admitted]_vars
  BY DEF Next, AcceptStep, vars, Dial, Call, Saturated, ReturnClosed, Reserve,
     BaseAccept, RejectPeer, BaseFail, ReleaseAfterFail, Publish, Discard,
     DropConn, CloseMark, BaseClose, CloseConn, ReleaseOnce
<1> QED
  BY <1>1, PTL DEF Spec, NothingAdmittedAfterClose

-----------------------------------------------------------------------------
(* The bound on open connections.  A discarded connection is still open    *)
(* after its slot was given back; its acceptor's ticket stands for it.     *)
Tickets == Held \cup Where("dropping")

TicketsBounded == IsFiniteSet(Tickets) /\ Cardinality(Tickets) <= Max

(* Before Close the tickets are the reserved slots.                        *)
LEMMA OpenTickets ==
    ASSUME AdmInv, ~closed
    PROVE  TicketsBounded
BY DEF AdmInv, DropsAfterClose, SlotsConserved, Shapes, Tickets, TicketsBounded

(* After Close nobody gets a ticket any more.                              *)
LEMMA ClosedTickets ==
    ASSUME AdmInv, [Next]_vars, closed'
    PROVE  Tickets' \subseteq Tickets
<1> USE DEF Tickets, Held, Where
<1>a. /\ pc \in [Acceptors -> PCs] /\ admitted \subseteq Conns
  BY DEF AdmInv, Shapes
<1>1. CASE \E c \in Conns : Dial(c)
  BY <1>1 DEF Dial
<1>2. ASSUME NEW a \in Acceptors, Call(a) \/ Saturated(a) \/ ReturnClosed(a)
      PROVE  Tickets' \subseteq Tickets
  BY <1>a, <1>2 DEF Call, Saturated, ReturnClosed, PCs
<1>3. ASSUME NEW a \in Acceptors, Reserve(a) \/ Publish(a)
      PROVE  Tickets' \subseteq Tickets
  BY <1>3 DEF Reserve, Publish
<1>4. ASSUME NEW a \in Acceptors, NEW c \in Conns,
             BaseAccept(a, c) \/ RejectPeer(a, c)
      PROVE  Tickets' \subseteq Tickets
  BY <1>a, <1>4 DEF BaseAccept, RejectPeer, PCs
<1>5. ASSUME NEW a \in Acceptors, BaseFail(a) \/ DropConn(a)
      PROVE  Tickets' \subseteq Tickets
  BY <1>a, <1>5 DEF BaseFail, DropConn, PCs
<1>6. ASSUME NEW a \in Acceptors, ReleaseAfterFail(a)
      PROVE  Tickets' \subseteq Tickets
  <2> DEFINE p == [pc EXCEPT ![a] = "idle"]
  <2>1. p \in [Acceptors -> PCs]
    BY <1>a DEF PCs
  <2>2. \A b \in Acceptors : /\ p[b] # "waiting" => pc'[b] = p[b]
                             /\ p[b] = "waiting" => pc'[b] \in {"waiting", "locking"}
    BY <1>6, <2>1, SignalFacts DEF ReleaseAfterFail
  <2>3. p[a] # "waiting" /\ \A b \in Acceptors : b # a => p[b] = pc[b]
    BY <1>a
  <2>4. pc[a] = "failed" /\ admitted' = admitted /\ released' = released
    BY <1>6 DEF ReleaseAfterFail
  <2> HIDE DEF p
  <2>5. \A b \in Acceptors :
           pc'[b] \in {"accepting", "failed", "accepted", "dropping"}
              => pc[b] \in {"accepting", "failed", "accepted", "dropping"}
    BY <2>2, <2>3, <2>4
  <2> QED
    BY <2>4, <2>5
<1>7. ASSUME NEW a \in Acceptors, Discard(a)
      PROVE  Tickets' \subseteq Tickets
  <2> DEFINE p == [pc EXCEPT ![a] = "dropping"]
  <2>1. p \in [Acceptors -> PCs]
    BY <1>a DEF PCs
  <2>2. \A b \in Acceptors : /\ p[b] # "waiting" => pc'[b] = p[b]
                             /\ p[b] = "waiting" => pc'[b] \in {"waiting", "locking"}
    BY <1>7, <2>1, SignalFacts DEF Discard
  <2>3. p[a] # "waiting" /\ \A b \in Acceptors : b # a => p[b] = pc[b]
    BY <1>a
  <2>4. pc[a] = "accepted" /\ admitted' = admitted /\ released' = released
    BY <1>7 DEF Discard
  <2> HIDE DEF p
  <2>5. \A b \in Acceptors :
           pc'[b] \in {"accepting", "failed", "accepted", "dropping"}
              => pc[b] \in {"accepting", "failed", "accepted", "dropping"}
    BY <2>2, <2>3, <2>4
  <2> QED
    BY <2>4, <2>5
<1>8. CASE CloseMark
  <2>1. \A b \in Acceptors : pc'[b] # "locking" => pc'[b] = pc[b]
    BY <1>8 DEF CloseMark, Broadcast
  <2> QED
    BY <1>8, <2>1 DEF CloseMark
<1>9. CASE BaseClose
  BY <1>9 DEF BaseClose
<1>10. ASSUME NEW k \in Closers, NEW c \in Conns, CloseConn(k, c)
       PROVE  Tickets' \subseteq Tickets
  BY <1>10 DEF CloseConn
<1>11. ASSUME NEW k \in Closers, NEW c \in Conns, ReleaseOnce(k, c)
       PROVE  Tickets' \subseteq Tickets
  <2>1. \A b \in Acceptors : /\ pc[b] # "waiting" => pc'[b] = pc[b]
                             /\ pc[b] = "waiting" => pc'[b] \in {"waiting", "locking"}
    BY <1>a, <1>11, SignalFacts DEF ReleaseOnce
  <2>2. admitted' = admitted /\ released' = released \cup {c}
    BY <1>11 DEF ReleaseOnce
  <2>3. \A b \in Acceptors :
           pc'[b] \in {"accepting", "failed", "accepted", "dropping"}
              => pc[b] \in {"accepting", "failed", "accepted", "dropping"}
    BY <2>1
  <2> QED
    BY <2>2, <2>3
<1>12. CASE UNCHANGED vars
  BY <1>12 DEF vars
<1> QED
  BY <1>1, <1>2, <1>3, <1>4, <1>5, <1>6, <1>7, <1>8, <1>9, <1>10, <1>11, <1>12
     DEF Next, AcceptStep

(* Every open connection has a ticket of its own: the acceptor that holds  *)
(* it, or the connection itself once it is admitted.                       *)
LEMMA LiveHasTicket ==
    ASSUME AdmInv, TicketsBounded
    PROVE  LiveBounded
<1> DEFINE holder(c) == CHOOSE a \in Acceptors : got[a] = c
           ticket == [c \in Live |-> IF transport[c] = "held"
                                     THEN holder(c) ELSE c]
<1>1. ASSUME NEW c \in Live, transport[c] = "held"
      PROVE  /\ holder(c) \in Acceptors /\ got[holder(c)] = c
             /\ holder(c) \in Tickets
  <2>1. \E a \in Acceptors : got[a] = c
    BY <1>1 DEF Live, AdmInv, Holding
  <2>2. holder(c) \in Acceptors /\ got[holder(c)] = c
    BY <2>1
  <2>3. pc[holder(c)] \in {"accepted", "dropping"}
    BY <2>2, NamesAssumption DEF AdmInv, Holding, Live
  <2> QED
    BY <2>2, <2>3 DEF Tickets, Held, Where
<1>2. ASSUME NEW c \in Live, transport[c] # "held"
      PROVE  c \in Tickets /\ c \in Conns
  BY <1>2 DEF Live, AdmInv, Opened, Tickets, Held
<1>3. ticket \in [Live -> Tickets]
  BY <1>1, <1>2
<1>4. ASSUME NEW c \in Live, NEW d \in Live, ticket[c] = ticket[d]
      PROVE  c = d
  <2>1. CASE transport[c] = "held" /\ transport[d] = "held"
    BY <1>1, <1>4, <2>1
  <2>2. CASE transport[c] # "held" /\ transport[d] # "held"
    BY <1>4, <2>2
  <2>3. CASE transport[c] = "held" /\ transport[d] # "held"
    BY <1>1, <1>2, <1>4, <2>3, NamesAssumption
  <2>4. CASE transport[c] # "held" /\ transport[d] = "held"
    BY <1>1, <1>2, <1>4, <2>4, NamesAssumption
  <2> QED
    BY <2>1, <2>2, <2>3, <2>4
<1>5. ticket \in Injection(Live, Tickets)
  BY <1>3, <1>4, Zenon DEF Injection, IsInjective
<1>6. IsFiniteSet(Live) /\ Cardinality(Live) <= Cardinality(Tickets)
  BY <1>5, FS_Injection DEF TicketsBounded
<1>7. Cardinality(Live) \in Nat /\ Cardinality(Tickets) \in Nat
  BY <1>6, FS_CardinalityType DEF TicketsBounded
<1> QED
  BY <1>6, <1>7, MaxAssumption DEF TicketsBounded, LiveBounded

(* Never more than Max connections are open, also in the moment between    *)
(* giving a discarded connection's slot back and closing it.               *)
THEOREM AdmissionBounded == Spec => []LiveBounded
<1>1. Init => TicketsBounded
  BY AdmInitInv, OpenTickets DEF Init
<1>2. AdmInv /\ AdmInv' /\ TicketsBounded /\ [Next]_vars => TicketsBounded'
  <2> SUFFICES ASSUME AdmInv, AdmInv', TicketsBounded, [Next]_vars
               PROVE  TicketsBounded'
    OBVIOUS
  <2>1. CASE ~closed'
    <3>1. (AdmInv /\ ~closed => TicketsBounded)'
      BY OpenTickets, PTL
    <3> QED
      BY <2>1, <3>1
  <2>2. CASE closed'
    <3>1. Tickets' \subseteq Tickets
      BY <2>2, ClosedTickets
    <3>2. IsFiniteSet(Tickets') /\ Cardinality(Tickets') <= Cardinality(Tickets)
      BY <3>1, FS_Subset DEF TicketsBounded
    <3>3. Cardinality(Tickets') \in Nat /\ Cardinality(Tickets) \in Nat
      BY <3>2, FS_CardinalityType DEF TicketsBounded
    <3> QED
      BY <3>2, <3>3, MaxAssumption DEF TicketsBounded
  <2> QED
    BY <2>1, <2>2
<1>3. AdmInv /\ TicketsBounded => LiveBounded
  BY LiveHasTicket
<1> QED
  BY <1>1, <1>2, <1>3, AdmissionSafe, PTL DEF Spec

-----------------------------------------------------------------------------
(* Signal with somebody asleep wakes one; with nobody asleep, nothing.     *)
LEMMA SignalWakes ==
    ASSUME NEW p \in [Acceptors -> PCs], NEW q \in Signal(p)
    PROVE  \/ q = p /\ \A v \in Acceptors : p[v] # "waiting"
           \/ \E w \in Acceptors :
                 p[w] = "waiting" /\ q = [p EXCEPT ![w] = "locking"]
BY DEF Signal

(* The sleepers and the goroutines about to take the lock are finite sets. *)
LEMMA AwakeFinite ==
    IsFiniteSet(Where("locking")) /\ Cardinality(Where("locking")) \in Nat
<1>1. Where("locking") \in SUBSET Acceptors
  BY DEF Where
<1> QED
  BY <1>1, AcceptorsAssumption, FS_Subset, FS_CardinalityType

(* A release that wakes an acceptor moves the bound on both sides.         *)
LEMMA ReleaseWakes ==
    ASSUME AdmInv, NoLostWakeup, active' = active - 1, closed' = closed,
           NEW p \in [Acceptors -> PCs], pc' \in Signal(p),
           \A v \in Acceptors : p[v] \in {"waiting", "locking"}
                                   \/ pc[v] \in {"waiting", "locking"}
                                   => p[v] = pc[v]
    PROVE  NoLostWakeup'
<1>0. pc \in [Acceptors -> PCs] /\ active \in Int
  BY DEF AdmInv, Shapes
<1>1. CASE pc' = p /\ \A v \in Acceptors : p[v] # "waiting"
  <2>1. Where("waiting")' = {}
    BY <1>1 DEF Where
  <2> QED
    BY <2>1 DEF NoLostWakeup
<1>2. ASSUME NEW w \in Acceptors, p[w] = "waiting",
             pc' = [p EXCEPT ![w] = "locking"]
      PROVE  NoLostWakeup'
  <2>1. /\ w \notin Where("locking")
        /\ Where("locking")' = Where("locking") \cup {w}
        /\ Where("waiting") # {}
    BY <1>2 DEF Where
  <2>2. Cardinality(Where("locking")') = Cardinality(Where("locking")) + 1
    BY <2>1, AwakeFinite, FS_AddElement
  <2> QED
    BY <1>0, <2>1, <2>2, AwakeFinite, MaxAssumption DEF NoLostWakeup
<1> QED
  BY <1>1, <1>2, SignalWakes

(* A step that leaves the count, the sleepers and the awake as they are.   *)
LEMMA WakeupSame ==
    ASSUME NoLostWakeup, active' = active, closed' = closed,
           Where("waiting")' = Where("waiting"),
           Where("locking")' = Where("locking")
    PROVE  NoLostWakeup'
BY DEF NoLostWakeup

LEMMA WakeupStep == AdmInv /\ NoLostWakeup /\ [Next]_vars => NoLostWakeup'
<1> SUFFICES ASSUME AdmInv, NoLostWakeup, [Next]_vars PROVE NoLostWakeup'
  OBVIOUS
<1>a. /\ pc \in [Acceptors -> PCs] /\ active \in Int /\ active <= Max
      /\ closed \in BOOLEAN
  BY DEF AdmInv, Shapes
<1>1. ASSUME NEW c \in Conns, Dial(c) PROVE NoLostWakeup'
  BY <1>1, WakeupSame DEF Dial, Where
<1>2. ASSUME NEW a \in Acceptors, Call(a) PROVE NoLostWakeup'
  <2>1. /\ Where("locking")' = Where("locking") \cup {a}
        /\ a \notin Where("locking")
        /\ Where("waiting")' = Where("waiting")
    BY <1>a, <1>2 DEF Call, Where, PCs
  <2>2. Cardinality(Where("locking")') = Cardinality(Where("locking")) + 1
    BY <2>1, AwakeFinite, FS_AddElement
  <2> QED
    BY <1>a, <1>2, <2>1, <2>2, AwakeFinite, MaxAssumption
       DEF Call, NoLostWakeup
<1>3. ASSUME NEW a \in Acceptors, Saturated(a) PROVE NoLostWakeup'
  <2>1. active' = active /\ active >= Max
    BY <1>3 DEF Saturated
  <2>2. IsFiniteSet(Where("locking")') /\ Cardinality(Where("locking")') \in Nat
    <3>1. Where("locking")' \in SUBSET Acceptors
      BY DEF Where
    <3> QED
      BY <3>1, AcceptorsAssumption, FS_Subset, FS_CardinalityType
  <2> QED
    BY <1>a, <2>1, <2>2, MaxAssumption DEF NoLostWakeup
<1>4. ASSUME NEW a \in Acceptors, ReturnClosed(a) \/ Discard(a)
      PROVE  NoLostWakeup'
  BY <1>4 DEF ReturnClosed, Discard, NoLostWakeup
<1>5. ASSUME NEW a \in Acceptors, Reserve(a) PROVE NoLostWakeup'
  <2>1. /\ Where("locking")' = Where("locking") \ {a}
        /\ a \in Where("locking")
        /\ Where("waiting")' = Where("waiting")
    BY <1>a, <1>5 DEF Reserve, Where, PCs
  <2>2. Cardinality(Where("locking")') = Cardinality(Where("locking")) - 1
    BY <2>1, AwakeFinite, FS_RemoveElement
  <2> QED
    BY <1>a, <1>5, <2>1, <2>2, AwakeFinite, MaxAssumption
       DEF Reserve, NoLostWakeup
<1>6. ASSUME NEW a \in Acceptors, NEW c \in Conns,
             BaseAccept(a, c) \/ RejectPeer(a, c)
      PROVE  NoLostWakeup'
  BY <1>a, <1>6, WakeupSame DEF BaseAccept, RejectPeer, Where, PCs
<1>7. ASSUME NEW a \in Acceptors, BaseFail(a) \/ Publish(a) \/ DropConn(a)
      PROVE  NoLostWakeup'
  BY <1>a, <1>7, WakeupSame DEF BaseFail, Publish, DropConn, Where, PCs
<1>8. ASSUME NEW a \in Acceptors, ReleaseAfterFail(a) PROVE NoLostWakeup'
  <2> DEFINE p == [pc EXCEPT ![a] = "idle"]
  <2>1. p \in [Acceptors -> PCs]
    BY <1>a DEF PCs
  <2>2. pc[a] = "failed" /\ active' = active - 1 /\ closed' = closed
           /\ pc' \in Signal(p)
    BY <1>8 DEF ReleaseAfterFail
  <2>3. \A v \in Acceptors : p[v] \in {"waiting", "locking"}
                                \/ pc[v] \in {"waiting", "locking"}
                                => p[v] = pc[v]
    BY <1>a, <2>2
  <2> QED
    BY <2>1, <2>2, <2>3, ReleaseWakes
<1>9. CASE CloseMark
  BY <1>9 DEF CloseMark, NoLostWakeup
<1>10. CASE BaseClose
  BY <1>10, WakeupSame DEF BaseClose, Where
<1>11. ASSUME NEW k \in Closers, NEW c \in Conns, CloseConn(k, c)
       PROVE  NoLostWakeup'
  BY <1>11, WakeupSame DEF CloseConn, Where
<1>12. ASSUME NEW k \in Closers, NEW c \in Conns, ReleaseOnce(k, c)
       PROVE  NoLostWakeup'
  <2>1. CASE c \in released
    BY <1>12, <2>1, WakeupSame DEF ReleaseOnce, Where
  <2>2. CASE c \notin released
    BY <1>a, <1>12, <2>2, ReleaseWakes DEF ReleaseOnce
  <2> QED
    BY <2>1, <2>2
<1>13. CASE UNCHANGED vars
  BY <1>13, WakeupSame DEF vars, Where
<1> QED
  BY <1>1, <1>2, <1>3, <1>4, <1>5, <1>6, <1>7, <1>8, <1>9, <1>10, <1>11, <1>12,
     <1>13 DEF Next, AcceptStep

(* One Signal per release is enough: while somebody sleeps, each free slot *)
(* has an awake acceptor of its own on the way to it.                      *)
THEOREM AdmissionNoLostWakeup == Spec => []NoLostWakeup
<1>1. Init => NoLostWakeup
  BY DEF Init, NoLostWakeup, Where
<1> QED
  BY <1>1, AdmissionSafe, WakeupStep, PTL DEF Spec
=============================================================================
