------------------------------ MODULE SqlStore ------------------------------
(***************************************************************************)
(* sqlite.Store (sqlite/sqlite.go) and postgres.Store (postgres/           *)
(* postgres.go), which differ only in names, driver and the check of the   *)
(* configuration.                                                          *)
(*                                                                         *)
(* Start opens a pool, pings it, migrates and publishes it.  Stop takes it *)
(* back, closes it in a goroutine and waits for that or for its context,   *)
(* whichever comes first, so a pool can still be closing after Stop has    *)
(* returned.  As doc.go asks, Start and Stop do not overlap; several Stops *)
(* may.                                                                    *)
(*                                                                         *)
(* The names carry the prefix Sql so that one module can extend this one   *)
(* and ArtifactStore.                                                      *)
(***************************************************************************)
EXTENDS Integers

CONSTANTS
    Stops,    \* goroutines that call Stop
    MaxOpens  \* bound: pools ever opened

ASSUME OpensAssumption == MaxOpens \in Nat

None == 0
Pools == 1 .. MaxOpens

VARIABLES
    db,        \* s.db: the published pool
    closing,   \* s.closing: the pool whose close is tracked
    opens,     \* pools opened so far
    pool,      \* the life of each pool
    closeErr,  \* pools whose Close failed (closeState.err)
    reported,  \* pools whose close error a caller has been given
    starter,   \* where Start is
    stop,      \* where each Stop is
    waitsFor   \* the pool whose close each Stop waits for

sqlVars == <<db, closing, opens, pool, closeErr, reported, starter, stop, waitsFor>>

SqlTypeOK ==
    /\ db \in Pools \cup {None}
    /\ closing \in Pools \cup {None}
    /\ opens \in 0 .. MaxOpens
    /\ pool \in [Pools -> {"unopened", "open", "closing", "closed"}]
    /\ closeErr \subseteq Pools
    /\ reported \subseteq closeErr
    /\ starter \in {"idle", "opening", "migrating"}
    /\ stop \in [Stops -> {"idle", "waiting", "clearing"}]
    /\ waitsFor \in [Stops -> Pools \cup {None}]

SqlInit ==
    /\ db = None
    /\ closing = None
    /\ opens = 0
    /\ pool = [g \in Pools |-> "unopened"]
    /\ closeErr = {}
    /\ reported = {}
    /\ starter = "idle"
    /\ stop = [p \in Stops |-> "idle"]
    /\ waitsFor = [p \in Stops |-> None]

-----------------------------------------------------------------------------
NoStop == \A p \in Stops : stop[p] = "idle"

(* s.closing is set and its done channel is still open.                    *)
CloseInProgress == \E g \in Pools : closing = g /\ pool[g] # "closed"

(* mutant: Start does not look at the close that is still tracked.         *)
StartCheckIgnoringClose ==
    /\ starter = "idle" /\ NoStop
    /\ db = None
    /\ closing' = None
    /\ starter' = "opening"
    /\ UNCHANGED <<db, opens, pool, closeErr, reported, stop, waitsFor>>

(* mutant: Start forgets the delayed close error and goes on.              *)
StartCheckSwallowing ==
    /\ starter = "idle" /\ NoStop
    /\ db = None
    /\ ~CloseInProgress
    /\ closing' = None
    /\ starter' = "opening"
    /\ UNCHANGED <<db, opens, pool, closeErr, reported, stop, waitsFor>>

(* Start's locked prologue: refused while a pool is published or still     *)
(* closing; a delayed close error is returned once instead of starting.    *)
StartCheck ==
    /\ starter = "idle" /\ NoStop
    /\ db = None
    /\ ~CloseInProgress
    /\ closing' = None
    /\ \/ /\ closing \in closeErr
          /\ reported' = reported \cup {closing}
          /\ UNCHANGED starter
       \/ /\ closing \notin closeErr
          /\ starter' = "opening"
          /\ UNCHANGED reported
    /\ UNCHANGED <<db, opens, pool, closeErr, stop, waitsFor>>

(* s.open, which may fail.                                                 *)
StartOpen ==
    /\ starter = "opening"
    /\ \/ /\ opens < MaxOpens
          /\ opens' = opens + 1
          /\ pool' = [pool EXCEPT ![opens + 1] = "open"]
          /\ starter' = "migrating"
       \/ /\ starter' = "idle"
          /\ UNCHANGED <<opens, pool>>
    /\ UNCHANGED <<db, closing, closeErr, reported, stop, waitsFor>>

(* The ping, a migration or the Migrator fails: closeAfterStartError       *)
(* closes the pool and returns its error together with the first one.      *)
StartFail ==
    /\ starter = "migrating"
    /\ pool' = [pool EXCEPT ![opens] = "closed"]
    /\ \/ closeErr' = closeErr \cup {opens} /\ reported' = reported \cup {opens}
       \/ UNCHANGED <<closeErr, reported>>
    /\ starter' = "idle"
    /\ UNCHANGED <<db, closing, opens, stop, waitsFor>>

StartPublish ==
    /\ starter = "migrating"
    /\ db' = opens
    /\ starter' = "idle"
    /\ UNCHANGED <<closing, opens, pool, closeErr, reported, stop, waitsFor>>

(* Stop: take the pool back and start closing it, or join a close that is  *)
(* tracked already.  With neither it returns nil.                          *)
StopBegin(p) ==
    /\ stop[p] = "idle" /\ starter = "idle"
    /\ \/ /\ closing = None /\ db # None
          /\ db' = None
          /\ closing' = db
          /\ pool' = [pool EXCEPT ![db] = "closing"]
       \/ closing # None /\ UNCHANGED <<db, closing, pool>>
    /\ stop' = [stop EXCEPT ![p] = "waiting"]
    /\ waitsFor' = [waitsFor EXCEPT ![p] = closing']
    /\ UNCHANGED <<opens, closeErr, reported, starter>>

(* The goroutine: db.Close() returns and done is closed.                   *)
CloseDone(g) ==
    /\ pool[g] = "closing"
    /\ pool' = [pool EXCEPT ![g] = "closed"]
    /\ closeErr' \in {closeErr, closeErr \cup {g}}
    /\ UNCHANGED <<db, closing, opens, reported, starter, stop, waitsFor>>

(* Stop's select receives from done ...                                    *)
StopSees(p) ==
    /\ stop[p] = "waiting"
    /\ pool[waitsFor[p]] = "closed"
    /\ stop' = [stop EXCEPT ![p] = "clearing"]
    /\ UNCHANGED <<db, closing, opens, pool, closeErr, reported, starter, waitsFor>>

(* ... or its context ends first, even if the close is done by then.       *)
StopExpire(p) ==
    /\ stop[p] = "waiting"
    /\ stop' = [stop EXCEPT ![p] = "idle"]
    /\ waitsFor' = [waitsFor EXCEPT ![p] = None]
    /\ UNCHANGED <<db, closing, opens, pool, closeErr, reported, starter>>

(* After done: forget the tracked close and return its error.              *)
StopClear(p) ==
    /\ stop[p] = "clearing"
    /\ closing' = IF closing = waitsFor[p] THEN None ELSE closing
    /\ reported' = reported \cup ({waitsFor[p]} \cap closeErr)
    /\ stop' = [stop EXCEPT ![p] = "idle"]
    /\ waitsFor' = [waitsFor EXCEPT ![p] = None]
    /\ UNCHANGED <<db, opens, pool, closeErr, starter>>

SqlNext ==
    \/ StartCheck
    \/ StartOpen
    \/ StartFail
    \/ StartPublish
    \/ \E g \in Pools : CloseDone(g)
    \/ \E p \in Stops : StopBegin(p) \/ StopSees(p) \/ StopExpire(p) \/ StopClear(p)

SqlSpec == SqlInit /\ [][SqlNext]_sqlVars

-----------------------------------------------------------------------------
(* No pool is leaked and no two pools coexist, even when Stop gave up on a *)
(* slow close: a pool that is open or closing is the published one, the    *)
(* one Start is preparing, or the tracked one, and there is only one.  DB  *)
(* hands it out only when it is open, and not once a Stop has begun.       *)
OnePoolTracked ==
    /\ \A g \in Pools :
          /\ pool[g] = "open" => g = db \/ (starter = "migrating" /\ g = opens)
          /\ pool[g] = "closing" => g = closing
    /\ \A g, h \in Pools :
          pool[g] \in {"open", "closing"} /\ pool[h] \in {"open", "closing"}
             => g = h
    /\ db # None => pool[db] = "open" /\ starter = "idle" /\ closing = None

(* A close error is never lost: until a Stop or a later Start has returned *)
(* it, the closed pool stays tracked, or a Stop is about to return it.     *)
CloseErrorKept ==
    \A g \in closeErr \ reported :
       closing = g \/ \E p \in Stops : stop[p] = "clearing" /\ waitsFor[p] = g
=============================================================================
