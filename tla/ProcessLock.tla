----------------------------- MODULE ProcessLock -----------------------------
(***************************************************************************)
(* processlock.Lock on Unix (processlock/processlock.go, lock_unix.go):    *)
(* several owners, each a Lock in some process, contend for flock on one   *)
(* lock file.  A flock belongs to the open file, so it is free again as    *)
(* soon as the file is closed or its process dies.                         *)
(*                                                                         *)
(* The file itself is taken to be private, regular and in place, which     *)
(* doc.go asks of the caller; acquire's checks of that may still fail.     *)
(***************************************************************************)
EXTENDS Integers, FiniteSets

CONSTANTS
    Owners,    \* Lock components that name the same file
    Nobody,    \* not one of them
    MaxFaults  \* bound (a natural number): failing system calls

VARIABLES
    holder,  \* whose open file holds the flock
    file,    \* each owner's os.File: "none", "open", "closed" (kept, unusable)
    handle,  \* l.handle # nil
    pc,      \* where each owner is in Start or Stop, under l.mu
    faults   \* failed system calls so far

vars == <<holder, file, handle, pc, faults>>

TypeOK ==
    /\ holder \in Owners \cup {Nobody}
    /\ file \in [Owners -> {"none", "open", "closed"}]
    /\ handle \in [Owners -> BOOLEAN]
    /\ \A o \in Owners : handle[o] => file[o] # "none"
    /\ pc \in [Owners -> {"idle", "opened", "unlocked", "unlockFailed"}]
    /\ faults \in 0 .. MaxFaults

Init ==
    /\ holder = Nobody
    /\ file = [o \in Owners |-> "none"]
    /\ handle = [o \in Owners |-> FALSE]
    /\ pc = [o \in Owners |-> "idle"]
    /\ faults = 0

Free(o) == IF holder = o THEN Nobody ELSE holder

-----------------------------------------------------------------------------
(* Start: refused with a handle; otherwise open the file and validate it.  *)
(* A failure of either leaves nothing open.                                *)
Open(o) ==
    /\ pc[o] = "idle"
    /\ ~handle[o]
    /\ file' = [file EXCEPT ![o] = "open"]
    /\ pc' = [pc EXCEPT ![o] = "opened"]
    /\ UNCHANGED <<holder, handle, faults>>

(* flock(LOCK_EX|LOCK_NB) succeeds and Start returns nil.                  *)
Acquire(o) ==
    /\ pc[o] = "opened"
    /\ holder = Nobody
    /\ holder' = o
    /\ handle' = [handle EXCEPT ![o] = TRUE]
    /\ pc' = [pc EXCEPT ![o] = "idle"]
    /\ UNCHANGED <<file, faults>>

(* mutant: a refused Start leaves the file open.                           *)
GiveUpLeaking(o) ==
    /\ pc[o] = "opened"
    /\ holder # Nobody \/ faults < MaxFaults
    /\ faults' = IF holder = Nobody THEN faults + 1 ELSE faults
    /\ pc' = [pc EXCEPT ![o] = "idle"]
    /\ UNCHANGED <<holder, file, handle>>

(* A check of the file fails, or flock does: with EWOULDBLOCK (ErrLocked)  *)
(* when somebody holds the lock.  The file is closed.                      *)
GiveUp(o) ==
    /\ pc[o] = "opened"
    /\ holder # Nobody \/ faults < MaxFaults
    /\ faults' = IF holder = Nobody THEN faults + 1 ELSE faults
    /\ file' = [file EXCEPT ![o] = "none"]
    /\ pc' = [pc EXCEPT ![o] = "idle"]
    /\ UNCHANGED <<holder, handle>>

(* Stop, release's first call: flock(LOCK_UN).  On a file an earlier       *)
(* release closed, Fd is invalid and the call fails.                       *)
Unlock(o) ==
    /\ pc[o] = "idle"
    /\ handle[o]
    /\ \/ /\ file[o] = "open"
          /\ holder' = Free(o)
          /\ pc' = [pc EXCEPT ![o] = "unlocked"]
          /\ UNCHANGED faults
       \/ /\ file[o] = "closed" \/ faults < MaxFaults
          /\ faults' = IF file[o] = "closed" THEN faults ELSE faults + 1
          /\ pc' = [pc EXCEPT ![o] = "unlockFailed"]
          /\ UNCHANGED holder
    /\ UNCHANGED <<file, handle>>

(* release's second call: os.File.Close.  Whatever it returns the os.File  *)
(* is unusable afterwards; when the system call fails the model leaves     *)
(* open whether the kernel gave the lock up.  The handle goes if either    *)
(* call succeeded.                                                         *)
Close(o) ==
    /\ pc[o] \in {"unlocked", "unlockFailed"}
    /\ pc' = [pc EXCEPT ![o] = "idle"]
    /\ \/ /\ file[o] = "open"
          /\ file' = [file EXCEPT ![o] = "none"]
          /\ handle' = [handle EXCEPT ![o] = FALSE]
          /\ holder' = Free(o)
          /\ UNCHANGED faults
       \/ /\ file[o] = "open" /\ faults < MaxFaults
          /\ faults' = faults + 1
          /\ handle' = [handle EXCEPT ![o] = (pc[o] = "unlockFailed")]
          /\ file' = [file EXCEPT ![o] = IF pc[o] = "unlocked" THEN "none"
                                                               ELSE "closed"]
          /\ holder' \in {holder, Free(o)}
       \/ /\ file[o] = "closed"
          /\ UNCHANGED <<holder, file, handle, faults>>

(* The process dies: the kernel closes the file.                           *)
Crash(o) ==
    /\ holder' = Free(o)
    /\ file' = [file EXCEPT ![o] = "none"]
    /\ handle' = [handle EXCEPT ![o] = FALSE]
    /\ pc' = [pc EXCEPT ![o] = "idle"]
    /\ UNCHANGED faults

Next == \E o \in Owners :
    Open(o) \/ Acquire(o) \/ GiveUp(o) \/ Unlock(o) \/ Close(o) \/ Crash(o)

Spec == Init /\ [][Next]_vars

(* Start and Stop run to their end once called; a crash need not happen.   *)
Fairness == \A o \in Owners :
    /\ WF_vars(Acquire(o) \/ GiveUp(o))
    /\ WF_vars(Unlock(o))
    /\ WF_vars(Close(o))

FairSpec == Spec /\ Fairness

-----------------------------------------------------------------------------
(* An owner between a Start that returned nil and its Stop.                *)
Started(o) == handle[o] /\ file[o] = "open" /\ pc[o] = "idle"

(* Whoever is started holds the flock, so two owners never are at once,    *)
(* whatever crashed or failed to release before.                           *)
StartedHoldsLock == \A o \in Owners : Started(o) => holder = o

(* After a definite release, and after a refused Start, nothing of this    *)
(* owner keeps others out or leaks: no open file and no flock.             *)
ReleasedMeansFree ==
    \A o \in Owners :
       pc[o] = "idle" /\ ~handle[o] => file[o] = "none" /\ holder # o

(* What processlock.go promises of an indeterminate release: the retained  *)
(* handle is there for a later Stop to retry with, so as long as Stop is   *)
(* called again it is eventually released.                                 *)
RetryReleases == \A o \in Owners : handle[o] ~> ~handle[o]
=============================================================================
