--------------------------- MODULE LockedEndpoint ---------------------------
(***************************************************************************)
(* A processlock.Lock registered before a localgateway.Server, as SKILL.md *)
(* advises: "Use processlock before a single-owner local database, IPC     *)
(* endpoint, or other resource".  go-app (external) starts components in   *)
(* order, starts the next one only if the one before succeeded, and stops  *)
(* them in the reverse order; a crash ends the whole process.              *)
(*                                                                         *)
(* The steps of a gateway are UnixEndpoint's; each process has a lock and  *)
(* a gateway, and there is no stranger.  A gateway's Stop that failed may  *)
(* be repeated until the lock is released, not after that.                 *)
(***************************************************************************)
EXTENDS UnixEndpoint

CONSTANTS
    Nobody,    \* holds the flock when no process does
    MaxFaults  \* bound: failing system calls of the locks

ASSUME NobodyAssumption == Nobody \notin Procs
ASSUME FaultsAssumption == MaxFaults \in Nat

VARIABLES holder, file, handle, lockPc, faults

lockVars == <<holder, file, handle, lockPc, faults>>
lockedVars == <<lockVars, vars>>

Lock == INSTANCE ProcessLock WITH Owners <- Procs, pc <- lockPc

LockedTypeOK == Lock!TypeOK /\ TypeOK

LockedInit == Lock!Init /\ Init

-----------------------------------------------------------------------------
(* Lock.Start, the first component's.                                      *)
StartLock(p) ==
    /\ pc[p] = "down"
    /\ Lock!Open(p) \/ Lock!Acquire(p) \/ Lock!GiveUp(p)
    /\ UNCHANGED vars

(* mutant: the gateway is registered without, or before, the lock.         *)
OperateUnlocked(p) ==
    /\ ProcStep(p)
    /\ UNCHANGED lockVars

(* Server.Start and Server.Stop, between the lock's Start and its Stop.    *)
Operate(p) ==
    /\ Lock!Started(p)
    /\ ProcStep(p)
    /\ UNCHANGED lockVars

(* Lock.Stop, after the gateway's Stop or its failed Start.                *)
StopLock(p) ==
    /\ pc[p] \in {"down", "failed"}
    /\ Lock!Unlock(p) \/ Lock!Close(p)
    /\ UNCHANGED vars

Dies(p) ==
    /\ Lock!Crash(p)
    /\ Crash(p) \/ (pc[p] = "down" /\ UNCHANGED vars)

LockedNext == \E p \in Procs :
    StartLock(p) \/ Operate(p) \/ StopLock(p) \/ Dies(p)

LockedSpec == LockedInit /\ [][LockedNext]_lockedVars

-----------------------------------------------------------------------------
(* The gateways as UnixEndpoint runs them when no two of them start or     *)
(* stop at the same time.                                                  *)
Exclusive == INSTANCE UnixEndpoint WITH Overlap <- FALSE

(* The lock gives the gateways what endpoint_unix.go relies on and cannot  *)
(* give itself: nobody else is inside listenLocal or cleanup, so all that  *)
(* UnixEndpoint says of gateways that do not overlap holds behind it,      *)
(* whatever crashed or failed to release before.                           *)
ServesExclusively == Exclusive!Spec

(* With the lock no gateway meets another one's socket, whatever crashed,  *)
(* failed or is being restarted, and even if inode numbers are reused: a   *)
(* Start never finds the endpoint in use, nor taken when it binds; what    *)
(* cleanup has renamed is the socket it identified, and its place is free  *)
(* when that has to be put back; the error paths of a Start remove its own *)
(* socket; and no Stop, not even a repeated one, begins at the socket of   *)
(* another gateway.                                                        *)
NeverContended ==
    /\ \A p \in Procs :
          /\ pc[p] = "dial" => life[entry] # "listening"
          /\ pc[p] = "bind" => entry = NoSocket
          /\ pc[p] \in {"compare", "check", "restore"} =>
                entry = NoSocket /\ aside[p] = id[p]
          /\ pc[p] \in {"abort", "unlink"} => entry = mine[p]
    /\ targeted = {}

(* Whoever is started holds the flock, whatever crashed or failed to       *)
(* release before; and a Stop that succeeded and a Start that was refused  *)
(* leave neither the file open nor the lock taken (lock_unix.go, release   *)
(* and every error path of acquire).                                       *)
LockIsExact == Lock!StartedHoldsLock /\ Lock!ReleasedMeansFree
=============================================================================
