---------------------------- MODULE UnixEndpoint ----------------------------
(***************************************************************************)
(* The Unix socket a gateway owns (localgateway/endpoint_unix.go):         *)
(* listenLocal, which removes a stale socket and makes its own, and the    *)
(* cleanup that Stop calls.  Several gateways, in one process or in        *)
(* several, name the same endpoint; a process may die at any point, and a  *)
(* stranger may move the socket away and put a listening one of its own    *)
(* there, as gateway_unix_test.go does.                                    *)
(*                                                                         *)
(* Every system call is one step, because each of them looks the path up   *)
(* again; each may fail whatever the state, close(2) excepted.  The kernel *)
(* gives a new socket any inode number that is free: no name refers to it  *)
(* and no open socket was bound to it.                                     *)
(***************************************************************************)
EXTENDS Integers, FiniteSets

CONSTANTS
    Procs,         \* gateways that name this endpoint
    Stranger,      \* owner of a socket that is no gateway's
    MaxSockets,    \* bound: sockets ever bound
    Inodes,        \* inode numbers
    NoInode,
    PrivateUmask,  \* the umask takes group's and others' permissions away
    Overlap,       \* listenLocal and cleanup of two gateways may overlap
    MaxMoves       \* bound: times a stranger moves the socket away

ASSUME StrangerAssumption == Stranger \notin Procs
ASSUME SocketsAssumption == MaxSockets \in Nat /\ MaxMoves \in Nat
ASSUME FlagsAssumption == PrivateUmask \in BOOLEAN /\ Overlap \in BOOLEAN
ASSUME InodesAssumption == NoInode \notin Inodes

NoSocket == 0
Sockets == 1 .. MaxSockets

VARIABLES
    entry,       \* the socket the endpoint's name refers to
    aside,       \* each gateway's quarantine name, while it is using it
    debris,      \* sockets that only a name nobody uses any more refers to
    made,        \* sockets bound so far
    life,        \* each socket: "none", "bound", "listening", "closed"
    owner,       \* who bound it
    private,     \* sockets whose mode is private
    inode,       \* the inode number of each socket
    pc,          \* where each gateway is
    forStop,     \* gateways whose removeOwnedSocket was called by cleanup
    id,          \* the socket whose identity each gateway has read
    mine,        \* each gateway's own socket
    abandoned,   \* sockets a dying gateway owned or was looking at
    retained,    \* sockets removeOwnedSocket left a quarantine name, and said so
    leftover,    \* sockets a Start that failed has not removed
    moved,       \* sockets a stranger has moved away or removed
    served,      \* sockets of gateways that have started
    targeted     \* sockets at the endpoint when the Stop of another's began

vars == <<entry, aside, debris, made, life, owner, private, inode, pc,
          forStop, id, mine, abandoned, retained, leftover, moved, served,
          targeted>>

TypeOK ==
    /\ entry \in Sockets \cup {NoSocket}
    /\ aside \in [Procs -> Sockets \cup {NoSocket}]
    /\ debris \subseteq Sockets
    /\ made \in 0 .. MaxSockets
    /\ life \in [Sockets -> {"none", "bound", "listening", "closed"}]
    /\ owner \in [Sockets -> Procs \cup {Stranger}]
    /\ private \subseteq Sockets
    /\ inode \in [Sockets -> Inodes \cup {NoInode}]
    /\ pc \in [Procs -> {"down", "identify", "dial", "rename", "compare",
                         "check", "restore", "bind", "listen", "chmod",
                         "validate", "own", "abort", "unlink", "serving",
                         "failed"}]
    /\ forStop \subseteq Procs
    /\ id \in [Procs -> Sockets \cup {NoSocket}]
    /\ mine \in [Procs -> Sockets \cup {NoSocket}]
    /\ \A past \in {abandoned, retained, leftover, moved, served, targeted} :
          past \subseteq Sockets
    /\ \A p \in Procs :
          aside[p] # NoSocket <=> pc[p] \in {"compare", "check", "restore"}

Init ==
    /\ entry = NoSocket
    /\ aside = [p \in Procs |-> NoSocket]
    /\ debris = {}
    /\ made = 0
    /\ life = [s \in Sockets |-> "none"]
    /\ owner = [s \in Sockets |-> Stranger]
    /\ private = {}
    /\ inode = [s \in Sockets |-> NoInode]
    /\ pc = [p \in Procs |-> "down"]
    /\ forStop = {}
    /\ id = [p \in Procs |-> NoSocket]
    /\ mine = [p \in Procs |-> NoSocket]
    /\ abandoned = {} /\ retained = {} /\ leftover = {}
    /\ moved = {} /\ served = {} /\ targeted = {}

names == <<entry, aside, debris>>
sockets == <<made, life, owner, private, inode>>
history == <<abandoned, retained, leftover, moved, served, targeted>>

-----------------------------------------------------------------------------
(* Some name refers to the socket.                                         *)
Linked(s) == s = entry \/ s \in debris \/ \E p \in Procs : aside[p] = s

FreeInodes ==
    Inodes \ {inode[s] : s \in {t \in Sockets :
                 Linked(t) \/ life[t] \in {"bound", "listening"}}}

(* No other gateway is inside listenLocal or cleanup, or they may overlap. *)
Undisturbed(p) ==
    Overlap \/ \A q \in Procs \ {p} : pc[q] \in {"down", "serving", "failed"}

Goes(p, place) == pc' = [pc EXCEPT ![p] = place]

(* bind: the socket s gets a name and an inode number.                     *)
Bound(s, who, state, mode) ==
    /\ entry = NoSocket
    /\ made < MaxSockets
    /\ s = made + 1
    /\ made' = s
    /\ entry' = s
    /\ life' = [life EXCEPT ![s] = state]
    /\ owner' = [owner EXCEPT ![s] = who]
    /\ private' = IF mode THEN private \cup {s} ELSE private
    /\ \E i \in FreeInodes : inode' = [inode EXCEPT ![s] = i]

-----------------------------------------------------------------------------
(* removeStaleSocket: validateSocket.  Without a socket there is nothing   *)
(* to remove; one that is not private makes Start fail.                    *)
StartValidate(p) ==
    /\ pc[p] = "down"
    /\ Undisturbed(p)
    /\ \/ entry = NoSocket /\ Goes(p, "bind")
       \/ entry \in private /\ Goes(p, "identify")
    /\ UNCHANGED <<names, sockets, forStop, id, mine, history>>

(* socketIdentity; the socket may be another one by now, or gone.          *)
Identify(p) ==
    /\ pc[p] = "identify"
    /\ \/ Goes(p, "down") /\ UNCHANGED id
       \/ /\ entry # NoSocket
          /\ id' = [id EXCEPT ![p] = entry]
          /\ Goes(p, "dial")
    /\ UNCHANGED <<names, sockets, forStop, mine, history>>

(* mutant: a socket that accepts the connection is taken for stale too.    *)
DialIgnored(p) ==
    /\ pc[p] = "dial"
    /\ Goes(p, IF entry # NoSocket THEN "rename" ELSE "down")
    /\ UNCHANGED <<names, sockets, forStop, id, mine, history>>

(* Only ECONNREFUSED counts as stale.                                      *)
Dial(p) ==
    /\ pc[p] = "dial"
    /\ \/ Goes(p, "down")
       \/ entry # NoSocket /\ life[entry] # "listening" /\ Goes(p, "rename")
    /\ UNCHANGED <<names, sockets, forStop, id, mine, history>>

(* The end of removeOwnedSocket: listenLocal goes on to net.Listen or      *)
(* fails; cleanup makes Stop succeed, or fail and keep cleanup for later.  *)
Removed(p) ==
    /\ Goes(p, IF p \in forStop THEN "down" ELSE "bind")
    /\ forStop' = forStop \ {p}
    /\ mine' = [mine EXCEPT ![p] = NoSocket]

NotRemoved(p) ==
    /\ Goes(p, IF p \in forStop THEN "failed" ELSE "down")
    /\ forStop' = forStop \ {p}
    /\ UNCHANGED mine

(* os.Rename to the quarantine name, if rand.Read has given one.           *)
Rename(p) ==
    /\ pc[p] = "rename"
    /\ \/ NotRemoved(p) /\ UNCHANGED <<entry, aside>>
       \/ entry = NoSocket /\ Removed(p) /\ UNCHANGED <<entry, aside>>
       \/ /\ entry # NoSocket
          /\ aside' = [aside EXCEPT ![p] = entry]
          /\ entry' = NoSocket
          /\ Goes(p, "compare")
          /\ UNCHANGED <<forStop, mine>>
    /\ UNCHANGED <<debris, sockets, id, history>>

(* What was renamed keeps its quarantine name for good; the error says so. *)
Retain(p) ==
    /\ debris' = debris \cup {aside[p]}
    /\ retained' = retained \cup {aside[p]}
    /\ aside' = [aside EXCEPT ![p] = NoSocket]
    /\ NotRemoved(p)
    /\ UNCHANGED entry

(* The identity of what was renamed decides: os.Remove, or put it back, as *)
(* when socketIdentity fails.  The next Stop does not come back to a name  *)
(* that os.Remove could not remove.                                        *)
Compare(p) ==
    /\ pc[p] = "compare"
    /\ \/ /\ inode[aside[p]] = inode[id[p]]
          /\ \/ /\ aside' = [aside EXCEPT ![p] = NoSocket]
                /\ Removed(p)
                /\ UNCHANGED <<entry, debris, retained>>
             \/ Retain(p)
       \/ Goes(p, "check") /\ UNCHANGED <<names, forStop, mine, retained>>
    /\ UNCHANGED <<sockets, id, abandoned, leftover, moved, served, targeted>>

(* restoreQuarantinedSocket: os.Lstat of the endpoint.                     *)
RestoreCheck(p) ==
    /\ pc[p] = "check"
    /\ \/ Retain(p)
       \/ entry = NoSocket /\ Goes(p, "restore")
             /\ UNCHANGED <<names, forStop, mine, retained>>
    /\ UNCHANGED <<sockets, id, abandoned, leftover, moved, served, targeted>>

(* mutant: os.Rename, which replaces what has been put there meanwhile.    *)
RestoreReplacing(p) ==
    /\ pc[p] = "restore"
    /\ entry' = aside[p]
    /\ aside' = [aside EXCEPT ![p] = NoSocket]
    /\ NotRemoved(p)
    /\ UNCHANGED <<debris, sockets, id, history>>

(* restoreSocketNoReplace, which fails if the name exists.                 *)
Restore(p) ==
    /\ pc[p] = "restore"
    /\ \/ Retain(p)
       \/ /\ entry = NoSocket
          /\ entry' = aside[p]
          /\ aside' = [aside EXCEPT ![p] = NoSocket]
          /\ NotRemoved(p)
          /\ UNCHANGED <<debris, retained>>
    /\ UNCHANGED <<sockets, id, abandoned, leftover, moved, served, targeted>>

-----------------------------------------------------------------------------
(* net.Listen: bind, refused if the name exists, and then listen.          *)
Bind(p) ==
    /\ pc[p] = "bind"
    /\ \/ Goes(p, "down") /\ UNCHANGED <<entry, sockets, mine>>
       \/ \E s \in Sockets :
             /\ Bound(s, p, "bound", PrivateUmask)
             /\ mine' = [mine EXCEPT ![p] = s]
             /\ Goes(p, "listen")
    /\ UNCHANGED <<aside, debris, forStop, id, history>>

(* A failing listen closes the socket and leaves its name.                 *)
Listen(p) ==
    /\ pc[p] = "listen"
    /\ \/ /\ life' = [life EXCEPT ![mine[p]] = "listening"]
          /\ Goes(p, "chmod")
          /\ UNCHANGED <<mine, leftover>>
       \/ /\ life' = [life EXCEPT ![mine[p]] = "closed"]
          /\ leftover' = leftover \cup {mine[p]}
          /\ mine' = [mine EXCEPT ![p] = NoSocket]
          /\ Goes(p, "down")
    /\ UNCHANGED <<names, made, owner, private, inode, forStop, id,
                   abandoned, retained, moved, served, targeted>>

(* os.Chmod, validateSocket and socketIdentity go by the name, too.        *)
Chmod(p) ==
    /\ pc[p] = "chmod"
    /\ \/ Goes(p, "abort") /\ UNCHANGED private
       \/ entry # NoSocket /\ Goes(p, "validate") /\ private' = private \cup {entry}
    /\ UNCHANGED <<names, made, life, owner, inode, forStop, id, mine, history>>

SelfValidate(p) ==
    /\ pc[p] = "validate"
    /\ Goes(p, "abort") \/ (entry \in private /\ Goes(p, "own"))
    /\ UNCHANGED <<names, sockets, forStop, id, mine, history>>

SelfIdentify(p) ==
    /\ pc[p] = "own"
    /\ \/ Goes(p, "abort") /\ UNCHANGED <<id, served>>
       \/ /\ entry # NoSocket
          /\ id' = [id EXCEPT ![p] = entry]
          /\ served' = served \cup {mine[p]}
          /\ Goes(p, "serving")
    /\ UNCHANGED <<names, sockets, forStop, mine, abandoned, retained,
                   leftover, moved, targeted>>

(* mutant: an error path forgets to close the listener.                    *)
AbortOpen(p) ==
    /\ pc[p] = "abort"
    /\ Goes(p, "unlink")
    /\ UNCHANGED <<names, sockets, forStop, id, mine, history>>

(* The error paths: close the listener, then os.Remove the endpoint,       *)
(* whatever the name refers to by then, and whether or not that succeeds.  *)
AbortClose(p) ==
    /\ pc[p] = "abort"
    /\ life' = [life EXCEPT ![mine[p]] = "closed"]
    /\ Goes(p, "unlink")
    /\ UNCHANGED <<names, made, owner, private, inode, forStop, id, mine, history>>

AbortUnlink(p) ==
    /\ pc[p] = "unlink"
    /\ \/ entry' = NoSocket /\ UNCHANGED leftover
       \/ leftover' = leftover \cup {mine[p]} /\ UNCHANGED entry
    /\ mine' = [mine EXCEPT ![p] = NoSocket]
    /\ Goes(p, "down")
    /\ UNCHANGED <<aside, debris, sockets, forStop, id, abandoned, retained,
                   moved, served, targeted>>

-----------------------------------------------------------------------------
(* mutant: Stop closes the listener and does not call cleanup.             *)
StopCloseOnly(p) ==
    /\ pc[p] \in {"serving", "failed"}
    /\ Undisturbed(p)
    /\ life' = [life EXCEPT ![mine[p]] = "closed"]
    /\ mine' = [mine EXCEPT ![p] = NoSocket]
    /\ Goes(p, "down")
    /\ UNCHANGED <<names, made, owner, private, inode, forStop, id, history>>

(* Server.Stop closes the listener, which leaves the name alone, and calls *)
(* cleanup; a Stop after a failed cleanup calls it again, whoever has the  *)
(* endpoint by then.                                                       *)
StopClose(p) ==
    /\ pc[p] \in {"serving", "failed"}
    /\ Undisturbed(p)
    /\ life' = [life EXCEPT ![mine[p]] = "closed"]
    /\ forStop' = forStop \cup {p}
    /\ targeted' = targeted \cup ({entry} \ {NoSocket, mine[p]})
    /\ Goes(p, "rename")
    /\ UNCHANGED <<names, made, owner, private, inode, id, mine,
                   abandoned, retained, leftover, moved, served>>

(* The process dies; names stay.                                           *)
Crash(p) ==
    /\ pc[p] # "down"
    /\ Goes(p, "down")
    /\ life' = [s \in Sockets |-> IF s = mine[p] THEN "closed" ELSE life[s]]
    /\ abandoned' = abandoned \cup ({mine[p], aside[p]} \ {NoSocket})
    /\ debris' = debris \cup ({aside[p]} \ {NoSocket})
    /\ aside' = [aside EXCEPT ![p] = NoSocket]
    /\ mine' = [mine EXCEPT ![p] = NoSocket]
    /\ forStop' = forStop \ {p}
    /\ UNCHANGED <<entry, made, owner, private, inode, id, retained, leftover,
                   moved, served, targeted>>

(* A stranger renames or removes the socket, at any moment, and binds one  *)
(* of its own whenever the name is free after that.                        *)
StrangerMoves ==
    /\ entry # NoSocket
    /\ Cardinality(moved) < MaxMoves
    /\ moved' = moved \cup {entry}
    /\ entry' = NoSocket
    /\ debris' \in {debris, debris \cup {entry}}
    /\ UNCHANGED <<aside, sockets, pc, forStop, id, mine, abandoned, retained,
                   leftover, served, targeted>>

StrangerBinds ==
    /\ moved # {}
    /\ \E s \in Sockets, mode \in BOOLEAN : Bound(s, Stranger, "listening", mode)
    /\ UNCHANGED <<aside, debris, pc, forStop, id, mine, history>>

ProcStep(p) ==
    \/ StartValidate(p)
    \/ Identify(p)
    \/ Dial(p)
    \/ Rename(p)
    \/ Compare(p)
    \/ RestoreCheck(p)
    \/ Restore(p)
    \/ Bind(p)
    \/ Listen(p)
    \/ Chmod(p)
    \/ SelfValidate(p)
    \/ SelfIdentify(p)
    \/ AbortClose(p)
    \/ AbortUnlink(p)
    \/ StopClose(p)

Next ==
    \/ \E p \in Procs : ProcStep(p) \/ Crash(p)
    \/ StrangerMoves
    \/ StrangerBinds

Spec == Init /\ [][Next]_vars

-----------------------------------------------------------------------------
(* A started gateway can be reached until its Stop: its socket is the one  *)
(* at the endpoint, listening and private (gateway_unix_test.go,           *)
(* TestGatewayDoesNotDisplaceActiveEndpoint).  No other gateway's start,   *)
(* refused or not, and no cleanup displaces it, as long as no stranger     *)
(* meddles and no gateway whose cleanup has failed is stopped again once   *)
(* the endpoint is somebody else's.                                        *)
ActiveNotDisplaced ==
    \A p \in Procs :
        pc[p] = "serving" /\ moved = {} /\ mine[p] \notin targeted =>
           /\ entry = mine[p]
           /\ life[entry] = "listening"
           /\ entry \in private

(* p's Start went on with the stranger's socket s: it is about to remove   *)
(* it on an error path, or has read its identity for that of its own.      *)
TakenForOwn(p, s) ==
    mine[p] \in moved /\ (pc[p] = "unlink" \/ id[p] = s)

(* p expects to remove a socket that is gone, and s has its inode number.  *)
InodeReused(p, s) ==
    pc[p] = "compare" /\ ~Linked(id[p]) /\ inode[s] = inode[id[p]]

(* A stranger's socket in use loses its last name in two cases only: it    *)
(* replaced the gateway's own socket before Start had its identity, or it  *)
(* has got the inode number of the removed socket that Start or Stop had   *)
(* identified.  Neither a Stop that finds another identity nor putting a   *)
(* socket back ever loses one (TestGatewayStopDoesNotUnlinkReplacement-    *)
(* Socket).                                                                *)
StrangersKept ==
    [][\A s \in Sockets :
          /\ life[s] = "listening" /\ owner[s] = Stranger
          /\ Linked(s) /\ ~Linked(s)' /\ s \notin moved'
          => \E p \in Procs : TakenForOwn(p, s) \/ InodeReused(p, s)]_vars

(* A gateway that stopped in order leaves no name behind.  A dead socket   *)
(* at the endpoint is still being cleaned up by its gateway, is left by a  *)
(* crash, or by a failed Start that could not remove it; one under another *)
(* name is left by a crash, was moved there by a stranger, or an error has *)
(* reported it, although the Stop repeated after that error succeeds.      *)
LeftoversAreKnown ==
    \A s \in Sockets : life[s] = "closed" =>
        /\ s = entry => s \in abandoned \cup leftover \/ \E p \in Procs : mine[p] = s
        /\ s \in debris => s \in abandoned \cup moved \cup retained

(* What gateways leave at the endpoint when none of them runs is dead and, *)
(* if its gateway ever started, private, so the next Start may take it     *)
(* over: only a Start that ended between bind and chmod, by a crash or by  *)
(* a failure it could not clean up, leaves one that Starts refuse.         *)
LeftoverIsRemovable ==
    /\ \A p \in Procs : pc[p] \in {"down", "failed"}
    /\ entry # NoSocket /\ owner[entry] # Stranger
    => life[entry] = "closed" /\ (entry \in served => entry \in private)

=============================================================================
