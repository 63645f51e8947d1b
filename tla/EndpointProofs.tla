--------------------------- MODULE EndpointProofs ---------------------------
(***************************************************************************)
(* The safety of the gateway's Unix socket: first of gateways that do not  *)
(* start or stop at the same time, beside strangers and crashes, then of   *)
(* the process lock, which makes sure that they do not.  All of it is for  *)
(* any number of gateways, sockets, inode numbers, crashes and failing     *)
(* system calls, any umask, and for strangers that meddle at any moment    *)
(* and any number of times.                                                *)
(***************************************************************************)
EXTENDS LockedEndpoint, TLAPS

(* A gateway is inside listenLocal or cleanup.                             *)
Busy(p) == pc[p] \notin {"down", "serving", "failed"}

OneBusy == \A p, q \in Procs : Busy(p) /\ Busy(q) => p = q

(* A socket that has not been bound has left no trace.                     *)
Born ==
    /\ \A s \in Sockets : s <= made <=> life[s] # "none"
    /\ \A s \in Sockets : life[s] = "none" =>
          /\ owner[s] = Stranger
          /\ ~Linked(s)
          /\ s \notin served
    /\ \A p \in Procs :
          /\ mine[p] # NoSocket => life[mine[p]] # "none"
          /\ id[p] # NoSocket => life[id[p]] # "none"

(* What the kernel keeps the inode number of.                              *)
Held(s) == Linked(s) \/ life[s] \in {"bound", "listening"}

InodesUnique ==
    \A s, t \in Sockets : Held(s) /\ Held(t) /\ inode[s] = inode[t] => s = t

(* A gateway knows the sockets of its own that it has not closed.          *)
Owned ==
    /\ \A p \in Procs : mine[p] # NoSocket => owner[mine[p]] = p
    /\ \A s \in Sockets :
          owner[s] # Stranger /\ life[s] \in {"bound", "listening"}
             => mine[owner[s]] = s

(* The endpoint, or a quarantine name that is being used, refers to it.    *)
InPlay(s) == s = entry \/ \E p \in Procs : aside[p] = s

Accounted(s) ==
    s \in abandoned \cup leftover \/ \E p \in Procs : mine[p] = s

NamedOnce ==
    /\ entry # NoSocket => \A p \in Procs : aside[p] # entry
    /\ debris \subseteq abandoned \cup moved \cup retained
    /\ \A s \in Sockets : InPlay(s) =>
          /\ life[s] = "closed" => Accounted(s)
          /\ s \in served => s \in private

SocketsInv == Born /\ InodesUnique /\ Owned /\ NamedOnce

StrangerLive(s) == owner[s] = Stranger /\ life[s] = "listening"

(* Start expects a socket it has found dead; its own keeps its name unless *)
(* a stranger moves it.                                                    *)
Starting(p) ==
    /\ pc[p] \in {"down", "identify", "dial", "bind"} => mine[p] = NoSocket
    /\ pc[p] \in {"rename", "compare", "check", "restore"} /\ p \notin forStop =>
          mine[p] = NoSocket /\ id[p] # NoSocket /\ life[id[p]] # "listening"
    /\ pc[p] = "dial" =>
          /\ id[p] # NoSocket
          /\ entry \in {NoSocket, id[p]} \/ StrangerLive(entry)
    /\ pc[p] \in {"compare", "check", "restore"} =>
          entry = NoSocket \/ StrangerLive(entry)
    /\ pc[p] \in {"listen", "chmod", "validate", "own", "abort", "unlink"} =>
          mine[p] # NoSocket /\ (entry = mine[p] \/ mine[p] \in moved)
    /\ pc[p] = "listen" => life[mine[p]] = "bound"
    /\ pc[p] \in {"chmod", "validate", "own", "serving"} =>
          life[mine[p]] = "listening"
    /\ pc[p] = "own" /\ entry = mine[p] => entry \in private

(* Stop has the identity of the own socket, or of what replaced it.        *)
Stopping(p) ==
    /\ p \in forStop => pc[p] \in {"rename", "compare", "check", "restore"}
    /\ p \in forStop \/ pc[p] \in {"serving", "failed"} =>
          /\ mine[p] # NoSocket /\ id[p] # NoSocket
          /\ id[p] = mine[p] \/ mine[p] \in moved
    /\ p \in forStop \/ pc[p] \in {"unlink", "failed"} => life[mine[p]] = "closed"

(* As long as no stranger has meddled, a gateway that serves has the       *)
(* endpoint unless the Stop of another one began there.                    *)
Unmoved(p) ==
    moved = {} =>
       /\ pc[p] = "serving" /\ mine[p] \notin targeted =>
             entry = mine[p] /\ entry \in private
       /\ pc[p] = "rename" /\ entry # NoSocket =>
             IF p \in forStop THEN entry = mine[p] \/ entry \in targeted
                              ELSE life[entry] # "listening"

Here(p) == Starting(p) /\ Stopping(p) /\ Unmoved(p)

UnixInv ==
    /\ TypeOK
    /\ OneBusy
    /\ SocketsInv
    /\ \A p \in Procs : Here(p)

(* Nobody has started yet.                                                 *)
LEMMA UnixStarts == Init => UnixInv
<1> SUFFICES ASSUME Init PROVE UnixInv
  OBVIOUS
<1> USE SocketsAssumption, InodesAssumption DEF Init, NoSocket, Sockets
<1>1. TypeOK
  BY DEF TypeOK
<1>2. OneBusy
  BY DEF OneBusy, Busy
<1>3. SocketsInv
  BY DEF SocketsInv, Born, InodesUnique, Owned, NamedOnce, Held, Linked, InPlay
<1>4. \A p \in Procs : Here(p)
  BY DEF Here, Starting, Stopping, Unmoved
<1> QED
  BY <1>1, <1>2, <1>3, <1>4 DEF UnixInv

(* The types, and which places change.                                     *)
LEMMA BoundTyped ==
  ASSUME TypeOK, NEW s \in Sockets, NEW who \in Procs \cup {Stranger},
         NEW state \in {"bound", "listening"}, NEW mode,
         Bound(s, who, state, mode)
  PROVE  /\ entry' \in Sockets \cup {NoSocket}
         /\ made' \in 0 .. MaxSockets
         /\ life' \in [Sockets -> {"none", "bound", "listening", "closed"}]
         /\ owner' \in [Sockets -> Procs \cup {Stranger}]
         /\ private' \subseteq Sockets
         /\ inode' \in [Sockets -> Inodes \cup {NoInode}]
BY SocketsAssumption DEF TypeOK, Bound, FreeInodes, Sockets

(* What was moved aside keeps its name: a step of four actions.            *)
LEMMA RetainTyped ==
  ASSUME TypeOK, NEW p \in Procs, pc[p] \in {"compare", "check", "restore"},
         Retain(p),
         UNCHANGED <<sockets, id, abandoned, leftover, moved, served, targeted>>
  PROVE  TypeOK'
<1> USE DEF TypeOK, sockets
<1>1. aside[p] \in Sockets
  BY DEF NoSocket
<1>2. \E place \in {"failed", "down"} : pc' = [pc EXCEPT ![p] = place]
  BY DEF Retain, NotRemoved, Goes
<1>3. /\ aside' = [aside EXCEPT ![p] = NoSocket] /\ entry' = entry
      /\ forStop' = forStop \ {p} /\ mine' = mine
      /\ debris' \subseteq Sockets /\ retained' \subseteq Sockets
  BY <1>1 DEF Retain, NotRemoved
<1> QED
  BY <1>2, <1>3

(* Every step keeps the types.                                             *)
LEMMA UnixTyped == UnixInv /\ [Next]_vars => TypeOK'
<1> SUFFICES ASSUME UnixInv, [Next]_vars PROVE TypeOK'
  OBVIOUS
<1>0. /\ TypeOK
      /\ \A p \in Procs : pc[p] \in {"listen", "own", "unlink"} => mine[p] # NoSocket
  BY DEF UnixInv, Here, Starting
<1> USE <1>0, SocketsAssumption, InodesAssumption
<1> USE DEF TypeOK, names, sockets, history, Goes, Removed, NotRemoved,
            NoSocket, Sockets
<1>1. ASSUME NEW p \in Procs,
             StartValidate(p) \/ Dial(p) \/ Chmod(p) \/ SelfValidate(p)
      PROVE  TypeOK'
  <2>1. CASE StartValidate(p)
    BY <2>1 DEF StartValidate
  <2>2. CASE Dial(p)
    BY <2>2 DEF Dial
  <2>3. CASE Chmod(p)
    BY <2>3 DEF Chmod
  <2>4. CASE SelfValidate(p)
    BY <2>4 DEF SelfValidate
  <2> QED
    BY <1>1, <2>1, <2>2, <2>3, <2>4
<1>2. ASSUME NEW p \in Procs, Identify(p) \/ SelfIdentify(p) PROVE TypeOK'
  <2>1. id' \in [Procs -> Sockets \cup {NoSocket}]
    BY <1>2 DEF Identify, SelfIdentify
  <2>2. \E place \in {"down", "dial", "abort", "serving"} :
           pc[p] \in {"identify", "own"} /\ pc' = [pc EXCEPT ![p] = place]
    BY <1>2 DEF Identify, SelfIdentify
  <2>3. UNCHANGED <<names, sockets, forStop, mine, abandoned, retained,
                    leftover, moved, targeted>>
    BY <1>2 DEF Identify, SelfIdentify
  <2>4. served' \subseteq Sockets
    BY <1>2 DEF Identify, SelfIdentify
  <2> QED
    BY <2>1, <2>2, <2>3, <2>4
<1>3. ASSUME NEW p \in Procs, Rename(p) PROVE TypeOK'
  <2>1. CASE (Removed(p) \/ NotRemoved(p)) /\ UNCHANGED <<entry, aside>>
    BY <1>3, <2>1 DEF Rename
  <2>2. CASE /\ entry # NoSocket
             /\ aside' = [aside EXCEPT ![p] = entry]
             /\ entry' = NoSocket
             /\ Goes(p, "compare")
             /\ UNCHANGED <<forStop, mine>>
    BY <1>3, <2>2 DEF Rename
  <2> QED
    BY <1>3, <2>1, <2>2 DEF Rename
<1>4. ASSUME NEW p \in Procs, Compare(p) PROVE TypeOK'
  <2>1. CASE /\ aside' = [aside EXCEPT ![p] = NoSocket] /\ Removed(p)
             /\ UNCHANGED <<entry, debris, retained>>
    BY <1>4, <2>1 DEF Compare
  <2>2. CASE Goes(p, "check") /\ UNCHANGED <<names, forStop, mine, retained>>
    BY <1>4, <2>2 DEF Compare
  <2>3. CASE Retain(p)
    BY <1>4, <2>3, RetainTyped DEF Compare
  <2> QED
    BY <1>4, <2>1, <2>2, <2>3 DEF Compare
<1>5. ASSUME NEW p \in Procs, RestoreCheck(p) PROVE TypeOK'
  <2>1. CASE Retain(p)
    BY <1>5, <2>1, RetainTyped DEF RestoreCheck
  <2>2. CASE Goes(p, "restore") /\ UNCHANGED <<names, forStop, mine, retained>>
    BY <1>5, <2>2 DEF RestoreCheck
  <2> QED
    BY <1>5, <2>1, <2>2 DEF RestoreCheck
<1>6. ASSUME NEW p \in Procs, Restore(p) PROVE TypeOK'
  <2>1. CASE Retain(p)
    BY <1>6, <2>1, RetainTyped DEF Restore
  <2>2. CASE /\ entry' = aside[p]
             /\ aside' = [aside EXCEPT ![p] = NoSocket]
             /\ NotRemoved(p)
             /\ UNCHANGED <<debris, retained>>
    BY <1>6, <2>2 DEF Restore
  <2> QED
    BY <1>6, <2>1, <2>2 DEF Restore
<1>7. ASSUME NEW p \in Procs, Bind(p) PROVE TypeOK'
  <2>1. CASE Goes(p, "down") /\ UNCHANGED <<entry, sockets, mine>>
    BY <1>7, <2>1 DEF Bind
  <2>2. ASSUME NEW s \in Sockets, Bound(s, p, "bound", PrivateUmask),
               mine' = [mine EXCEPT ![p] = s], pc' = [pc EXCEPT ![p] = "listen"]
        PROVE  TypeOK'
    BY <1>7, <2>2, BoundTyped DEF Bind
  <2> QED
    BY <1>7, <2>1, <2>2 DEF Bind
<1>8. ASSUME NEW p \in Procs, Listen(p) PROVE TypeOK'
  <2>1. mine[p] \in Sockets /\ pc[p] = "listen"
    BY <1>8 DEF Listen
  <2>2. CASE /\ life' = [life EXCEPT ![mine[p]] = "listening"]
             /\ Goes(p, "chmod")
             /\ UNCHANGED <<mine, leftover>>
    BY <1>8, <2>1, <2>2 DEF Listen
  <2>3. CASE /\ life' = [life EXCEPT ![mine[p]] = "closed"]
             /\ leftover' = leftover \cup {mine[p]}
             /\ mine' = [mine EXCEPT ![p] = NoSocket]
             /\ Goes(p, "down")
    BY <1>8, <2>1, <2>3 DEF Listen
  <2> QED
    BY <1>8, <2>2, <2>3 DEF Listen
<1>9. ASSUME NEW p \in Procs, AbortClose(p) \/ StopClose(p) PROVE TypeOK'
  <2>1. CASE AbortClose(p)
    BY <2>1 DEF AbortClose
  <2>2. CASE StopClose(p)
    <3>1. targeted' \subseteq Sockets /\ forStop' \subseteq Procs
      <4>1. /\ targeted' = targeted \cup ({entry} \ {NoSocket, mine[p]})
            /\ forStop' = forStop \cup {p}
        BY <2>2 DEF StopClose
      <4>2. targeted \subseteq Sockets /\ entry \in Sockets \cup {NoSocket}
        OBVIOUS
      <4> QED
        BY <4>1, <4>2
    <3>2. pc[p] \in {"serving", "failed"} /\ pc' = [pc EXCEPT ![p] = "rename"]
      BY <2>2 DEF StopClose
    <3>3. life' = [life EXCEPT ![mine[p]] = "closed"]
      BY <2>2 DEF StopClose
    <3>4. UNCHANGED <<names, made, owner, private, inode, id, mine,
                      abandoned, retained, leftover, moved, served>>
      BY <2>2 DEF StopClose
    <3>5. life' \in [Sockets -> {"none", "bound", "listening", "closed"}]
      BY <3>3
    <3>6. \A q \in Procs :
             aside'[q] # NoSocket <=> pc'[q] \in {"compare", "check", "restore"}
      BY <3>2, <3>4
    <3> QED
      BY <3>1, <3>2, <3>4, <3>5, <3>6
  <2> QED
    BY <1>9, <2>1, <2>2
<1>10. ASSUME NEW p \in Procs, AbortUnlink(p) PROVE TypeOK'
  BY <1>10 DEF AbortUnlink
<1>11. ASSUME NEW p \in Procs, Crash(p) PROVE TypeOK'
  <2>1. life' \in [Sockets -> {"none", "bound", "listening", "closed"}]
    BY <1>11 DEF Crash
  <2>2. abandoned' \subseteq Sockets /\ debris' \subseteq Sockets
    BY <1>11 DEF Crash
  <2>3. aside' = [aside EXCEPT ![p] = NoSocket] /\ mine' = [mine EXCEPT ![p] = NoSocket]
    BY <1>11 DEF Crash
  <2>4. /\ pc' = [pc EXCEPT ![p] = "down"] /\ forStop' = forStop \ {p}
        /\ UNCHANGED <<entry, made, owner, private, inode, id, retained,
                       leftover, moved, served, targeted>>
    BY <1>11 DEF Crash
  <2> QED
    BY <2>1, <2>2, <2>3, <2>4
<1>12. CASE StrangerMoves
  BY <1>12 DEF StrangerMoves
<1>13. CASE StrangerBinds
  BY <1>13, BoundTyped DEF StrangerBinds
<1>14. CASE UNCHANGED vars
  BY <1>14 DEF vars
<1> QED
  BY <1>1, <1>2, <1>3, <1>4, <1>5, <1>6, <1>7, <1>8, <1>9, <1>10, <1>11,
     <1>12, <1>13, <1>14 DEF Next, ProcStep

(* A step of one gateway leaves the place of every other alone.            *)
LEMMA OtherGateways ==
    ASSUME DOMAIN pc = Procs, NEW p \in Procs, ProcStep(p)
    PROVE  /\ DOMAIN pc' = Procs
           /\ \A q \in Procs \ {p} : pc'[q] = pc[q]
<1> USE DEF Goes, Removed, NotRemoved, Retain
<1>1. CASE StartValidate(p) \/ Identify(p) \/ Dial(p)
  BY <1>1 DEF StartValidate, Identify, Dial
<1>2. CASE Rename(p) \/ Compare(p)
  BY <1>2 DEF Rename, Compare
<1>3. CASE RestoreCheck(p) \/ Restore(p)
  BY <1>3 DEF RestoreCheck, Restore
<1>4. CASE Bind(p) \/ Listen(p) \/ Chmod(p)
  BY <1>4 DEF Bind, Listen, Chmod
<1>5. CASE SelfValidate(p) \/ SelfIdentify(p)
  BY <1>5 DEF SelfValidate, SelfIdentify
<1>6. CASE AbortClose(p) \/ AbortUnlink(p) \/ StopClose(p)
  BY <1>6 DEF AbortClose, AbortUnlink, StopClose
<1> QED
  BY <1>1, <1>2, <1>3, <1>4, <1>5, <1>6 DEF ProcStep

(* Without overlap, a gateway that takes a step is the only one in         *)
(* listenLocal or cleanup; the others use no quarantine name.              *)
Alone(p) ==
    \A q \in Procs \ {p} :
       ~Busy(q) /\ aside[q] = NoSocket /\ q \notin forStop

(* Its guard says so, or it has been alone since it began.                 *)
LEMMA MoverAlone ==
  ASSUME Overlap = FALSE, UnixInv, NEW p \in Procs, ProcStep(p)
  PROVE  Alone(p)
<1>1. ASSUME NEW q \in Procs \ {p} PROVE ~Busy(q)
  <2>1. CASE Busy(p)
    BY <2>1 DEF UnixInv, OneBusy
  <2>2. CASE StartValidate(p) \/ StopClose(p)
    BY <1>1, <2>2 DEF StartValidate, StopClose, Undisturbed, Busy
  <2> QED
    BY <2>1, <2>2 DEF ProcStep, Busy, Identify, Dial, Rename, Compare,
       RestoreCheck, Restore, Bind, Listen, Chmod, SelfValidate,
       SelfIdentify, AbortClose, AbortUnlink
<1> QED
  BY <1>1 DEF Alone, UnixInv, TypeOK, Here, Stopping, Busy

(* No step makes a second gateway busy.                                    *)
LEMMA OneBusyKept ==
  ASSUME Overlap = FALSE, UnixInv, [Next]_vars
  PROVE  OneBusy'
<1> USE DEF OneBusy, Busy
<1>1. ASSUME NEW p \in Procs, ProcStep(p) PROVE OneBusy'
  <2>1. \A q \in Procs \ {p} : ~Busy(q)
    BY <1>1, MoverAlone DEF Alone
  <2>2. \A q \in Procs \ {p} : pc'[q] = pc[q]
    BY <1>1, OtherGateways DEF UnixInv, TypeOK
  <2> QED
    BY <2>1, <2>2
<1>2. ASSUME NEW p \in Procs, Crash(p) PROVE OneBusy'
  BY <1>2 DEF Crash, Goes, UnixInv, TypeOK
<1>3. CASE StrangerMoves \/ StrangerBinds \/ UNCHANGED vars
  BY <1>3 DEF StrangerMoves, StrangerBinds, vars, UnixInv
<1> QED
  BY <1>1, <1>2, <1>3 DEF Next

(* What UnixInv says beyond the types and the places.                      *)
Rest == SocketsInv /\ \A p \in Procs : Here(p)

(* Two gateways do not have the same socket.                               *)
LEMMA OwnSockets ==
  ASSUME UnixInv, NEW p \in Procs, NEW q \in Procs, p # q, mine[p] # NoSocket
  PROVE  mine[p] # mine[q]
BY DEF UnixInv, SocketsInv, Owned

(* A gateway that does not start or stop while another one takes a step.   *)
LEMMA OthersKeep ==
  ASSUME UnixInv, NEW q \in Procs, ~Busy(q), q \notin forStop',
         UNCHANGED <<pc[q], mine[q], id[q]>>,
         mine[q] # NoSocket => life'[mine[q]] = life[mine[q]],
         moved \subseteq moved', private \subseteq private',
         targeted \subseteq targeted',
         moved = {} /\ pc[q] = "serving" /\ mine[q] \notin targeted'
            => entry' = entry
  PROVE  Here(q)'
<1> USE DEF UnixInv, Here, Busy
<1>1. Starting(q)'
  BY DEF Starting, Stopping, TypeOK
<1>2. Stopping(q)'
  BY DEF Stopping, TypeOK
<1>3. Unmoved(q)'
  BY DEF Unmoved, TypeOK
<1> QED
  BY <1>1, <1>2, <1>3

(* A step that only changes where a gateway is and what it expects.        *)
LEMMA Quiet ==
  ASSUME UnixInv, NEW p \in Procs,
         UNCHANGED <<names, sockets, mine, forStop, history>>,
         pc' = [pc EXCEPT ![p] = pc'[p]], id' = [id EXCEPT ![p] = id'[p]],
         id'[p] \in {id[p], entry},
         Here(p)'
  PROVE  Rest'
<1> USE DEF names, sockets, history
<1>1. \A s \in Sockets : Linked(s)' <=> Linked(s)
  BY DEF Linked
<1>2. Born'
  <2>1. entry # NoSocket => life[entry] # "none"
    BY DEF UnixInv, TypeOK, SocketsInv, Born, Linked
  <2>2. \A q \in Procs : id'[q] # NoSocket => life'[id'[q]] # "none"
    BY <2>1 DEF UnixInv, TypeOK, SocketsInv, Born
  <2> QED
    BY <1>1, <2>2 DEF UnixInv, SocketsInv, Born
<1>3. InodesUnique' /\ Owned' /\ NamedOnce'
  BY <1>1 DEF UnixInv, SocketsInv, InodesUnique, Owned, NamedOnce, Held, InPlay,
     Accounted
<1>4. ASSUME NEW q \in Procs \ {p} PROVE Here(q)'
  <2>1. pc'[q] = pc[q] /\ id'[q] = id[q]
    BY DEF UnixInv, TypeOK
  <2> QED
    BY <2>1 DEF UnixInv, Here, Starting, Stopping, Unmoved, StrangerLive
<1> QED
  BY <1>2, <1>3, <1>4 DEF Rest, SocketsInv

(* validateSocket, socketIdentity and the dial.                            *)
LEMMA LookingSteps ==
  ASSUME UnixInv, NEW p \in Procs,
         StartValidate(p) \/ Identify(p) \/ Dial(p) \/ SelfValidate(p)
  PROVE  Rest'
<1> USE DEF Goes, UnixInv, TypeOK, Here
<1>1. CASE StartValidate(p)
  <2>1. Here(p)'
    BY <1>1 DEF StartValidate, Starting, Stopping, Unmoved, names, sockets,
       history, StrangerLive
  <2> QED
    BY <1>1, <2>1, Quiet DEF StartValidate
<1>2. CASE Identify(p)
  <2>1. Here(p)'
    BY <1>2 DEF Identify, Starting, Stopping, Unmoved, names, sockets, history,
       StrangerLive
  <2> QED
    BY <1>2, <2>1, Quiet DEF Identify
<1>3. CASE Dial(p)
  <2>1. Here(p)'
    BY <1>3 DEF Dial, Starting, Stopping, Unmoved, names, sockets, history,
       StrangerLive
  <2> QED
    BY <1>3, <2>1, Quiet DEF Dial
<1>4. CASE SelfValidate(p)
  <2>1. Here(p)'
    BY <1>4 DEF SelfValidate, Starting, Stopping, Unmoved, names, sockets,
       history, StrangerLive
  <2> QED
    BY <1>4, <2>1, Quiet DEF SelfValidate
<1> QED
  BY <1>1, <1>2, <1>3, <1>4

(* The gateway serves: if the endpoint is its own socket, that is private; *)
(* otherwise its socket never gets the name back.                          *)
LEMMA SelfIdentifyStep ==
  ASSUME UnixInv, NEW p \in Procs, SelfIdentify(p), Alone(p)
  PROVE  Rest'
<1> USE DEF UnixInv, TypeOK, Here, SelfIdentify, Goes, names, sockets
<1>1. CASE Goes(p, "abort") /\ UNCHANGED <<id, served>>
  <2>1. Here(p)'
    BY <1>1 DEF Starting, Stopping, Unmoved, StrangerLive
  <2> QED
    BY <1>1, <2>1, Quiet DEF history
<1>2. CASE /\ entry # NoSocket
           /\ id' = [id EXCEPT ![p] = entry]
           /\ served' = served \cup {mine[p]}
           /\ Goes(p, "serving")
  <2>1. \A s \in Sockets : (Linked(s)' <=> Linked(s)) /\ (InPlay(s)' <=> InPlay(s))
    BY DEF Linked, InPlay
  <2>2. mine[p] # NoSocket /\ life[mine[p]] = "listening"
    BY DEF Starting
  <2>3. Born'
    <3>1. life[entry] # "none"
      BY <1>2 DEF SocketsInv, Born, Linked
    <3> QED
      BY <1>2, <2>1, <2>2, <3>1 DEF SocketsInv, Born
  <2>4. InodesUnique' /\ Owned'
    BY <2>1 DEF SocketsInv, InodesUnique, Owned, Held
  <2>5. InPlay(mine[p]) => mine[p] \in private
    <3>1. \A q \in Procs : aside[q] = NoSocket
      BY DEF Alone
    <3> QED
      BY <2>2, <3>1 DEF InPlay, Starting
  <2>6. NamedOnce'
    BY <1>2, <2>1, <2>5 DEF SocketsInv, NamedOnce, Accounted
  <2>7. Here(p)'
    BY <1>2, <2>2 DEF Starting, Stopping, Unmoved
  <2>8. ASSUME NEW q \in Procs \ {p} PROVE Here(q)'
    BY <1>2, OthersKeep DEF Alone
  <2> QED
    BY <2>3, <2>4, <2>6, <2>7, <2>8 DEF Rest, SocketsInv
<1> QED
  BY <1>1, <1>2

(* What a rename to or from a quarantine name keeps.                       *)
LEMMA SameSockets ==
  ASSUME UnixInv, UNCHANGED <<sockets, mine, id, served>>,
         \A s \in Sockets : Linked(s)' <=> Linked(s),
         NamedOnce'
  PROVE  SocketsInv'
BY DEF sockets, UnixInv, SocketsInv, Born, InodesUnique, Owned, Held

(* removeOwnedSocket forgets the own socket: it is dead and not the one at *)
(* the endpoint.                                                           *)
LEMMA Forgets ==
  ASSUME UnixInv, NEW p \in Procs, mine' = [mine EXCEPT ![p] = NoSocket],
         UNCHANGED <<life, owner>>,
         mine[p] # NoSocket => life[mine[p]] = "closed"
  PROVE  Owned'
BY DEF UnixInv, TypeOK, SocketsInv, Owned

(* removeOwnedSocket ends without having renamed or removed anything.      *)
LEMMA Unremoved ==
  ASSUME UnixInv, NEW p \in Procs, Alone(p), pc[p] = "rename",
         Removed(p) \/ NotRemoved(p), Removed(p) => entry = NoSocket,
         UNCHANGED <<names, sockets, id, history>>
  PROVE  Rest'
<1> USE DEF UnixInv, TypeOK, Here, Goes, names, sockets, history
<1>1. \A s \in Sockets : (Linked(s)' <=> Linked(s)) /\ (InPlay(s)' <=> InPlay(s))
  BY DEF Linked, InPlay
<1>2. mine[p] # NoSocket => p \in forStop /\ life[mine[p]] = "closed"
  BY DEF Starting, Stopping
<1>3. \/ mine' = mine
      \/ entry = NoSocket /\ mine' = [mine EXCEPT ![p] = NoSocket]
  BY DEF Removed, NotRemoved
<1>4. Born' /\ InodesUnique'
  BY <1>1, <1>3 DEF SocketsInv, Born, InodesUnique, Held
<1>5. Owned'
  BY <1>2, <1>3, Forgets DEF SocketsInv, Owned
<1>6. NamedOnce'
  <2>1. CASE mine' = mine
    BY <1>1, <2>1 DEF SocketsInv, NamedOnce, Accounted
  <2>2. CASE entry = NoSocket
    <3>1. \A q \in Procs : aside[q] = NoSocket
      BY DEF Alone
    <3>2. \A s \in Sockets : ~InPlay(s)
      BY <2>2, <3>1, SocketsAssumption DEF InPlay, NoSocket, Sockets
    <3> QED
      BY <1>1, <2>2, <3>2 DEF SocketsInv, NamedOnce
  <2> QED
    BY <1>3, <2>1, <2>2
<1>7. Here(p)'
  BY <1>2 DEF Starting, Stopping, Unmoved, Removed, NotRemoved
<1>8. ASSUME NEW q \in Procs \ {p} PROVE Here(q)'
  BY <1>3, OthersKeep DEF Alone, Removed, NotRemoved
<1> QED
  BY <1>4, <1>5, <1>6, <1>7, <1>8 DEF Rest, SocketsInv

(* The entry becomes the quarantine name, unless it is gone or that fails. *)
LEMMA RenameStep ==
  ASSUME UnixInv, NEW p \in Procs, Rename(p), Alone(p)
  PROVE  Rest'
<1>1. CASE (Removed(p) \/ NotRemoved(p)) /\ pc'[p] # "compare"
  BY <1>1, Unremoved DEF Rename, Removed, NotRemoved, Goes, names, UnixInv, TypeOK
<1>2. CASE /\ entry # NoSocket
           /\ aside' = [aside EXCEPT ![p] = entry]
           /\ entry' = NoSocket
           /\ Goes(p, "compare")
           /\ UNCHANGED <<forStop, mine>>
  <2> USE DEF UnixInv, TypeOK, Here, Rename, Goes, sockets, history
  <2>1. /\ UNCHANGED <<debris, sockets, forStop, id, mine, history>>
        /\ pc' = [pc EXCEPT ![p] = "compare"]
        /\ pc[p] = "rename" /\ aside[p] = NoSocket
    BY <1>2
  <2>2. \A s \in Sockets : (Linked(s)' <=> Linked(s)) /\ (InPlay(s)' => InPlay(s))
    BY <1>2, <2>1, SocketsAssumption DEF Linked, InPlay, NoSocket, Sockets
  <2>3. NamedOnce'
    BY <1>2, <2>1, <2>2 DEF NamedOnce, SocketsInv, Accounted
  <2>4. Here(p)'
    BY <1>2, <2>1 DEF Starting, Stopping, Unmoved
  <2>5. ASSUME NEW q \in Procs \ {p} PROVE Here(q)'
    <3>1. ~(moved = {} /\ pc[q] = "serving" /\ mine[q] \notin targeted)
      <4>1. SUFFICES ASSUME moved = {}, pc[q] = "serving", mine[q] \notin targeted
                     PROVE  FALSE
        OBVIOUS
      <4>2. entry = mine[q] /\ life[entry] = "listening"
        BY <4>1 DEF Unmoved, Starting
      <4>3. p \in forStop => entry = mine[p]
        BY <1>2, <2>1, <4>1, <4>2 DEF Unmoved
      <4>4. p \notin forStop => life[entry] # "listening"
        BY <1>2, <2>1, <4>1 DEF Unmoved
      <4> QED
        BY <1>2, <4>2, <4>3, <4>4, OwnSockets
    <3>2. pc'[q] = pc[q] /\ ~Busy(q) /\ q \notin forStop
      BY <2>1 DEF Alone
    <3> QED
      BY <2>1, <3>1, <3>2, OthersKeep
  <2> QED
    BY <2>1, <2>2, <2>3, <2>4, <2>5, SameSockets DEF Rest
<1> QED
  BY <1>1, <1>2 DEF Rename, Removed, NotRemoved, Goes, UnixInv, TypeOK

(* What was renamed keeps its quarantine name.                             *)
LEMMA RetainStep ==
  ASSUME UnixInv, NEW p \in Procs, Alone(p),
         pc[p] \in {"compare", "check", "restore"}, Retain(p),
         UNCHANGED <<sockets, id, abandoned, leftover, moved, served, targeted>>
  PROVE  Rest'
<1> USE DEF UnixInv, TypeOK, Here, Goes, sockets
<1>1. /\ aside[p] \in Sockets /\ entry' = entry /\ mine' = mine
      /\ debris' = debris \cup {aside[p]}
      /\ retained' = retained \cup {aside[p]}
      /\ aside' = [aside EXCEPT ![p] = NoSocket]
      /\ forStop' = forStop \ {p}
      /\ pc' = [pc EXCEPT ![p] = IF p \in forStop THEN "failed" ELSE "down"]
  BY DEF Retain, NotRemoved
<1>2. \A s \in Sockets : (Linked(s)' <=> Linked(s)) /\ (InPlay(s)' => InPlay(s))
  BY <1>1, SocketsAssumption DEF Linked, InPlay, NoSocket, Sockets
<1>3. NamedOnce'
  BY <1>1, <1>2 DEF NamedOnce, SocketsInv, Accounted
<1>4. Here(p)'
  BY <1>1 DEF Starting, Stopping, Unmoved
<1>5. ASSUME NEW q \in Procs \ {p} PROVE Here(q)'
  BY <1>1, OthersKeep DEF Alone
<1> QED
  BY <1>1, <1>2, <1>3, <1>4, <1>5, SameSockets DEF Rest

(* Its own step of removeOwnedSocket, with every name as it was.           *)
LEMMA NextCheck ==
  ASSUME UnixInv, NEW p \in Procs, NEW place \in {"check", "restore"},
         pc[p] \in {"compare", "check"}, Goes(p, place),
         UNCHANGED <<names, sockets, mine, forStop, id, history>>
  PROVE  Rest'
<1>1. Here(p)'
  BY DEF UnixInv, TypeOK, Here, Starting, Stopping, Unmoved, Goes, names,
     sockets, history, StrangerLive
<1> QED
  BY <1>1, Quiet DEF Goes, UnixInv, TypeOK

(* What has the expected identity goes, the rest will be put back.         *)
LEMMA CompareStep ==
  ASSUME UnixInv, NEW p \in Procs, Compare(p), Alone(p)
  PROVE  Rest'
<1>1. CASE Retain(p)
  BY <1>1, RetainStep DEF Compare
<1>2. CASE Goes(p, "check") /\ UNCHANGED <<names, forStop, mine, retained>>
  BY <1>2, NextCheck DEF Compare, history
<1>3. CASE /\ aside' = [aside EXCEPT ![p] = NoSocket] /\ Removed(p)
           /\ UNCHANGED <<entry, debris, retained>>
  <2> USE DEF UnixInv, TypeOK, Here, Goes, sockets
  <2>1. /\ UNCHANGED <<entry, debris, made, life, owner, inode, private, id,
                        abandoned, retained, leftover, moved, served, targeted>>
        /\ pc[p] = "compare"
        /\ pc' = [pc EXCEPT ![p] = IF p \in forStop THEN "down" ELSE "bind"]
        /\ forStop' = forStop \ {p}
        /\ mine' = [mine EXCEPT ![p] = NoSocket]
        /\ aside' = [aside EXCEPT ![p] = NoSocket]
        /\ aside[p] \in Sockets
    BY <1>3 DEF Compare, Removed
  <2>2. \A s \in Sockets :
           /\ Linked(s)' => Linked(s)
           /\ InPlay(s)' => s = entry
    BY <2>1, SocketsAssumption DEF Linked, InPlay, Alone, NoSocket, Sockets
  <2>3. mine[p] # NoSocket => life[mine[p]] = "closed"
    BY <2>1 DEF Starting, Stopping
  <2>4. entry # NoSocket => life[entry] = "listening"
    BY <2>1 DEF Starting, StrangerLive
  <2>5. Born' /\ InodesUnique'
    BY <2>1, <2>2 DEF SocketsInv, Born, InodesUnique, Held
  <2>6. Owned'
    BY <2>1, <2>3, Forgets
  <2>7. NamedOnce'
    <3>1. \A s \in Sockets : InPlay(s)' => InPlay(s) /\ life'[s] # "closed"
      BY <2>1, <2>2, <2>4, SocketsAssumption DEF InPlay, NoSocket, Sockets
    <3> QED
      BY <2>1, <3>1 DEF SocketsInv, NamedOnce
  <2>8. Here(p)'
    BY <2>1 DEF Starting, Stopping, Unmoved
  <2>9. ASSUME NEW q \in Procs \ {p} PROVE Here(q)'
    BY <2>1, OthersKeep DEF Alone
  <2> QED
    BY <2>5, <2>6, <2>7, <2>8, <2>9 DEF Rest, SocketsInv
<1> QED
  BY <1>1, <1>2, <1>3 DEF Compare

(* What was moved aside comes back or keeps its quarantine name.           *)
LEMMA RestoreSteps ==
  ASSUME UnixInv, NEW p \in Procs, RestoreCheck(p) \/ Restore(p), Alone(p)
  PROVE  Rest'
<1>1. CASE Retain(p)
  BY <1>1, RetainStep DEF RestoreCheck, Restore
<1>2. CASE RestoreCheck(p) /\ ~Retain(p)
  BY <1>2, NextCheck DEF RestoreCheck, history
<1>3. CASE Restore(p) /\ ~Retain(p)
  <2> USE DEF UnixInv, TypeOK, Here, Goes, sockets
  <2>1. /\ UNCHANGED <<debris, made, life, owner, inode, private, id, mine,
                        abandoned, retained, leftover, moved, served, targeted>>
        /\ pc[p] = "restore"
        /\ pc' = [pc EXCEPT ![p] = IF p \in forStop THEN "failed" ELSE "down"]
        /\ forStop' = forStop \ {p}
        /\ aside' = [aside EXCEPT ![p] = NoSocket]
        /\ entry = NoSocket /\ entry' = aside[p] /\ aside[p] \in Sockets
    BY <1>3 DEF Restore, NotRemoved
  <2>2. \A s \in Sockets : (Linked(s)' <=> Linked(s)) /\ (InPlay(s)' => InPlay(s))
    BY <2>1, SocketsAssumption DEF Linked, InPlay, NoSocket, Sockets
  <2>3. NamedOnce'
    BY <2>1, <2>2, SocketsAssumption DEF NamedOnce, SocketsInv, Accounted,
       Alone, NoSocket, Sockets
  <2>4. Here(p)'
    BY <2>1 DEF Starting, Stopping, Unmoved
  <2>5. ASSUME NEW q \in Procs \ {p} PROVE Here(q)'
    <3>1. ~(moved = {} /\ pc[q] = "serving" /\ mine[q] \notin targeted)
      BY <2>1 DEF Unmoved, Stopping
    <3> QED
      BY <2>1, <3>1, OthersKeep DEF Alone
  <2> QED
    BY <2>1, <2>2, <2>3, <2>4, <2>5, SameSockets DEF Rest
<1> QED
  BY <1>1, <1>2, <1>3

(* A new socket takes a free name and a free inode number.                 *)
LEMMA BoundFresh ==
  ASSUME UnixInv, NEW s \in Sockets, NEW who \in Procs \cup {Stranger},
         NEW state \in {"bound", "listening"}, NEW mode,
         Bound(s, who, state, mode)
  PROVE  /\ entry = NoSocket /\ entry' = s /\ s # NoSocket
         /\ life[s] = "none" /\ ~Linked(s) /\ s \notin served
         /\ \A p \in Procs : mine[p] # s /\ id[p] # s
         /\ life' = [life EXCEPT ![s] = state]
         /\ owner' = [owner EXCEPT ![s] = who]
         /\ private \subseteq private' /\ private' \subseteq private \cup {s}
         /\ \A t \in Sockets : t # s /\ Held(t) => inode[t] # inode'[s]
         /\ \A t \in Sockets : t # s => inode'[t] = inode[t]
         /\ made' = made + 1 /\ s = made + 1
<1>1. life[s] = "none" /\ s # NoSocket
  BY SocketsAssumption DEF Bound, UnixInv, TypeOK, SocketsInv, Born, Sockets,
     NoSocket
<1>2. \A p \in Procs : mine[p] # s /\ id[p] # s
  BY <1>1 DEF UnixInv, SocketsInv, Born
<1>3. PICK i \in FreeInodes : inode' = [inode EXCEPT ![s] = i]
  BY DEF Bound
<1>4. \A t \in Sockets : Held(t) => inode[t] # i
  BY <1>3 DEF FreeInodes, Held
<1>5. ~Linked(s) /\ s \notin served
  BY <1>1 DEF UnixInv, SocketsInv, Born
<1> QED
  BY <1>1, <1>2, <1>3, <1>4, <1>5 DEF Bound, UnixInv, TypeOK

(* What binding leaves of the sockets' properties.                         *)
LEMMA BoundKeeps ==
  ASSUME UnixInv, NEW s \in Sockets, NEW who \in Procs \cup {Stranger},
         NEW state \in {"bound", "listening"}, NEW mode,
         Bound(s, who, state, mode),
         UNCHANGED <<aside, debris, forStop, id, history>>,
         \/ who = Stranger /\ mine' = mine
         \/ who \in Procs /\ mine[who] = NoSocket /\ mine' = [mine EXCEPT ![who] = s]
  PROVE  SocketsInv'
<1>1. /\ entry = NoSocket /\ entry' = s /\ s # NoSocket
      /\ life[s] = "none" /\ ~Linked(s) /\ s \notin served
      /\ \A p \in Procs : mine[p] # s /\ id[p] # s
      /\ life' = [life EXCEPT ![s] = state]
      /\ owner' = [owner EXCEPT ![s] = who]
      /\ private \subseteq private' /\ private' \subseteq private \cup {s}
      /\ \A t \in Sockets : t # s /\ Held(t) => inode[t] # inode'[s]
      /\ \A t \in Sockets : t # s => inode'[t] = inode[t]
      /\ made' = made + 1 /\ s = made + 1
  BY BoundFresh
<1> USE DEF UnixInv, TypeOK, history
<1>2. \A t \in Sockets : Linked(t)' <=> Linked(t) \/ t = s
  BY <1>1 DEF Linked, NoSocket, Sockets
<1>3. Born'
  <2>1. \A t \in Sockets : t <= made' <=> t <= made \/ t = s
    BY <1>1, SocketsAssumption DEF Sockets
  <2>2. \A t \in Sockets : life'[t] = "none" =>
           t # s /\ life[t] = "none" /\ owner'[t] = owner[t]
    BY <1>1
  <2>3. \A p \in Procs : mine'[p] \in {mine[p], s} /\ id'[p] = id[p]
    BY <1>1
  <2> QED
    BY <1>1, <1>2, <2>1, <2>2, <2>3 DEF SocketsInv, Born
<1>4. InodesUnique'
  <2>1. \A t \in Sockets : t # s => (Held(t)' <=> Held(t))
    BY <1>1, <1>2 DEF Held
  <2> QED
    BY <1>1, <2>1 DEF SocketsInv, InodesUnique
<1>5. Owned'
  <2>1. ASSUME NEW p \in Procs, mine'[p] # NoSocket PROVE owner'[mine'[p]] = p
    BY <1>1, <2>1 DEF SocketsInv, Owned
  <2>2. ASSUME NEW t \in Sockets, owner'[t] # Stranger,
               life'[t] \in {"bound", "listening"}
        PROVE  mine'[owner'[t]] = t
    <3>1. CASE t = s
      BY <1>1, <2>2, <3>1
    <3>2. CASE t # s
      <4>1. mine[owner[t]] = t /\ owner'[t] = owner[t] /\ owner[t] \in Procs
        BY <1>1, <2>2, <3>2 DEF SocketsInv, Owned
      <4> QED
        BY <1>1, <4>1, SocketsAssumption DEF NoSocket, Sockets
    <3> QED
      BY <3>1, <3>2
  <2> QED
    BY <2>1, <2>2 DEF Owned
<1>6. NamedOnce'
  <2>1. \A t \in Sockets : InPlay(t)' => t = s \/ (t # s /\ InPlay(t))
    BY <1>1 DEF InPlay
  <2>2. \A t \in Sockets : Accounted(t) => Accounted(t)'
    BY <1>1, SocketsAssumption DEF Accounted, NoSocket, Sockets
  <2> QED
    BY <1>1, <2>1, <2>2 DEF SocketsInv, NamedOnce, Linked
<1> QED
  BY <1>3, <1>4, <1>5, <1>6 DEF SocketsInv

(* A gateway's new socket.                                                 *)
LEMMA BindStep ==
  ASSUME UnixInv, NEW p \in Procs, Bind(p), Alone(p)
  PROVE  Rest'
<1> USE DEF UnixInv, TypeOK, Here, Goes, history
<1>1. CASE Goes(p, "down") /\ UNCHANGED <<entry, sockets, mine>>
  <2>1. Here(p)'
    BY <1>1 DEF Bind, Starting, Stopping, Unmoved
  <2> QED
    BY <1>1, <2>1, Quiet DEF Bind, names
<1>2. ASSUME NEW s \in Sockets, Bound(s, p, "bound", PrivateUmask),
             mine' = [mine EXCEPT ![p] = s], pc' = [pc EXCEPT ![p] = "listen"]
      PROVE  Rest'
  <2>1. /\ pc[p] = "bind" /\ mine[p] = NoSocket /\ p \notin forStop
        /\ UNCHANGED <<aside, debris, forStop, id, history>>
    BY <1>2 DEF Bind, Starting, Stopping
  <2>2. SocketsInv'
    BY <1>2, <2>1, BoundKeeps
  <2>3. /\ entry = NoSocket /\ entry' = s /\ s # NoSocket
        /\ \A q \in Procs : mine[q] # s
        /\ life' = [life EXCEPT ![s] = "bound"]
        /\ private \subseteq private'
    BY <1>2, BoundFresh
  <2>4. Here(p)'
    BY <1>2, <2>1, <2>3 DEF Starting, Stopping, Unmoved
  <2>5. ASSUME NEW q \in Procs \ {p} PROVE Here(q)'
    <3>1. /\ pc'[q] = pc[q] /\ ~Busy(q) /\ q \notin forStop /\ mine'[q] = mine[q]
          /\ mine[q] # NoSocket => life'[mine[q]] = life[mine[q]]
      BY <1>2, <2>3 DEF Alone
    <3>2. ~(moved = {} /\ pc[q] = "serving" /\ mine[q] \notin targeted)
      BY <2>3 DEF Unmoved, Stopping
    <3> QED
      BY <2>1, <2>3, <3>1, <3>2, OthersKeep
  <2> QED
    BY <2>2, <2>4, <2>5 DEF Rest
<1> QED
  BY <1>1, <1>2 DEF Bind

(* A stranger's socket at the endpoint: something was moved away before.   *)
LEMMA StrangerBindsStep == UnixInv /\ StrangerBinds => Rest'
<1> SUFFICES ASSUME UnixInv, StrangerBinds PROVE Rest'
  OBVIOUS
<1> USE DEF UnixInv, TypeOK, Here, history
<1>1. PICK s \in Sockets, mode \in BOOLEAN : Bound(s, Stranger, "listening", mode)
  BY DEF StrangerBinds
<1>2. moved # {} /\ UNCHANGED <<aside, debris, pc, forStop, id, mine, history>>
  BY DEF StrangerBinds
<1>3. SocketsInv'
  BY <1>1, <1>2, BoundKeeps
<1>4. /\ entry = NoSocket /\ entry' = s /\ s # NoSocket
      /\ \A q \in Procs : mine[q] # s /\ id[q] # s
      /\ life' = [life EXCEPT ![s] = "listening"]
      /\ owner' = [owner EXCEPT ![s] = Stranger]
  BY <1>1, BoundFresh
<1>5. ASSUME NEW q \in Procs PROVE Here(q)'
  <2>1. /\ mine[q] # NoSocket => life'[mine[q]] = life[mine[q]]
        /\ id[q] # NoSocket => life'[id[q]] = life[id[q]]
        /\ StrangerLive(entry)'
    BY <1>4 DEF StrangerLive
  <2>2. Starting(q)'
    BY <1>2, <1>4, <2>1 DEF Starting, Stopping
  <2>3. Stopping(q)'
    BY <1>2, <1>4, <2>1 DEF Starting, Stopping
  <2>4. Unmoved(q)'
    BY <1>2 DEF Unmoved
  <2> QED
    BY <2>2, <2>3, <2>4
<1> QED
  BY <1>3, <1>5 DEF Rest

(* Listening and closing change the life of the own socket.                *)
LEMMA LifeKeeps ==
  ASSUME UnixInv, NEW p \in Procs, mine[p] # NoSocket,
         NEW state \in {"listening", "closed"},
         life' = [life EXCEPT ![mine[p]] = state],
         state = "listening" => life[mine[p]] = "bound",
         UNCHANGED <<names, made, owner, private, inode, id, mine, abandoned,
                     retained, leftover, moved, served>>
  PROVE  SocketsInv'
<1> USE DEF UnixInv, TypeOK, names
<1>1. mine[p] \in Sockets /\ life[mine[p]] # "none" /\ owner[mine[p]] = p
  BY DEF SocketsInv, Born, Owned
<1>2. \A s \in Sockets : (Linked(s)' <=> Linked(s)) /\ (InPlay(s)' <=> InPlay(s))
  BY DEF Linked, InPlay
<1>3. Born'
  BY <1>1, <1>2 DEF SocketsInv, Born
<1>4. \A s \in Sockets : Held(s)' => Held(s)
  BY <1>1, <1>2 DEF Held
<1>5. InodesUnique'
  BY <1>4 DEF SocketsInv, InodesUnique
<1>6. Owned'
  BY <1>1 DEF SocketsInv, Owned
<1>7. NamedOnce'
  BY <1>1, <1>2 DEF SocketsInv, NamedOnce, Accounted
<1> QED
  BY <1>3, <1>5, <1>6, <1>7 DEF SocketsInv

(* net.Listen goes on with the socket it has bound, or leaves it dead.     *)
LEMMA ListenStep ==
  ASSUME UnixInv, NEW p \in Procs, Listen(p), Alone(p)
  PROVE  Rest'
<1> USE DEF UnixInv, TypeOK, Here, Listen, Goes
<1>1. /\ mine[p] \in Sockets /\ life[mine[p]] = "bound"
      /\ entry = mine[p] \/ mine[p] \in moved
      /\ UNCHANGED <<names, made, owner, private, inode, forStop, id,
                     abandoned, retained, moved, served, targeted>>
  BY DEF Starting
<1>2. CASE /\ life' = [life EXCEPT ![mine[p]] = "listening"]
           /\ Goes(p, "chmod")
           /\ UNCHANGED <<mine, leftover>>
  <2>1. SocketsInv'
    BY <1>1, <1>2, LifeKeeps DEF Starting
  <2>2. Here(p)'
    BY <1>1, <1>2 DEF Starting, Stopping, Unmoved, names
  <2>3. ASSUME NEW q \in Procs \ {p} PROVE Here(q)'
    BY <1>1, <1>2, OwnSockets, OthersKeep DEF Alone, Starting, names
  <2> QED
    BY <2>1, <2>2, <2>3 DEF Rest
<1>3. CASE /\ life' = [life EXCEPT ![mine[p]] = "closed"]
           /\ leftover' = leftover \cup {mine[p]}
           /\ mine' = [mine EXCEPT ![p] = NoSocket]
           /\ Goes(p, "down")
  <2>1. \A s \in Sockets : (Linked(s)' <=> Linked(s)) /\ (InPlay(s)' <=> InPlay(s))
    BY <1>1 DEF Linked, InPlay, names
  <2>2. Born' /\ InodesUnique'
    BY <1>1, <1>3, <2>1 DEF SocketsInv, Born, InodesUnique, Held
  <2>3. Owned'
    BY <1>1, <1>3 DEF SocketsInv, Owned
  <2>4. NamedOnce'
    <3>1. \A s \in Sockets : s = mine[p] \/ Accounted(s) => Accounted(s)'
      BY <1>1, <1>3 DEF Accounted
    <3> QED
      BY <1>1, <1>3, <2>1, <3>1 DEF SocketsInv, NamedOnce, names
  <2>5. Here(p)'
    BY <1>1, <1>3 DEF Starting, Stopping, Unmoved
  <2>6. ASSUME NEW q \in Procs \ {p} PROVE Here(q)'
    BY <1>1, <1>3, OwnSockets, OthersKeep DEF Alone, Starting, names
  <2> QED
    BY <2>2, <2>3, <2>4, <2>5, <2>6 DEF Rest, SocketsInv
<1> QED
  BY <1>2, <1>3

(* os.Chmod finds the own socket at the name, or a stranger's.             *)
LEMMA ChmodStep ==
  ASSUME UnixInv, NEW p \in Procs, Chmod(p), Alone(p)
  PROVE  Rest'
<1> USE DEF UnixInv, TypeOK, Here, Chmod, Goes, names, history
<1>1. Here(p)'
  BY DEF Starting, Stopping, Unmoved
<1>2. private \subseteq private'
  OBVIOUS
<1>3. \A s \in Sockets : (Linked(s)' <=> Linked(s)) /\ (InPlay(s)' <=> InPlay(s))
  BY DEF Linked, InPlay
<1>4. SocketsInv'
  BY <1>2, <1>3 DEF SocketsInv, Born, InodesUnique, Owned, NamedOnce, Held,
     Accounted
<1>5. ASSUME NEW q \in Procs \ {p} PROVE Here(q)'
  BY <1>2, OthersKeep DEF Alone
<1> QED
  BY <1>1, <1>4, <1>5 DEF Rest

(* Closing leaves the name for removeOwnedSocket or os.Remove.             *)
LEMMA CloseSteps ==
  ASSUME UnixInv, NEW p \in Procs, AbortClose(p) \/ StopClose(p), Alone(p)
  PROVE  Rest'
<1> USE DEF UnixInv, TypeOK, Here, Goes
<1>1. /\ life' = [life EXCEPT ![mine[p]] = "closed"]
      /\ mine[p] # NoSocket
      /\ UNCHANGED <<names, made, owner, private, inode, id, mine, abandoned,
                     retained, leftover, moved, served>>
  BY DEF AbortClose, StopClose, Starting, Stopping, history
<1>2. SocketsInv'
  BY <1>1, LifeKeeps
<1>3. Here(p)'
  <2>1. CASE AbortClose(p)
    BY <1>1, <2>1 DEF AbortClose, Starting, Stopping, Unmoved, names, history
  <2>2. CASE StopClose(p)
    BY <1>1, <2>2 DEF StopClose, Starting, Stopping, Unmoved, names
  <2> QED
    BY <2>1, <2>2
<1>4. ASSUME NEW q \in Procs \ {p} PROVE Here(q)'
  <2>1. /\ pc'[q] = pc[q] /\ ~Busy(q) /\ mine[q] # mine[p] /\ q \notin forStop'
        /\ targeted \subseteq targeted'
    BY <1>1, OwnSockets DEF Alone, AbortClose, StopClose, history
  <2> QED
    BY <1>1, <2>1, OthersKeep DEF names
<1> QED
  BY <1>2, <1>3, <1>4 DEF Rest

(* The error paths' os.Remove: it takes the name away, or does not.        *)
LEMMA UnlinkStep ==
  ASSUME UnixInv, NEW p \in Procs, AbortUnlink(p), Alone(p)
  PROVE  Rest'
<1> USE DEF UnixInv, TypeOK, Here, AbortUnlink, Goes, sockets
<1>1. /\ mine[p] # NoSocket /\ life[mine[p]] = "closed"
      /\ entry = mine[p] \/ mine[p] \in moved
      /\ \A q \in Procs : aside[q] = NoSocket
  BY DEF Starting, Stopping, Alone
<1>2. \A s \in Sockets :
         /\ Linked(s)' => Linked(s)
         /\ InPlay(s)' => s = entry /\ entry' = entry
  BY <1>1, SocketsAssumption DEF Linked, InPlay, NoSocket, Sockets
<1>3. Born' /\ InodesUnique'
  BY <1>2 DEF SocketsInv, Born, InodesUnique, Held
<1>4. Owned'
  BY <1>1, Forgets
<1>5. NamedOnce'
  <2>1. CASE entry' = NoSocket
    BY <1>1, <1>2, <2>1, SocketsAssumption DEF SocketsInv, NamedOnce, NoSocket,
       Sockets
  <2>2. CASE leftover' = leftover \cup {mine[p]} /\ UNCHANGED entry
    <3>1. \A s \in Sockets : Accounted(s) => Accounted(s)'
      BY <2>2 DEF Accounted
    <3> QED
      BY <1>1, <1>2, <2>2, <3>1 DEF SocketsInv, NamedOnce, InPlay
  <2> QED
    BY <2>1, <2>2
<1>6. Here(p)'
  BY <1>1 DEF Starting, Stopping, Unmoved
<1>7. ASSUME NEW q \in Procs \ {p} PROVE Here(q)'
  <2>1. moved = {} /\ pc[q] = "serving" => entry # mine[q]
    BY <1>1, OwnSockets
  <2>2. ~(moved = {} /\ pc[q] = "serving" /\ mine[q] \notin targeted)
    BY <2>1 DEF Unmoved
  <2> QED
    BY <2>2, OthersKeep DEF Alone
<1> QED
  BY <1>3, <1>4, <1>5, <1>6, <1>7 DEF Rest, SocketsInv

(* What a dying process leaves is known to be abandoned.                   *)
LEMMA CrashStep == ASSUME UnixInv, NEW p \in Procs, Crash(p) PROVE Rest'
<1> USE DEF UnixInv, TypeOK, Here, Goes
<1>1. /\ pc' = [pc EXCEPT ![p] = "down"]
      /\ life' = [s \in Sockets |-> IF s = mine[p] THEN "closed" ELSE life[s]]
      /\ abandoned' = abandoned \cup ({mine[p], aside[p]} \ {NoSocket})
      /\ debris' = debris \cup ({aside[p]} \ {NoSocket})
      /\ aside' = [aside EXCEPT ![p] = NoSocket]
      /\ mine' = [mine EXCEPT ![p] = NoSocket]
      /\ forStop' = forStop \ {p}
      /\ UNCHANGED <<entry, made, owner, private, inode, id, retained, leftover,
                     moved, served, targeted>>
  BY DEF Crash
<1>2. \A s \in Sockets : (Linked(s)' <=> Linked(s)) /\ (InPlay(s)' => InPlay(s))
  BY <1>1, SocketsAssumption DEF Linked, InPlay, NoSocket, Sockets
<1>3. mine[p] # NoSocket => life[mine[p]] # "none" /\ owner[mine[p]] = p
  BY DEF SocketsInv, Born, Owned
<1>4. Born'
  BY <1>1, <1>2, <1>3, SocketsAssumption DEF SocketsInv, Born, Sockets,
     NoSocket
<1>5. InodesUnique'
  <2>1. \A s \in Sockets : Held(s)' => Held(s)
    BY <1>1, <1>2 DEF Held
  <2> QED
    BY <1>1, <2>1 DEF SocketsInv, InodesUnique
<1>6. Owned'
  BY <1>1 DEF SocketsInv, Owned
<1>7. NamedOnce'
  <2>1. \A s \in Sockets : s = mine[p] \/ Accounted(s) => Accounted(s)'
    BY <1>1, SocketsAssumption DEF Accounted, NoSocket, Sockets
  <2>2. \A s \in Sockets : life'[s] = "closed" => s = mine[p] \/ life[s] = "closed"
    BY <1>1
  <2>3. debris' \subseteq abandoned' \cup moved' \cup retained'
    BY <1>1 DEF SocketsInv, NamedOnce
  <2>4. entry' # NoSocket => \A q \in Procs : aside'[q] # entry'
    BY <1>1 DEF SocketsInv, NamedOnce
  <2> QED
    BY <1>1, <1>2, <2>1, <2>2, <2>3, <2>4 DEF SocketsInv, NamedOnce
<1>8. Here(p)'
  BY <1>1 DEF Starting, Stopping, Unmoved
<1>9. ASSUME NEW q \in Procs \ {p} PROVE Here(q)'
  <2>1. /\ pc'[q] = pc[q] /\ mine'[q] = mine[q] /\ id'[q] = id[q]
        /\ q \in forStop' <=> q \in forStop
        /\ mine[q] # NoSocket => life'[mine[q]] = life[mine[q]]
    BY <1>1, OwnSockets, SocketsAssumption DEF Sockets, NoSocket
  <2>2. /\ \A s \in Sockets : life'[s] = "listening" => life[s] = "listening"
        /\ entry # NoSocket /\ StrangerLive(entry) => StrangerLive(entry)'
        /\ id[q] # NoSocket /\ life[id[q]] # "listening" => life'[id[q]] # "listening"
    BY <1>1, <1>3, StrangerAssumption DEF StrangerLive
  <2>3. Starting(q)'
    <3>1. entry = NoSocket \/ StrangerLive(entry)
             => entry' = NoSocket \/ StrangerLive(entry)'
      BY <1>1, <2>2
    <3>2. entry \in {NoSocket, id[q]} \/ StrangerLive(entry)
             => entry' \in {NoSocket, id'[q]} \/ StrangerLive(entry)'
      BY <1>1, <2>1, <2>2
    <3>3. Starting(q) /\ (pc[q] = "serving" => mine[q] # NoSocket)
      BY DEF Stopping
    <3> HIDE DEF UnixInv, TypeOK, Here
    <3> QED
      BY <1>1, <2>1, <2>2, <3>1, <3>2, <3>3 DEF Starting
  <2>4. Stopping(q)'
    BY <1>1, <2>1 DEF Stopping, Starting
  <2>5. Unmoved(q)'
    BY <1>1, <2>1, <2>2 DEF Unmoved
  <2> QED
    BY <2>3, <2>4, <2>5
<1> QED
  BY <1>4, <1>5, <1>6, <1>7, <1>8, <1>9 DEF Rest, SocketsInv

(* A stranger takes a socket from the endpoint, whoever is looking at it.  *)
LEMMA MovesStep == ASSUME UnixInv, StrangerMoves PROVE Rest'
<1> USE DEF UnixInv, TypeOK, Here
<1>1. /\ entry # NoSocket /\ entry' = NoSocket
      /\ moved' = moved \cup {entry}
      /\ debris' \in {debris, debris \cup {entry}}
      /\ UNCHANGED <<aside, sockets, pc, forStop, id, mine, abandoned, retained,
                     leftover, served, targeted>>
  BY DEF StrangerMoves
<1>2. \A s \in Sockets : (Linked(s)' => Linked(s)) /\ (InPlay(s)' => InPlay(s))
  BY <1>1, SocketsAssumption DEF Linked, InPlay, NoSocket, Sockets
<1>3. Born' /\ InodesUnique' /\ Owned'
  BY <1>1, <1>2 DEF SocketsInv, Born, InodesUnique, Owned, Held, sockets
<1>4. NamedOnce'
  <2>1. debris' \subseteq abandoned' \cup moved' \cup retained'
    BY <1>1 DEF SocketsInv, NamedOnce
  <2> QED
    BY <1>1, <1>2, <2>1 DEF SocketsInv, NamedOnce, Accounted, sockets
<1>5. ASSUME NEW q \in Procs PROVE Here(q)'
  <2>1. Starting(q)'
    BY <1>1 DEF Starting, sockets
  <2>2. Stopping(q)'
    BY <1>1 DEF Stopping, sockets
  <2>3. Unmoved(q)'
    BY <1>1 DEF Unmoved
  <2> QED
    BY <2>1, <2>2, <2>3
<1> QED
  BY <1>3, <1>4, <1>5 DEF Rest, SocketsInv

(* Every step of a gateway that starts or stops alone.                     *)
LEMMA GatewayKeeps ==
  ASSUME UnixInv, NEW p \in Procs, ProcStep(p), Alone(p)
  PROVE  Rest'
BY LookingSteps, RenameStep, CompareStep, RestoreSteps, BindStep, ListenStep,
   ChmodStep, SelfIdentifyStep, CloseSteps, UnlinkStep DEF ProcStep

(* A step that is none of the gateways'.                                   *)
LEMMA Elsewhere == UnixInv /\ UNCHANGED vars => Rest'
BY DEF vars, UnixInv, Rest, SocketsInv, Born, InodesUnique, Owned, NamedOnce,
   Held, Linked, InPlay, Accounted, Here, Starting, Stopping, Unmoved,
   StrangerLive

(* Every step without overlap.                                             *)
LEMMA UnixPreserved ==
  ASSUME Overlap = FALSE
  PROVE  UnixInv /\ [Next]_vars => UnixInv'
<1> SUFFICES ASSUME UnixInv, [Next]_vars PROVE UnixInv'
  OBVIOUS
<1>1. TypeOK' /\ OneBusy'
  BY UnixTyped, OneBusyKept
<1>2. ASSUME NEW p \in Procs, ProcStep(p) PROVE Rest'
  BY <1>2, MoverAlone, GatewayKeeps
<1>3. ASSUME NEW p \in Procs, Crash(p) PROVE Rest'
  BY <1>3, CrashStep
<1>4. ASSUME StrangerMoves \/ StrangerBinds PROVE Rest'
  BY <1>4, MovesStep, StrangerBindsStep
<1>5. Rest'
  BY <1>2, <1>3, <1>4, Elsewhere DEF Next
<1> QED
  BY <1>1, <1>5 DEF UnixInv, Rest

(* The invariant holds of every behaviour without overlap.                 *)
LEMMA UnixSafe ==
  ASSUME Overlap = FALSE PROVE Spec => []UnixInv
BY UnixStarts, UnixPreserved, PTL DEF Spec

(* A started gateway keeps its endpoint until its Stop, however many       *)
(* gateways start, stop and crash one after the other and whatever system  *)
(* calls fail, until a stranger meddles or a failed Stop is repeated at    *)
(* the endpoint of another gateway.                                        *)
THEOREM NotDisplaced ==
  ASSUME Overlap = FALSE PROVE Spec => []ActiveNotDisplaced
<1>1. UnixInv => ActiveNotDisplaced
  BY DEF UnixInv, Here, Starting, Unmoved, ActiveNotDisplaced
<1> QED
  BY <1>1, UnixSafe, PTL

(* A step by which a name is lost is one of removing or moving a socket.   *)
LEMMA NamesKept ==
  ASSUME UnixInv, NEW s \in Sockets, Linked(s), [Next]_vars,
         \A p \in Procs : ~Compare(p) /\ ~AbortUnlink(p),
         ~StrangerMoves
  PROVE  Linked(s)'
<1> USE SocketsAssumption DEF UnixInv, TypeOK, Linked, NoSocket, Sockets
<1>1. ASSUME NEW p \in Procs, Rename(p) PROVE Linked(s)'
  BY <1>1 DEF Rename
<1>2. ASSUME NEW p \in Procs, RestoreCheck(p) \/ Restore(p) PROVE Linked(s)'
  BY <1>2 DEF RestoreCheck, Restore, Retain, names
<1>3. ASSUME NEW p \in Procs, Bind(p) PROVE Linked(s)'
  BY <1>3 DEF Bind, Bound
<1>4. ASSUME NEW p \in Procs, Crash(p) PROVE Linked(s)'
  BY <1>4 DEF Crash
<1>5. CASE StrangerBinds
  BY <1>5 DEF StrangerBinds, Bound
<1>6. CASE UNCHANGED names
  BY <1>6 DEF names
<1>7. ASSUME NEW p \in Procs, ProcStep(p) PROVE Linked(s)'
  BY <1>1, <1>2, <1>3, <1>6, <1>7 DEF ProcStep, StartValidate, Identify, Dial,
     Listen, Chmod, SelfValidate, SelfIdentify, AbortClose, StopClose
<1> QED
  BY <1>4, <1>5, <1>6, <1>7 DEF Next, vars, names

(* What cleanup removes has the inode number it looked for: either it is   *)
(* the socket that was identified, or that one is gone.                    *)
LEMMA ComparesAway ==
  ASSUME UnixInv, NEW s \in Sockets, life[s] = "listening", owner[s] = Stranger,
         Linked(s), ~Linked(s)', NEW p \in Procs, Compare(p)
  PROVE  TakenForOwn(p, s) \/ InodeReused(p, s)
<1> USE DEF UnixInv, TypeOK, Here
<1>1. /\ pc[p] = "compare" /\ aside[p] = s /\ inode[s] = inode[id[p]]
  BY DEF Compare, Retain, Linked, names, Goes
<1>2. id[p] \in Sockets
  BY <1>1 DEF Starting, Stopping
<1>3. CASE id[p] = s
  <2>1. p \in forStop
    BY <1>1, <1>3 DEF Starting
  <2>2. mine[p] # s
    BY StrangerAssumption, SocketsAssumption DEF SocketsInv, Owned, NoSocket,
       Sockets
  <2> QED
    BY <1>3, <2>1, <2>2 DEF Stopping, TakenForOwn
<1>4. CASE id[p] # s
  <2>1. ~Linked(id[p])
    BY <1>1, <1>2, <1>4 DEF SocketsInv, InodesUnique, Held
  <2> QED
    BY <1>1, <2>1 DEF InodeReused
<1> QED
  BY <1>3, <1>4

(* What an error path removes by name replaced the gateway's own socket.   *)
LEMMA UnlinksAway ==
  ASSUME UnixInv, NEW s \in Sockets, owner[s] = Stranger,
         Linked(s), ~Linked(s)', NEW p \in Procs, AbortUnlink(p)
  PROVE  TakenForOwn(p, s)
<1>1. s = entry /\ pc[p] = "unlink"
  BY DEF AbortUnlink, Linked
<1>2. mine[p] # NoSocket /\ owner[mine[p]] = p
  BY <1>1 DEF UnixInv, Here, Starting, SocketsInv, Owned
<1> QED
  BY <1>1, <1>2, StrangerAssumption DEF UnixInv, Here, Starting, TakenForOwn

(* Whatever fails, dies or is replaced meanwhile, and however often: only  *)
(* a stranger's socket that was there before Start had the identity of its *)
(* own, or that has the inode number of the one that was identified and is *)
(* gone, loses its last name to a gateway.                                 *)
THEOREM StrangersStay ==
  ASSUME Overlap = FALSE PROVE Spec => StrangersKept
<1>1. ASSUME UnixInv, [Next]_vars, NEW s \in Sockets,
             life[s] = "listening", owner[s] = Stranger,
             Linked(s), ~Linked(s)', s \notin moved'
      PROVE  \E p \in Procs : TakenForOwn(p, s) \/ InodeReused(p, s)
  <2>1. ASSUME StrangerMoves PROVE FALSE
    BY <1>1, <2>1 DEF StrangerMoves, Linked
  <2> QED
    BY <1>1, <2>1, NamesKept, ComparesAway, UnlinksAway
<1>2. UnixInv /\ [Next]_vars =>
        [\A s \in Sockets :
            /\ life[s] = "listening" /\ owner[s] = Stranger
            /\ Linked(s) /\ ~Linked(s)' /\ s \notin moved'
            => \E p \in Procs : TakenForOwn(p, s) \/ InodeReused(p, s)]_vars
  BY <1>1
<1> QED
  BY <1>2, UnixSafe, PTL DEF Spec, StrangersKept

(* A dead socket with a name is its gateway's to clean up, was moved by a  *)
(* stranger, left by a crash or a failed Start, or reported.               *)
THEOREM LeftoversKnown ==
  ASSUME Overlap = FALSE PROVE Spec => []LeftoversAreKnown
<1>1. UnixInv => LeftoversAreKnown
  BY DEF UnixInv, SocketsInv, NamedOnce, InPlay, Accounted, LeftoversAreKnown
<1> QED
  BY <1>1, UnixSafe, PTL

(* Whatever the umask: what is left at the endpoint when nobody runs is    *)
(* dead, and private unless its gateway never started.                     *)
THEOREM LeftoversRemovable ==
  ASSUME Overlap = FALSE PROVE Spec => []LeftoverIsRemovable
<1>1. UnixInv => LeftoverIsRemovable
  <2> SUFFICES ASSUME UnixInv, \A p \in Procs : pc[p] \in {"down", "failed"},
                      entry # NoSocket, owner[entry] # Stranger
               PROVE  life[entry] = "closed" /\ (entry \in served => entry \in private)
    BY DEF LeftoverIsRemovable
  <2> USE DEF UnixInv, TypeOK, Here
  <2>1. entry \in Sockets /\ owner[entry] \in Procs /\ Linked(entry) /\ InPlay(entry)
    BY DEF Linked, InPlay
  <2>2. life[entry] # "none"
    BY <2>1 DEF SocketsInv, Born
  <2>3. ASSUME life[entry] \in {"bound", "listening"} PROVE FALSE
    <3>1. mine[owner[entry]] = entry
      BY <2>1, <2>3 DEF SocketsInv, Owned
    <3>2. pc[owner[entry]] = "failed"
      BY <2>1, <3>1 DEF Starting
    <3> QED
      BY <2>1, <2>3, <3>1, <3>2 DEF Stopping
  <2>4. life[entry] = "closed"
    BY <2>1, <2>2, <2>3
  <2> QED
    BY <2>1, <2>4 DEF SocketsInv, NamedOnce
<1> QED
  BY <1>1, UnixSafe, PTL

-----------------------------------------------------------------------------
(* The process lock, and the gateways behind it.                           *)
Shapes ==
    /\ file \in [Procs -> {"none", "open", "closed"}]
    /\ handle \in [Procs -> BOOLEAN]
    /\ lockPc \in [Procs -> {"idle", "opened", "unlocked", "unlockFailed"}]
    /\ DOMAIN pc = Procs

(* Where Start and Stop are tells what they have done to the lock.         *)
LockPlaces ==
    \A p \in Procs :
       /\ handle[p] /\ file[p] = "open" /\ lockPc[p] = "idle" => holder = p
       /\ ~handle[p] => holder # p /\ lockPc[p] \in {"idle", "opened"}
       /\ ~handle[p] /\ lockPc[p] = "idle" => file[p] = "none"
       /\ lockPc[p] = "opened" => ~handle[p]
       /\ lockPc[p] = "unlocked" => holder # p /\ file[p] = "open"

(* A gateway is inside Start, serving, or inside Stop.                     *)
Operating(p) == pc[p] \notin {"down", "failed"}

OperatingStarted == \A p \in Procs : Operating(p) => Lock!Started(p)

LockedInv == Shapes /\ LockPlaces /\ OperatingStarted

(* The initial state.                                                      *)
LEMMA LockStarts == LockedInit => LockedInv
BY NobodyAssumption DEF LockedInit, Lock!Init, Init, LockedInv, Shapes,
   LockPlaces, OperatingStarted, Operating

(* The lock's own steps keep what they say about the lock.                 *)
LEMMA LockStep ==
    ASSUME Shapes, LockPlaces, NEW p \in Procs,
           \/ Lock!Open(p) \/ Lock!Acquire(p) \/ Lock!GiveUp(p)
           \/ Lock!Unlock(p) \/ Lock!Close(p) \/ Lock!Crash(p)
    PROVE  /\ file' \in [Procs -> {"none", "open", "closed"}]
           /\ handle' \in [Procs -> BOOLEAN]
           /\ lockPc' \in [Procs -> {"idle", "opened", "unlocked", "unlockFailed"}]
           /\ LockPlaces'
           /\ \A q \in Procs \ {p} : Lock!Started(q) => Lock!Started(q)'
<1> USE DEF Shapes, LockPlaces, Lock!Started
<1>1. CASE Lock!Open(p)
  BY <1>1 DEF Lock!Open
<1>2. CASE Lock!Acquire(p)
  BY <1>2, NobodyAssumption DEF Lock!Acquire
<1>3. CASE Lock!GiveUp(p)
  BY <1>3 DEF Lock!GiveUp
<1>4. CASE Lock!Unlock(p)
  BY <1>4, NobodyAssumption DEF Lock!Unlock, Lock!Free
<1>5. CASE Lock!Close(p)
  <2>1. /\ lockPc[p] \in {"unlocked", "unlockFailed"}
        /\ lockPc' = [lockPc EXCEPT ![p] = "idle"]
    BY <1>5 DEF Lock!Close
  <2>2. CASE /\ file' = [file EXCEPT ![p] = "none"]
             /\ handle' = [handle EXCEPT ![p] = FALSE]
             /\ holder' = Lock!Free(p)
    BY <2>1, <2>2, NobodyAssumption DEF Lock!Free
  <2>3. CASE /\ lockPc[p] = "unlocked"
             /\ file' = [file EXCEPT ![p] = "none"]
             /\ handle' = [handle EXCEPT ![p] = FALSE]
             /\ holder' \in {holder, Lock!Free(p)}
    BY <2>1, <2>3, NobodyAssumption DEF Lock!Free
  <2>4. CASE /\ lockPc[p] = "unlockFailed"
             /\ file' = [file EXCEPT ![p] = "closed"]
             /\ handle' = [handle EXCEPT ![p] = TRUE]
             /\ holder' \in {holder, Lock!Free(p)}
    BY <2>1, <2>4, NobodyAssumption DEF Lock!Free
  <2>5. CASE file[p] = "closed" /\ UNCHANGED <<holder, file, handle>>
    <3>1. lockPc[p] = "unlockFailed" /\ handle[p]
      BY <2>1, <2>5
    <3> QED
      BY <2>1, <2>5, <3>1
  <2>6. QED
    BY <1>5, <2>1, <2>2, <2>3, <2>4, <2>5 DEF Lock!Close
<1>6. CASE Lock!Crash(p)
  BY <1>6, NobodyAssumption DEF Lock!Crash, Lock!Free
<1> QED
  BY <1>1, <1>2, <1>3, <1>4, <1>5, <1>6

(* Every step of the program keeps the invariant.                          *)
LEMMA LockPreserved == LockedInv /\ [LockedNext]_lockedVars => LockedInv'
<1> SUFFICES ASSUME LockedInv, [LockedNext]_lockedVars PROVE LockedInv'
  OBVIOUS
<1> USE DEF LockedInv
<1>1. ASSUME NEW p \in Procs, StartLock(p) PROVE LockedInv'
  <2>1. pc[p] = "down" /\ pc' = pc
    BY <1>1 DEF StartLock, vars
  <2>2. /\ Shapes' /\ LockPlaces'
        /\ \A q \in Procs \ {p} : Lock!Started(q) => Lock!Started(q)'
    BY <1>1, <2>1, LockStep DEF StartLock, Shapes
  <2> QED
    BY <2>1, <2>2 DEF OperatingStarted, Operating
<1>2. ASSUME NEW p \in Procs, Operate(p) PROVE LockedInv'
  <2>1. Lock!Started(p) /\ UNCHANGED lockVars
    BY <1>2 DEF Operate
  <2>2. DOMAIN pc' = Procs /\ \A q \in Procs \ {p} : pc'[q] = pc[q]
    BY <1>2, OtherGateways DEF Operate, Shapes
  <2>3. Shapes' /\ LockPlaces'
    BY <2>1, <2>2 DEF lockVars, Shapes, LockPlaces
  <2>4. OperatingStarted'
    BY <2>1, <2>2 DEF lockVars, OperatingStarted, Operating, Lock!Started
  <2> QED
    BY <2>3, <2>4
<1>3. ASSUME NEW p \in Procs, StopLock(p) PROVE LockedInv'
  <2>1. pc[p] \in {"down", "failed"} /\ pc' = pc
    BY <1>3 DEF StopLock, vars
  <2>2. /\ Shapes' /\ LockPlaces'
        /\ \A q \in Procs \ {p} : Lock!Started(q) => Lock!Started(q)'
    BY <1>3, <2>1, LockStep DEF StopLock, Shapes
  <2> QED
    BY <2>1, <2>2 DEF OperatingStarted, Operating
<1>4. ASSUME NEW p \in Procs, Dies(p) PROVE LockedInv'
  <2>1. /\ DOMAIN pc' = Procs /\ pc'[p] = "down"
        /\ \A q \in Procs \ {p} : pc'[q] = pc[q]
    BY <1>4 DEF Dies, Crash, Goes, vars, Shapes
  <2>2. /\ Shapes' /\ LockPlaces'
        /\ \A q \in Procs \ {p} : Lock!Started(q) => Lock!Started(q)'
    BY <1>4, <2>1, LockStep DEF Dies, Shapes
  <2> QED
    BY <2>1, <2>2 DEF OperatingStarted, Operating
<1>5. CASE UNCHANGED lockedVars
  BY <1>5 DEF lockedVars, lockVars, vars, Shapes, LockPlaces,
     OperatingStarted, Operating, Lock!Started
<1> QED
  BY <1>1, <1>2, <1>3, <1>4, <1>5 DEF LockedNext

(* The invariant holds of every behaviour.                                 *)
LEMMA LockedSafe == LockedSpec => []LockedInv
BY LockStarts, LockPreserved, PTL DEF LockedSpec

(* The flock is exclusive and given back: whoever is started holds it, and *)
(* a definite release or a refused Start leaves no file open and no lock   *)
(* taken, after any crashes and failed releases of any number of owners.   *)
THEOREM LockExact == LockedSpec => []LockIsExact
<1>1. LockedInv => LockIsExact
  BY DEF LockedInv, LockPlaces, LockIsExact, Lock!StartedHoldsLock,
     Lock!ReleasedMeansFree, Lock!Started
<1> QED
  BY <1>1, LockedSafe, PTL

(* Two gateways on one endpoint are never inside Start, serving or inside  *)
(* Stop at the same time: what endpoint_unix.go does by name is done by    *)
(* one of them alone.                                                      *)
OneOperates ==
    \A p, q \in Procs : Operating(p) /\ Operating(q) => p = q

THEOREM OneOperatesAtATime == LockedSpec => []OneOperates
<1>1. LockedInv => OneOperates
  BY DEF LockedInv, LockPlaces, OperatingStarted, OneOperates, Lock!Started
<1> QED
  BY <1>1, LockedSafe, PTL

-----------------------------------------------------------------------------
(* So behind the lock the gateways keep their own invariant with any value *)
(* of Overlap, nobody moves a socket away, and each gateway finds what it  *)
(* has left: no Stop begins at the endpoint of another one.                *)
NoStranger == \A s \in Sockets : life[s] # "none" => owner[s] # Stranger

Sole(p) ==
    /\ pc[p] = "identify" => entry # NoSocket
    /\ pc[p] \in {"identify", "dial"} /\ entry # NoSocket => life[entry] # "listening"
    /\ pc[p] = "dial" => entry = id[p]
    /\ pc[p] = "bind" => entry = NoSocket
    /\ pc[p] = "rename" => entry \in {NoSocket, id[p]}
    /\ pc[p] \in {"compare", "check", "restore"} => entry = NoSocket /\ aside[p] = id[p]
    /\ pc[p] = "failed" /\ Lock!Started(p) => entry \in {NoSocket, mine[p]}

BehindLock ==
    /\ UnixInv
    /\ moved = {} /\ targeted = {}
    /\ NoStranger
    /\ \A p \in Procs : Sole(p)

(* Nothing is bound or moved.                                              *)
LEMMA BehindLockStarts == LockedInit => BehindLock
<1> SUFFICES ASSUME LockedInit PROVE BehindLock
  OBVIOUS
<1>1. UnixInv
  BY UnixStarts DEF LockedInit
<1>2. moved = {} /\ targeted = {} /\ NoStranger
  BY DEF LockedInit, Init, NoStranger
<1>3. \A p \in Procs : Sole(p)
  BY DEF LockedInit, Init, Sole
<1> QED
  BY <1>1, <1>2, <1>3 DEF BehindLock

(* A lock's own step starts nobody but an owner that acquires the flock.   *)
LEMMA StartedBefore ==
  ASSUME Shapes, LockPlaces, NEW p \in Procs, NEW q \in Procs,
         Lock!Started(q)', pc[q] # "down",
         StartLock(p) \/ StopLock(p) \/ (Lock!Crash(p) /\ q # p)
  PROVE  Lock!Started(q)
<1> USE DEF Shapes, Lock!Started
<1>1. CASE StartLock(p)
  BY <1>1 DEF StartLock, Lock!Open, Lock!Acquire, Lock!GiveUp
<1>2. CASE StopLock(p)
  <2>1. CASE Lock!Unlock(p)
    BY <2>1 DEF Lock!Unlock
  <2>2. CASE Lock!Close(p)
    BY <2>2 DEF Lock!Close, LockPlaces
  <2> QED
    BY <1>2, <2>1, <2>2 DEF StopLock
<1>3. CASE Lock!Crash(p) /\ q # p
  BY <1>3 DEF Lock!Crash
<1> QED
  BY <1>1, <1>2, <1>3

(* A step of the one gateway that is started.                              *)
LEMMA SoleKept ==
  ASSUME BehindLock, NEW p \in Procs, ProcStep(p), Alone(p),
         Lock!Started(p),
         \A q \in Procs \ {p} : pc[q] \in {"down", "failed"}
  PROVE  /\ moved' = {} /\ targeted' = {} /\ NoStranger'
         /\ Lock!Started(p)' => Sole(p)'
<1> USE DEF BehindLock, UnixInv, TypeOK, Here, Goes
<1>1. /\ moved = {} /\ targeted = {} /\ NoStranger /\ Sole(p)
      /\ Starting(p) /\ Stopping(p) /\ Unmoved(p)
  OBVIOUS
<1>2. CASE StartValidate(p)
  <2>1. ASSUME entry # NoSocket, life[entry] = "listening", pc[p] = "down"
        PROVE  FALSE
    <3>1. owner[entry] \in Procs
      BY <2>1 DEF NoStranger
    <3>2. mine[p] = NoSocket
      BY <2>1, <1>1 DEF Starting
    <3>3. mine[owner[entry]] = entry
      BY <2>1, <3>1, StrangerAssumption DEF SocketsInv, Owned
    <3>4. owner[entry] # p
      BY <2>1, <3>2, <3>3
    <3>5. pc[owner[entry]] = "failed"
      BY <2>1, <3>1, <3>3, <3>4 DEF Starting
    <3> QED
      BY <2>1, <3>1, <3>3, <3>5 DEF Stopping
  <2>2. /\ pc[p] = "down" /\ UNCHANGED <<entry, life, owner, moved, targeted>>
        /\ pc'[p] \in {"bind", "identify"}
        /\ pc'[p] = "bind" <=> entry = NoSocket
    BY <1>2, SocketsAssumption DEF StartValidate, names, sockets, history,
       NoSocket, Sockets
  <2> QED
    BY <1>1, <2>1, <2>2 DEF Sole, NoStranger
<1>3. CASE Identify(p) \/ Dial(p)
  BY <1>1, <1>3 DEF Identify, Dial, Sole, NoStranger, names, sockets, history
<1>4. CASE Rename(p)
  <2>1. p \in forStop => id[p] = mine[p]
    BY <1>1 DEF Stopping
  <2>2. /\ UNCHANGED <<life, owner, moved, targeted, id>>
    BY <1>4 DEF Rename, sockets, history
  <2>3. CASE UNCHANGED <<entry, aside>> /\ ((Removed(p) /\ entry = NoSocket) \/ NotRemoved(p))
    BY <1>1, <1>4, <2>1, <2>2, <2>3 DEF Rename, Removed, NotRemoved, Sole, NoStranger
  <2>4. CASE /\ entry # NoSocket
             /\ aside' = [aside EXCEPT ![p] = entry]
             /\ entry' = NoSocket
             /\ Goes(p, "compare")
    BY <1>1, <1>4, <2>2, <2>4 DEF Rename, Sole, NoStranger
  <2> QED
    BY <1>4, <2>3, <2>4 DEF Rename
<1>5. CASE Compare(p) \/ RestoreCheck(p) \/ Restore(p)
  <2>1. p \in forStop => id[p] = mine[p]
    BY <1>1 DEF Stopping
  <2>2. /\ UNCHANGED <<life, owner, moved, targeted, id>>
        /\ pc[p] \in {"compare", "check", "restore"}
    BY <1>5 DEF Compare, RestoreCheck, Restore, sockets
  <2>3. NoStranger' /\ moved' = {} /\ targeted' = {}
    BY <1>1, <2>2 DEF NoStranger
  <2>4. entry = NoSocket /\ aside[p] = id[p]
    BY <1>1, <2>2 DEF Sole
  <2>5. CASE Retain(p)
    BY <1>1, <2>1, <2>2, <2>3, <2>4, <2>5 DEF Retain, NotRemoved, Sole
  <2>6. CASE Removed(p) /\ UNCHANGED entry
    BY <1>1, <2>1, <2>2, <2>3, <2>4, <2>6 DEF Removed, Sole
  <2>7. CASE (Goes(p, "check") \/ Goes(p, "restore")) /\ UNCHANGED names
    BY <1>1, <2>2, <2>3, <2>4, <2>7 DEF Sole, names
  <2>8. CASE entry' = aside[p] /\ NotRemoved(p)
    BY <1>1, <2>1, <2>2, <2>3, <2>4, <2>8 DEF NotRemoved, Sole
  <2> QED
    BY <1>5, <2>5, <2>6, <2>7, <2>8 DEF Compare, RestoreCheck, Restore
<1>6. CASE Bind(p)
  <2>1. pc'[p] \in {"down", "listen"} /\ UNCHANGED history
    BY <1>6 DEF Bind
  <2>2. NoStranger'
    BY <1>1, <1>6, StrangerAssumption DEF Bind, Bound, NoStranger, sockets
  <2> QED
    BY <1>1, <2>1, <2>2 DEF Sole, history
<1>7. CASE Listen(p) \/ AbortClose(p)
  <2>1. /\ pc'[p] \in {"chmod", "down", "unlink"} /\ UNCHANGED <<moved, targeted, owner>>
        /\ \E state \in {"listening", "closed"} : life' = [life EXCEPT ![mine[p]] = state]
    BY <1>7 DEF Listen, AbortClose, history
  <2>2. mine[p] # NoSocket => life[mine[p]] # "none"
    BY DEF SocketsInv, Born
  <2> QED
    BY <1>1, <2>1, <2>2, SocketsAssumption DEF Sole, NoStranger, NoSocket, Sockets
<1>8. CASE Chmod(p) \/ SelfValidate(p) \/ SelfIdentify(p) \/ AbortUnlink(p)
  <2>1. /\ pc'[p] \in {"abort", "validate", "own", "serving", "down"}
        /\ UNCHANGED <<moved, targeted, owner, life>>
    BY <1>8 DEF Chmod, SelfValidate, SelfIdentify, AbortUnlink, sockets, history
  <2> QED
    BY <1>1, <2>1 DEF Sole, NoStranger
<1>9. CASE StopClose(p)
  <2>1. /\ pc[p] \in {"serving", "failed"} /\ pc'[p] = "rename"
        /\ life' = [life EXCEPT ![mine[p]] = "closed"]
        /\ targeted' = targeted \cup ({entry} \ {NoSocket, mine[p]})
        /\ UNCHANGED <<entry, moved, owner, id, mine>>
    BY <1>9 DEF StopClose, names
  <2>2. mine[p] # NoSocket /\ life[mine[p]] # "none" /\ id[p] = mine[p]
    BY <1>1, <2>1 DEF SocketsInv, Born, Stopping
  <2>3. entry \in {NoSocket, mine[p]}
    BY <1>1, <2>1 DEF Sole, Unmoved
  <2> QED
    BY <1>1, <2>1, <2>2, <2>3 DEF Sole, NoStranger
<1> QED
  BY <1>2, <1>3, <1>4, <1>5, <1>6, <1>7, <1>8, <1>9 DEF ProcStep

(* Whoever takes a step holds the flock, so nobody else is busy.           *)
LEMMA BehindLockPreserved ==
  LockedInv /\ LockedInv' /\ BehindLock /\ [LockedNext]_lockedVars => BehindLock'
<1> SUFFICES ASSUME LockedInv, LockedInv', BehindLock, [LockedNext]_lockedVars
             PROVE  BehindLock'
  OBVIOUS
<1>1. [Next]_vars
  BY DEF LockedNext, StartLock, Operate, StopLock, Dies, Next, lockedVars
<1>2. TypeOK'
  BY <1>1, UnixTyped DEF BehindLock
<1>3. OneBusy'
  BY DEF LockedInv, LockPlaces, OperatingStarted, Operating, Lock!Started,
     OneBusy, Busy
<1> DEFINE Calm == moved' = {} /\ targeted' = {} /\ NoStranger'
<1>4. ASSUME NEW p \in Procs, Operate(p)
      PROVE  Rest' /\ Calm /\ \A q \in Procs : Sole(q)'
  <2>1. ProcStep(p) /\ Lock!Started(p) /\ UNCHANGED lockVars
    BY <1>4 DEF Operate
  <2>2. ASSUME NEW q \in Procs \ {p} PROVE ~Lock!Started(q)
    BY <2>1 DEF LockedInv, LockPlaces, Lock!Started
  <2>3. ASSUME NEW q \in Procs \ {p} PROVE pc[q] \in {"down", "failed"}
    BY <2>2 DEF LockedInv, OperatingStarted, Operating
  <2>4. Alone(p)
    BY <2>3 DEF Alone, BehindLock, UnixInv, TypeOK, Here, Stopping, Busy
  <2>5. Rest'
    BY <2>1, <2>4, GatewayKeeps DEF BehindLock
  <2>6. Lock!Started(p)'
    BY <2>1 DEF lockVars, Lock!Started
  <2>7. Calm /\ Sole(p)'
    BY <2>1, <2>3, <2>4, <2>6, SoleKept
  <2>8. ASSUME NEW q \in Procs \ {p} PROVE Sole(q)'
    <3>1. pc'[q] \in {"down", "failed"}
      BY <2>1, <2>3, OtherGateways DEF LockedInv, Shapes
    <3>2. ~Lock!Started(q)'
      BY <2>1, <2>2 DEF lockVars, Lock!Started
    <3> QED
      BY <3>1, <3>2 DEF Sole
  <2> QED
    BY <2>5, <2>7, <2>8
<1>5. ASSUME NEW p \in Procs, Crash(p), Lock!Crash(p)
      PROVE  Rest' /\ Calm /\ \A q \in Procs : Sole(q)'
  <2> USE DEF BehindLock, UnixInv, TypeOK
  <2>1. Rest'
    BY <1>5, CrashStep
  <2>2. /\ UNCHANGED <<entry, moved, targeted, owner, id>>
        /\ life' = [s \in Sockets |-> IF s = mine[p] THEN "closed" ELSE life[s]]
        /\ pc' = [pc EXCEPT ![p] = "down"]
        /\ aside' = [aside EXCEPT ![p] = NoSocket]
        /\ mine' = [mine EXCEPT ![p] = NoSocket]
    BY <1>5 DEF Crash, Goes
  <2>3. mine[p] # NoSocket => life[mine[p]] # "none"
    BY DEF SocketsInv, Born
  <2>4. Calm
    BY <2>2, <2>3, SocketsAssumption DEF NoStranger, NoSocket, Sockets
  <2>5. Sole(p)'
    BY <2>2 DEF Sole
  <2>6. ASSUME NEW q \in Procs \ {p} PROVE Sole(q)'
    <3>1. /\ pc'[q] = pc[q] /\ aside'[q] = aside[q] /\ mine'[q] = mine[q]
          /\ entry # NoSocket /\ life[entry] # "listening" => life'[entry] # "listening"
      BY <2>2
    <3>2. Lock!Started(q)' /\ pc[q] = "failed" => Lock!Started(q)
      BY <1>5, StartedBefore DEF LockedInv
    <3>3. Sole(q)
      OBVIOUS
    <3> QED
      BY <2>2, <3>1, <3>2, <3>3 DEF Sole
  <2> QED
    BY <2>1, <2>4, <2>5, <2>6
<1>6. ASSUME UNCHANGED vars,
             \A q \in Procs : Lock!Started(q)' /\ pc[q] = "failed" => Lock!Started(q)
      PROVE  Rest' /\ Calm /\ \A q \in Procs : Sole(q)'
  <2>1. Rest'
    BY <1>6, Elsewhere DEF BehindLock
  <2>2. Calm
    BY <1>6 DEF vars, BehindLock, NoStranger
  <2>3. \A q \in Procs : Sole(q)'
    BY <1>6 DEF vars, BehindLock, Sole
  <2> QED
    BY <2>1, <2>2, <2>3
<1>7. ASSUME NEW p \in Procs, StartLock(p) \/ StopLock(p)
      PROVE  Rest' /\ Calm /\ \A q \in Procs : Sole(q)'
  <2>1. \A q \in Procs : Lock!Started(q)' /\ pc[q] = "failed" => Lock!Started(q)
    BY <1>7, StartedBefore DEF LockedInv
  <2> QED
    BY <1>6, <1>7, <2>1 DEF StartLock, StopLock
<1>8. ASSUME NEW p \in Procs, Lock!Crash(p), pc[p] = "down", UNCHANGED vars
      PROVE  Rest' /\ Calm /\ \A q \in Procs : Sole(q)'
  <2>1. \A q \in Procs : Lock!Started(q)' /\ pc[q] = "failed" => Lock!Started(q)
    BY <1>8, StartedBefore DEF LockedInv
  <2> QED
    BY <1>6, <1>8, <2>1
<1>9. ASSUME UNCHANGED lockedVars
      PROVE  Rest' /\ Calm /\ \A q \in Procs : Sole(q)'
  BY <1>6, <1>9 DEF lockedVars, lockVars, Lock!Started
<1>10. Rest' /\ Calm /\ \A q \in Procs : Sole(q)'
  BY <1>4, <1>5, <1>7, <1>8, <1>9 DEF LockedNext, Dies
<1> QED
  BY <1>2, <1>3, <1>10 DEF BehindLock, UnixInv, Rest

(* So it holds of every behaviour.                                         *)
LEMMA BehindLockSafe == LockedSpec => []BehindLock
BY BehindLockStarts, BehindLockPreserved, LockedSafe, PTL DEF LockedSpec

(* Behind the lock a started gateway's endpoint is its own until it stops  *)
(* it, whoever crashed before, whatever failed and whichever inode numbers *)
(* are reused; the exceptions of ActiveNotDisplaced do not arise.          *)
THEOREM ActiveStays ==
  LockedSpec => [](ActiveNotDisplaced /\ moved = {} /\ targeted = {})
<1>1. BehindLock => ActiveNotDisplaced /\ moved = {} /\ targeted = {}
  BY DEF BehindLock, UnixInv, Here, Starting, Unmoved, ActiveNotDisplaced
<1> QED
  BY <1>1, BehindLockSafe, PTL

(* Behind the lock no branch for a socket that changed meanwhile is taken. *)
THEOREM NothingContended == LockedSpec => []NeverContended
<1>1. ASSUME BehindLock, NEW p \in Procs, pc[p] = "dial"
      PROVE  life[entry] # "listening"
  BY <1>1 DEF BehindLock, UnixInv, Here, Starting, Sole
<1>2. ASSUME BehindLock, NEW p \in Procs
      PROVE  /\ pc[p] = "bind" => entry = NoSocket
             /\ pc[p] \in {"compare", "check", "restore"} =>
                   entry = NoSocket /\ aside[p] = id[p]
  BY <1>2 DEF BehindLock, Sole
<1>3. ASSUME BehindLock, NEW p \in Procs, pc[p] \in {"abort", "unlink"}
      PROVE  entry = mine[p]
  BY <1>3 DEF BehindLock, UnixInv, Here, Starting
<1>4. BehindLock => NeverContended
  BY <1>1, <1>2, <1>3 DEF BehindLock, NeverContended
<1> QED
  BY <1>4, BehindLockSafe, PTL

-----------------------------------------------------------------------------
(* What UnixEndpoint says with Overlap = FALSE and with the value it has   *)
(* differ in the guard of the steps that enter listenLocal and cleanup.    *)
LEMMA SameHelpers ==
  /\ Exclusive!FreeInodes = FreeInodes
  /\ Exclusive!Init = Init
BY DEF Exclusive!FreeInodes, FreeInodes, Exclusive!Linked, Linked,
   Exclusive!Sockets, Sockets, Exclusive!Init, Init, Exclusive!NoSocket,
   NoSocket

LEMMA SameSteps ==
  ASSUME NEW p \in Procs, ProcStep(p),
         \A q \in Procs \ {p} : pc[q] \in {"down", "serving", "failed"}
  PROVE  Exclusive!ProcStep(p)
<1> USE DEF Goes, Exclusive!Goes, Removed, Exclusive!Removed, NotRemoved,
        Exclusive!NotRemoved, Retain, Exclusive!Retain, NoSocket,
        Exclusive!NoSocket, Sockets, Exclusive!Sockets, names,
        Exclusive!names, sockets, Exclusive!sockets, history,
        Exclusive!history, Exclusive!ProcStep
<1>1. Exclusive!Undisturbed(p)
  BY DEF Exclusive!Undisturbed
<1>2. CASE StartValidate(p) \/ Identify(p) \/ Dial(p)
  BY <1>1, <1>2 DEF StartValidate, Exclusive!StartValidate, Identify,
     Exclusive!Identify, Dial, Exclusive!Dial
<1>3. CASE Rename(p) \/ Compare(p)
  BY <1>3 DEF Rename, Exclusive!Rename, Compare, Exclusive!Compare
<1>4. CASE RestoreCheck(p) \/ Restore(p)
  BY <1>4 DEF RestoreCheck, Exclusive!RestoreCheck, Restore,
     Exclusive!Restore
<1>5. CASE Bind(p)
  BY <1>5, SameHelpers DEF Bind, Exclusive!Bind, Bound, Exclusive!Bound
<1>6. CASE Listen(p) \/ Chmod(p)
  BY <1>6 DEF Listen, Exclusive!Listen, Chmod, Exclusive!Chmod
<1>7. CASE SelfValidate(p) \/ SelfIdentify(p)
  BY <1>7 DEF SelfValidate, Exclusive!SelfValidate, SelfIdentify,
     Exclusive!SelfIdentify
<1>8. CASE AbortClose(p) \/ AbortUnlink(p) \/ StopClose(p)
  BY <1>1, <1>8 DEF AbortClose, Exclusive!AbortClose, AbortUnlink,
     Exclusive!AbortUnlink, StopClose, Exclusive!StopClose
<1> QED
  BY <1>2, <1>3, <1>4, <1>5, <1>6, <1>7, <1>8 DEF ProcStep

(* Behind the lock the gateways do what they do when nobody else starts or *)
(* stops: each step of the program is a step of UnixEndpoint without       *)
(* overlap, or none of its concern.                                        *)
THEOREM LockExcludes == LockedSpec => ServesExclusively
<1>1. LockedInit => Exclusive!Init
  BY SameHelpers DEF LockedInit
<1>2. LockedInv /\ [LockedNext]_lockedVars => [Exclusive!Next]_(Exclusive!vars)
  <2> SUFFICES ASSUME LockedInv, [LockedNext]_lockedVars
               PROVE  [Exclusive!Next]_(Exclusive!vars)
    OBVIOUS
  <2>1. ASSUME NEW p \in Procs, Operate(p) PROVE Exclusive!Next
    <3>1. \A q \in Procs \ {p} : pc[q] \in {"down", "serving", "failed"}
      BY <2>1 DEF Operate, LockedInv, LockPlaces, OperatingStarted,
         Operating, Lock!Started
    <3> QED
      BY <2>1, <3>1, SameSteps DEF Operate, Exclusive!Next
  <2>2. ASSUME NEW p \in Procs, Crash(p) PROVE Exclusive!Next
    BY <2>2 DEF Crash, Exclusive!Crash, Goes, Exclusive!Goes, NoSocket,
       Exclusive!NoSocket, Sockets, Exclusive!Sockets, Exclusive!Next
  <2>3. UNCHANGED vars => UNCHANGED Exclusive!vars
    BY DEF vars, Exclusive!vars
  <2> QED
    BY <2>1, <2>2, <2>3 DEF LockedNext, StartLock, StopLock, Dies, lockedVars
<1> QED
  BY <1>1, <1>2, LockedSafe, PTL DEF LockedSpec, ServesExclusively,
     Exclusive!Spec
=============================================================================
