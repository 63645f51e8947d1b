--------------------------- MODULE BestEffortFeed ---------------------------
(***************************************************************************)
(* What eventbus promises each subscriber, without locks, maps of channels *)
(* or publishers half-way through them: a feed that carries, from the      *)
(* moment it opens until it closes, every publisher's events one after     *)
(* another, but for those that came while this very feed was full.  A      *)
(* publisher goes on to its next event only when every open feed has       *)
(* carried or dropped the one before.                                      *)
(***************************************************************************)
EXTENDS Integers, Sequences

CONSTANTS Publishers, Subs, Size

VARIABLES
    published,  \* events each publisher has published
    feed,       \* each feed is "new", "open" or "closed"
    queue,      \* the events in it
    taken,      \* those its subscriber has received
    due         \* of an open feed: each publisher's next event

vars == <<published, feed, queue, taken, due>>

Nothing == [p \in Publishers |-> 0]

Init ==
    /\ published = Nothing
    /\ feed = [s \in Subs |-> "new"]
    /\ queue = [s \in Subs |-> <<>>]
    /\ taken = [s \in Subs |-> <<>>]
    /\ due = [s \in Subs |-> Nothing]

Publish(p) ==
    /\ \A s \in Subs : feed[s] = "open" => due[s][p] = published[p] + 1
    /\ published' = [published EXCEPT ![p] = @ + 1]
    /\ UNCHANGED <<feed, queue, taken, due>>

(* The feed gets the event that is due, unless it is full.                 *)
Pass(s, p) ==
    /\ feed[s] = "open"
    /\ due[s][p] <= published[p]
    /\ due' = [due EXCEPT ![s][p] = @ + 1]
    /\ \/ /\ Len(queue[s]) < Size
          /\ queue' = [queue EXCEPT ![s] = Append(@, <<p, due[s][p]>>)]
       \/ Len(queue[s]) = Size /\ UNCHANGED queue
    /\ UNCHANGED <<published, feed, taken>>

Open(s) ==
    /\ feed[s] = "new"
    /\ feed' = [feed EXCEPT ![s] = "open"]
    /\ due' = [due EXCEPT ![s] = [p \in Publishers |-> published[p] + 1]]
    /\ UNCHANGED <<published, queue, taken>>

(* What is still in the feed can be received after it is closed.           *)
Close(s) ==
    /\ feed[s] = "open"
    /\ feed' = [feed EXCEPT ![s] = "closed"]
    /\ due' = [due EXCEPT ![s] = Nothing]
    /\ UNCHANGED <<published, queue, taken>>

Take(s) ==
    /\ queue[s] # <<>>
    /\ taken' = [taken EXCEPT ![s] = Append(@, Head(queue[s]))]
    /\ queue' = [queue EXCEPT ![s] = Tail(@)]
    /\ UNCHANGED <<published, feed, due>>

Next ==
    \/ \E p \in Publishers : Publish(p)
    \/ \E s \in Subs : (\E p \in Publishers : Pass(s, p)) \/ Open(s) \/ Close(s) \/ Take(s)

Spec == Init /\ [][Next]_vars
=============================================================================
