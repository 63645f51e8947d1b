------------------------------ MODULE EventBus ------------------------------
(***************************************************************************)
(* eventbus.Broker (eventbus/eventbus.go): publishers offer each event to  *)
(* all subscribers' buffered channels under the read lock and drop it for  *)
(* a subscriber whose buffer is full; unsubscribing deletes and closes the *)
(* channel under the write lock.                                           *)
(*                                                                         *)
(* b.mu is a sync.RWMutex: any number of publishers hold it at a time, and *)
(* a writer that has announced itself keeps new readers out while it waits *)
(* for the old ones.  An event is <<publisher, number>>.                   *)
(***************************************************************************)
EXTENDS Integers, Sequences

CONSTANTS
    Publishers,  \* goroutines that call Publish, one event after another
    Subs,        \* subscriptions, each made and ended at most once
    None,        \* nobody
    Size,        \* the capacity of a subscriber's channel
    MaxEvents    \* bound: events per publisher

ASSUME SizeAssumption == Size \in Nat \ {0}
ASSUME EventsAssumption == MaxEvents \in Nat
ASSUME NoneAssumption == None \notin Subs

Events == Publishers \X (1 .. MaxEvents)

VARIABLES
    subscribers,  \* b.subscribers
    buffer,       \* the contents of each channel
    closed,       \* channels that are closed
    sub,          \* where each subscription is
    writer,       \* the subscription that has announced itself to b.mu
    count,        \* events each publisher has begun to publish
    reading,      \* publishers that hold the read lock
    offered,      \* subscribers a publisher's range has visited
    got,          \* what each subscriber has received
    lost,         \* events dropped because a channel was full, with its subscriber
    since         \* each publisher's count when a subscription began

vars == <<subscribers, buffer, closed, sub, writer, count, reading, offered,
          got, lost, since>>

TypeOK ==
    /\ subscribers \subseteq Subs
    /\ buffer \in [Subs -> Seq(Events)]
    /\ \A s \in Subs : Len(buffer[s]) <= Size
    /\ closed \subseteq Subs
    /\ sub \in [Subs -> {"new", "joining", "in", "leaving", "out"}]
    /\ writer \in Subs \cup {None}
    /\ count \in [Publishers -> 0 .. MaxEvents]
    /\ reading \subseteq Publishers
    /\ offered \in [Publishers -> SUBSET Subs]
    /\ got \in [Subs -> Seq(Events)]
    /\ lost \subseteq Subs \X Events
    /\ since \in [Subs -> [Publishers -> 0 .. MaxEvents]]

Init ==
    /\ subscribers = {}
    /\ buffer = [s \in Subs |-> <<>>]
    /\ closed = {}
    /\ sub = [s \in Subs |-> "new"]
    /\ writer = None
    /\ count = [p \in Publishers |-> 0]
    /\ reading = {}
    /\ offered = [p \in Publishers |-> {}]
    /\ got = [s \in Subs |-> <<>>]
    /\ lost = {}
    /\ since = [s \in Subs |-> [p \in Publishers |-> 0]]

-----------------------------------------------------------------------------
(* Publish takes the read lock.                                            *)
PublishBegin(p) ==
    /\ p \notin reading
    /\ writer = None
    /\ count[p] < MaxEvents
    /\ count' = [count EXCEPT ![p] = @ + 1]
    /\ reading' = reading \cup {p}
    /\ offered' = [offered EXCEPT ![p] = {}]
    /\ UNCHANGED <<subscribers, buffer, closed, sub, writer, got, lost, since>>

(* mutant: the send has no default case.                                   *)
OfferBlocking(p, s) ==
    /\ p \in reading
    /\ s \in subscribers \ offered[p]
    /\ Len(buffer[s]) < Size
    /\ offered' = [offered EXCEPT ![p] = @ \cup {s}]
    /\ buffer' = [buffer EXCEPT ![s] = Append(@, <<p, count[p]>>)]
    /\ UNCHANGED <<subscribers, closed, sub, writer, count, reading, got, lost,
                   since>>

(* mutant: the newest event is put in front and pushes another one out.    *)
OfferReordering(p, s) ==
    /\ p \in reading
    /\ s \in subscribers \ offered[p]
    /\ offered' = [offered EXCEPT ![p] = @ \cup {s}]
    /\ buffer' = [buffer EXCEPT ![s] =
                     <<<<p, count[p]>>>> \o (IF Len(@) < Size THEN @ ELSE Tail(@))]
    /\ UNCHANGED <<subscribers, closed, sub, writer, count, reading, got, lost,
                   since>>

(* mutant: the first full channel ends the range.                          *)
OfferUntilFull(p, s) ==
    /\ p \in reading
    /\ s \in subscribers \ offered[p]
    /\ \/ /\ Len(buffer[s]) < Size
          /\ buffer' = [buffer EXCEPT ![s] = Append(@, <<p, count[p]>>)]
          /\ offered' = [offered EXCEPT ![p] = @ \cup {s}]
          /\ UNCHANGED lost
       \/ /\ Len(buffer[s]) = Size
          /\ lost' = lost \cup {<<s, <<p, count[p]>>>>}
          /\ offered' = [offered EXCEPT ![p] = Subs]
          /\ UNCHANGED buffer
    /\ UNCHANGED <<subscribers, closed, sub, writer, count, reading, got, since>>

(* One pass of Publish's range, in whatever order the map is visited: the  *)
(* event is sent, or dropped because the channel is full.                  *)
Offer(p, s) ==
    /\ p \in reading
    /\ s \in subscribers \ offered[p]
    /\ offered' = [offered EXCEPT ![p] = @ \cup {s}]
    /\ \/ /\ Len(buffer[s]) < Size
          /\ buffer' = [buffer EXCEPT ![s] = Append(@, <<p, count[p]>>)]
          /\ UNCHANGED lost
       \/ /\ Len(buffer[s]) = Size
          /\ lost' = lost \cup {<<s, <<p, count[p]>>>>}
          /\ UNCHANGED buffer
    /\ UNCHANGED <<subscribers, closed, sub, writer, count, reading, got, since>>

PublishEnd(p) ==
    /\ p \in reading
    /\ subscribers \subseteq offered[p]
    /\ reading' = reading \ {p}
    /\ UNCHANGED <<subscribers, buffer, closed, sub, writer, count, offered,
                   got, lost, since>>

-----------------------------------------------------------------------------
(* Subscribe and the unsubscribe function: announce to b.mu ...            *)
Announce(s, from, to) ==
    /\ sub[s] = from
    /\ writer = None
    /\ writer' = s
    /\ sub' = [sub EXCEPT ![s] = to]
    /\ UNCHANGED <<subscribers, buffer, closed, count, reading, offered, got,
                   lost, since>>

(* ... and once the readers have left, do what the lock is for.            *)
SubscribeLocked(s) ==
    /\ sub[s] = "joining"
    /\ reading = {}
    /\ subscribers' = subscribers \cup {s}
    /\ sub' = [sub EXCEPT ![s] = "in"]
    /\ writer' = None
    /\ since' = [since EXCEPT ![s] = count]
    /\ UNCHANGED <<buffer, closed, count, reading, offered, got, lost>>

(* mutant: the channel is closed without waiting for the write lock.       *)
UnsubscribeUnlocked(s) ==
    /\ sub[s] = "leaving"
    /\ closed' = closed \cup {s}
    /\ subscribers' = IF reading = {} THEN subscribers \ {s} ELSE subscribers
    /\ sub' = [sub EXCEPT ![s] = IF reading = {} THEN "out" ELSE "leaving"]
    /\ writer' = IF reading = {} THEN None ELSE writer
    /\ UNCHANGED <<buffer, count, reading, offered, got, lost, since>>

UnsubscribeLocked(s) ==
    /\ sub[s] = "leaving"
    /\ reading = {}
    /\ subscribers' = subscribers \ {s}
    /\ closed' = closed \cup {s}
    /\ sub' = [sub EXCEPT ![s] = "out"]
    /\ writer' = None
    /\ UNCHANGED <<buffer, count, reading, offered, got, lost, since>>

(* The subscriber receives from its channel, also after it was closed.     *)
Receive(s) ==
    /\ buffer[s] # <<>>
    /\ got' = [got EXCEPT ![s] = Append(@, Head(buffer[s]))]
    /\ buffer' = [buffer EXCEPT ![s] = Tail(@)]
    /\ UNCHANGED <<subscribers, closed, sub, writer, count, reading, offered,
                   lost, since>>

PublishStep(p) == (\E s \in Subs : Offer(p, s)) \/ PublishEnd(p)

SubscriptionStep(s) == SubscribeLocked(s) \/ UnsubscribeLocked(s)

Next ==
    \/ \E p \in Publishers : PublishBegin(p) \/ PublishStep(p)
    \/ \E s \in Subs :
          \/ Announce(s, "new", "joining")
          \/ Announce(s, "in", "leaving")
          \/ SubscriptionStep(s)
          \/ Receive(s)

Spec == Init /\ [][Next]_vars

(* Goroutines run.  No subscriber is obliged to receive.                   *)
Fairness ==
    /\ \A p \in Publishers : WF_vars(PublishStep(p))
    /\ \A s \in Subs : WF_vars(SubscriptionStep(s))

FairSpec == Spec /\ Fairness

-----------------------------------------------------------------------------
(* What a subscriber has received, followed by what it still will.         *)
Stream(s) == got[s] \o buffer[s]

(* A subscriber sees each publisher's events in the order in which they    *)
(* were published and none twice, whatever was dropped in between.         *)
OrderedPerPublisher ==
    \A s \in Subs : \A i, j \in DOMAIN Stream(s) :
       i < j /\ Stream(s)[i][1] = Stream(s)[j][1]
          => Stream(s)[i][2] < Stream(s)[j][2]

(* A slow subscriber costs only itself events: one that was subscribed     *)
(* throughout a Publish has the event, or its own channel was full.        *)
SlowHurtsOnlyItself ==
    \A s \in subscribers, p \in Publishers \ reading :
       \A n \in since[s][p] + 1 .. count[p] :
          <<s, <<p, n>>>> \in lost \/ \E i \in DOMAIN Stream(s) : Stream(s)[i] = <<p, n>>

(* Publishing never races with unsubscribing: no channel that a Publish is *)
(* about to send on is closed, which would panic.                          *)
NeverPanics ==
    \A p \in reading : (subscribers \ offered[p]) \cap closed = {}

(* How the broker looks to its subscribers: an event is due on a feed from *)
(* PublishBegin until the range has visited it.                            *)
Feed(s) ==
    IF s \in closed THEN "closed" ELSE IF s \in subscribers THEN "open" ELSE "new"

Due(s, p) ==
    IF s \notin subscribers THEN 0
    ELSE IF p \in reading /\ s \notin offered[p] THEN count[p] ELSE count[p] + 1

Feeds == INSTANCE BestEffortFeed WITH
            published <- count, queue <- buffer, taken <- got,
            feed <- [s \in Subs |-> Feed(s)],
            due <- [s \in Subs |-> [p \in Publishers |-> Due(s, p)]]

(* The broker implements the feeds: each subscriber gets, from Subscribe   *)
(* to the call of unsubscribe, every publisher's events in order, without  *)
(* a repetition and without a gap other than those its own full channel    *)
(* causes, and nothing afterwards; whoever else comes, goes or is slow.    *)
FeedsAreKept == Feeds!Spec

(* Subscribing and unsubscribing end although publishers keep publishing.  *)
SubscriptionReturns ==
    \A s \in Subs : (sub[s] \in {"joining", "leaving"}) ~> (sub[s] \in {"in", "out"})
=============================================================================
