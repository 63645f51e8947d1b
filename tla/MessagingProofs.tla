-------------------------- MODULE MessagingProofs --------------------------
(***************************************************************************)
(* The safety of what carries messages: the event bus, for any number of   *)
(* publishers, subscribers and events and any capacity of the channels,    *)
(* and the embedded NATS server, for any number of successive runs, of     *)
(* overlapping Stops and of directories that cannot be removed.            *)
(***************************************************************************)
EXTENDS EventBus, EmbeddedNats, SequenceTheorems, TLAPS

(* The write lock is announced by a subscription that joins or leaves; the *)
(* map holds the others that are in, and only those out are closed.        *)
(* Whoever is reading publishes some event.                                *)
Membership ==
    /\ \A s \in Subs :
          /\ sub[s] \in {"joining", "leaving"} <=> writer = s
          /\ sub[s] \in {"in", "leaving"} <=> s \in subscribers
          /\ sub[s] = "out" <=> s \in closed
    /\ \A p \in reading : count[p] # 0

Holds(q, e) == \E i \in DOMAIN q : q[i] = e

Ordered(q) ==
    \A i, j \in DOMAIN q : i < j /\ q[i][1] = q[j][1] => q[i][2] < q[j][2]

(* A stream holds events that have been published, and the current one of  *)
(* a publisher only once its range has visited the subscriber.             *)
Past(s, e) ==
    /\ e[2] <= count[e[1]]
    /\ e[1] \in reading /\ s \notin offered[e[1]] => e[2] < count[e[1]]

StreamsPast == \A s \in Subs : \A i \in DOMAIN Stream(s) : Past(s, Stream(s)[i])

StreamsOrdered == \A s \in Subs : Ordered(Stream(s))

(* Every event published since a subscription began is in its stream, was  *)
(* lost to a full channel, or is still to be offered.                      *)
Accounted ==
    \A s \in Subs, p \in Publishers :
       \A n \in since[s][p] + 1 .. count[p] :
          \/ s \notin subscribers
          \/ p \in reading /\ n = count[p] /\ s \notin offered[p]
          \/ <<s, <<p, n>>>> \in lost
          \/ Holds(Stream(s), <<p, n>>)

BusInv ==
    /\ TypeOK
    /\ Membership
    /\ StreamsPast
    /\ StreamsOrdered
    /\ Accounted

-----------------------------------------------------------------------------
(* What one more event at the end does to a stream.                        *)
LEMMA AppendStream ==
  ASSUME NEW q \in Seq(Events), NEW e \in Events
  PROVE  /\ Append(q, e) \in Seq(Events)
         /\ \A f : Holds(Append(q, e), f) <=> Holds(q, f) \/ f = e
         /\ Ordered(q) /\ (\A i \in DOMAIN q : q[i][1] = e[1] => q[i][2] < e[2])
               => Ordered(Append(q, e))
BY AppendProperties DEF Holds, Ordered

(* A stream is a sequence of events.                                       *)
LEMMA StreamTyped == TypeOK => \A s \in Subs : Stream(s) \in Seq(Events)
BY ConcatProperties DEF TypeOK, Stream

(* A send on the channel appends to the stream ...                         *)
LEMMA SentStream ==
  ASSUME NEW g \in Seq(Events), NEW b \in Seq(Events), NEW e \in Events
  PROVE  g \o Append(b, e) = Append(g \o b, e)
<1>1. g \o Append(b, e) = g \o (b \o <<e>>)
  BY AppendIsConcat
<1>2. @ = (g \o b) \o <<e>>
  BY ConcatAssociative, <<e>> \in Seq(Events)
<1>3. @ = Append(g \o b, e)
  BY AppendIsConcat, ConcatProperties
<1> QED
  BY <1>1, <1>2, <1>3

(* ... and receiving leaves it as it is.                                   *)
LEMMA ReceivedStream ==
  ASSUME NEW g \in Seq(Events), NEW b \in Seq(Events), b # <<>>
  PROVE  /\ Append(g, Head(b)) \o Tail(b) = g \o b
         /\ Append(g, Head(b)) \in Seq(Events) /\ Tail(b) \in Seq(Events)
<1>1. Head(b) \in Events /\ Tail(b) \in Seq(Events) /\ <<Head(b)>> \in Seq(Events)
  BY HeadTailProperties
<1>2. Append(g, Head(b)) \o Tail(b) = (g \o <<Head(b)>>) \o Tail(b)
  BY <1>1, AppendIsConcat
<1>3. @ = g \o (<<Head(b)>> \o Tail(b))
  BY <1>1, ConcatAssociative
<1>4. <<Head(b)>> \o Tail(b) = b
  BY <1>1, ConcatProperties, HeadTailProperties, SeqEqual
<1> QED
  BY <1>1, <1>2, <1>3, <1>4, AppendProperties

-----------------------------------------------------------------------------
(* Nobody has subscribed or published.                                     *)
LEMMA BusInit == Init => BusInv
<1> SUFFICES ASSUME Init PROVE BusInv
  OBVIOUS
<1>1. TypeOK /\ Membership
  BY SizeAssumption, EventsAssumption, NoneAssumption DEF Init, TypeOK,
     Membership
<1>2. \A s \in Subs : DOMAIN Stream(s) = {}
  BY DEF Init, Stream
<1>3. Accounted
  BY DEF Init, Accounted
<1> QED
  BY <1>1, <1>2, <1>3 DEF BusInv, StreamsPast, StreamsOrdered, Ordered

(* What leaves the streams alone and the publishers alone keeps the part   *)
(* of the invariant that is about them.                                    *)
LEMMA StreamsKept ==
  ASSUME BusInv, \A s \in Subs : (Stream(s))' = Stream(s),
         UNCHANGED <<count, reading, offered>>
  PROVE  (StreamsPast /\ StreamsOrdered)'
BY DEF BusInv, StreamsPast, StreamsOrdered, Past, Ordered

(* Nor does it lose an event of a subscription that stays.                 *)
LEMMA AccountedKept ==
  ASSUME BusInv, \A s \in Subs : (Stream(s))' = Stream(s),
         subscribers' \subseteq subscribers,
         UNCHANGED <<count, reading, offered, lost, since>>
  PROVE  Accounted'
<1>1. \A s \in Subs : \A f : (Holds(Stream(s), f))' <=> Holds(Stream(s), f)
  BY DEF Holds
<1> QED
  BY <1>1 DEF BusInv, Accounted

(* One pass of Publish's range.                                            *)
LEMMA OfferStep ==
  ASSUME BusInv, NEW p \in Publishers, NEW s \in Subs, Offer(p, s)
  PROVE  BusInv'
<1> DEFINE e == <<p, count[p]>>
<1>1. e \in Events /\ s \in subscribers /\ s \notin offered[p] /\ p \in reading
  BY EventsAssumption DEF Events, BusInv, TypeOK, Membership, Offer
<1>2. /\ offered' = [offered EXCEPT ![p] = @ \cup {s}]
      /\ offered'[p] = offered[p] \cup {s}
      /\ \A q \in Publishers \ {p} : offered'[q] = offered[q]
      /\ UNCHANGED <<subscribers, closed, sub, writer, count, reading, got, since>>
  BY DEF Offer, BusInv, TypeOK
<1>3. \A t \in Subs \ {s} : (Stream(t))' = Stream(t)
  BY DEF Offer, BusInv, TypeOK, Stream
<1>4. Stream(s) \in Seq(Events)
  BY StreamTyped DEF BusInv
<1>5. \/ (Stream(s))' = Stream(s) /\ lost' = lost \cup {<<s, e>>}
      \/ (Stream(s))' = Append(Stream(s), e) /\ lost' = lost
  <2>1. CASE buffer' = buffer /\ lost' = lost \cup {<<s, e>>}
    BY <1>2, <2>1 DEF Stream
  <2>2. CASE buffer' = [buffer EXCEPT ![s] = Append(@, e)] /\ lost' = lost
    <3>1. got[s] \in Seq(Events) /\ buffer[s] \in Seq(Events)
      BY DEF BusInv, TypeOK
    <3>2. (Stream(s))' = got[s] \o Append(buffer[s], e)
      BY <1>2, <2>2 DEF Stream, BusInv, TypeOK
    <3> QED
      BY <1>1, <2>2, <3>1, <3>2, SentStream DEF Stream
  <2> QED
    BY <2>1, <2>2 DEF Offer
<1>6. \A f : Holds(Stream(s), f) => (Holds(Stream(s), f))'
  <2>1. CASE (Stream(s))' = Stream(s)
    BY <2>1 DEF Holds
  <2>2. CASE (Stream(s))' = Append(Stream(s), e)
    BY <1>1, <1>4, <2>2, AppendStream DEF Holds
  <2> QED
    BY <1>5, <2>1, <2>2
<1>7. TypeOK' /\ Membership'
  <2>1. Membership'
    BY <1>2 DEF BusInv, Membership
  <2>2. lost' \subseteq Subs \X Events
    <3>1. <<s, e>> \in Subs \X Events /\ lost \subseteq Subs \X Events
      BY <1>1 DEF BusInv, TypeOK
    <3> QED
      BY <1>5, <3>1
  <2>3. (buffer \in [Subs -> Seq(Events)] /\ \A t \in Subs : Len(buffer[t]) <= Size)'
    <3>1. CASE buffer' = buffer
      BY <3>1 DEF BusInv, TypeOK
    <3>2. CASE Len(buffer[s]) < Size /\ buffer' = [buffer EXCEPT ![s] = Append(@, e)]
      <4>1. Append(buffer[s], e) \in Seq(Events) /\ Len(Append(buffer[s], e)) <= Size
        BY <1>1, <3>2, AppendProperties, LenProperties, SizeAssumption
           DEF BusInv, TypeOK
      <4> QED
        BY <3>2, <4>1 DEF BusInv, TypeOK
    <3> QED
      BY <3>1, <3>2 DEF Offer
  <2> QED
    BY <1>2, <2>1, <2>2, <2>3 DEF BusInv, TypeOK
<1>8. StreamsOrdered'
  <2>1. \A i \in DOMAIN Stream(s) : Stream(s)[i][1] = p => Stream(s)[i][2] < count[p]
    BY <1>1 DEF BusInv, StreamsPast, Past
  <2>2. Ordered((Stream(s))')
    <3>1. Ordered(Stream(s))
      BY DEF BusInv, StreamsOrdered
    <3>2. CASE (Stream(s))' = Stream(s)
      BY <3>1, <3>2
    <3>3. CASE (Stream(s))' = Append(Stream(s), e)
      BY <1>1, <1>4, <2>1, <3>1, <3>3, AppendStream
    <3> QED
      BY <1>5, <3>2, <3>3
  <2> QED
    BY <1>3, <2>2 DEF BusInv, StreamsOrdered, Ordered
<1>9. StreamsPast'
  <2> SUFFICES ASSUME NEW t \in Subs, NEW i \in DOMAIN (Stream(t))'
               PROVE  (Past(t, Stream(t)[i]))'
    BY DEF StreamsPast
  <2> DEFINE old == i \in DOMAIN Stream(t) /\ (Stream(t))'[i] = Stream(t)[i]
  <2>1. CASE old
    <3>1. Stream(t)[i] \in Events /\ Past(t, Stream(t)[i])
      BY <2>1, StreamTyped, ElementOfSeq DEF BusInv, StreamsPast
    <3>2. Stream(t)[i][1] \in Publishers
      BY <3>1 DEF Events
    <3>3. t \notin offered'[Stream(t)[i][1]] => t \notin offered[Stream(t)[i][1]]
      BY <1>2, <3>2
    <3> QED
      BY <1>2, <2>1, <3>1, <3>3 DEF Past
  <2>2. CASE ~old
    <3>1. t = s /\ (Stream(t))'[i] = e
      <4>1. t = s
        BY <1>3, <2>2
      <4>2. (Stream(s))' = Append(Stream(s), e)
        BY <1>5, <2>2, <4>1
      <4>3. /\ DOMAIN Stream(s) = 1 .. Len(Stream(s))
            /\ DOMAIN Append(Stream(s), e) = 1 .. Len(Stream(s)) + 1
            /\ \A j \in 1 .. Len(Stream(s)) : Append(Stream(s), e)[j] = Stream(s)[j]
            /\ Append(Stream(s), e)[Len(Stream(s)) + 1] = e
        BY <1>1, <1>4, AppendProperties
      <4> QED
        BY <1>4, <2>2, <4>1, <4>2, <4>3
    <3>2. count[p] \in Int /\ e[1] = p /\ e[2] = count[p]
      BY <1>1, EventsAssumption DEF BusInv, TypeOK
    <3> QED
      BY <1>1, <1>2, <3>1, <3>2 DEF Past
  <2> QED
    BY <2>1, <2>2
<1>10. Accounted'
  <2>1. \A t \in Subs : \A f : Holds(Stream(t), f) => (Holds(Stream(t), f))'
    BY <1>3, <1>6 DEF Holds
  <2>2. ASSUME NEW f, f = e PROVE <<s, f>> \in lost' \/ (Holds(Stream(s), f))'
    BY <1>1, <1>4, <1>5, <2>2, AppendStream DEF Holds
  <2>3. lost \subseteq lost'
    BY <1>5
  <2> QED
    BY <1>2, <2>1, <2>2, <2>3 DEF BusInv, TypeOK, Accounted
<1> QED
  BY <1>7, <1>8, <1>9, <1>10 DEF BusInv

(* Every step of publishers and subscriptions.                             *)
LEMMA BusStep == BusInv /\ [Next]_vars => BusInv'
<1> SUFFICES ASSUME BusInv, [Next]_vars PROVE BusInv'
  OBVIOUS
<1>1. ASSUME NEW p \in Publishers, PublishBegin(p) PROVE BusInv'
  <2>1. TypeOK' /\ Membership'
    <3>1. Membership'
      BY <1>1, EventsAssumption DEF PublishBegin, BusInv, TypeOK, Membership
    <3>2. count[p] + 1 \in 0 .. MaxEvents
      BY <1>1, EventsAssumption DEF PublishBegin, BusInv, TypeOK
    <3>3. TypeOK'
      BY <1>1, <3>2 DEF PublishBegin, BusInv, TypeOK
    <3> QED
      BY <3>1, <3>3
  <2>2. \A s \in Subs : (Stream(s))' = Stream(s)
    BY <1>1 DEF PublishBegin, Stream
  <2>3. (StreamsPast /\ StreamsOrdered)'
    <3>1. StreamsOrdered'
      BY <2>2 DEF BusInv, StreamsOrdered, Ordered
    <3>2. ASSUME NEW s \in Subs, NEW i \in DOMAIN Stream(s)
          PROVE  (Past(s, Stream(s)[i]))'
      <4>1. Stream(s)[i] \in Events /\ Past(s, Stream(s)[i])
        BY StreamTyped, ElementOfSeq DEF BusInv, StreamsPast
      <4>2. PICK q \in Publishers, n \in 1 .. MaxEvents : Stream(s)[i] = <<q, n>>
        BY <4>1 DEF Events
      <4> QED
        BY <1>1, <2>2, <4>1, <4>2, EventsAssumption DEF PublishBegin, Past,
           BusInv, TypeOK
    <3> QED
      BY <2>2, <3>1, <3>2 DEF StreamsPast
  <2>4. Accounted'
    <3>1. \A s \in Subs : \A f : (Holds(Stream(s), f))' <=> Holds(Stream(s), f)
      BY <2>2 DEF Holds
    <3>2. \A q \in Publishers : count[q] \in Int /\ \A s \in Subs : since[s][q] \in Int
      BY EventsAssumption DEF BusInv, TypeOK
    <3>3. count'[p] = count[p] + 1 /\ \A q \in Publishers \ {p} : count'[q] = count[q]
      BY <1>1 DEF PublishBegin, BusInv, TypeOK
    <3>4. ASSUME NEW s \in Subs, NEW q \in Publishers, NEW n \in since[s][q] + 1 .. count'[q],
                 s \in subscribers
          PROVE  \/ (q \in reading /\ n = count[q] /\ s \notin offered[q])'
                 \/ <<s, <<q, n>>>> \in lost \/ Holds(Stream(s), <<q, n>>)
      <4>1. CASE q = p /\ n = count[p] + 1
        BY <1>1, <3>3, <4>1 DEF PublishBegin, BusInv, TypeOK
      <4>2. CASE q = p /\ n # count[p] + 1
        <5>1. n \in since[s][p] + 1 .. count[p]
          BY <3>2, <3>3, <3>4, <4>2
        <5> QED
          BY <1>1, <3>4, <4>2, <5>1 DEF PublishBegin, BusInv, Accounted
      <4>3. CASE q # p
        BY <1>1, <3>3, <3>4, <4>3 DEF PublishBegin, BusInv, TypeOK, Accounted
      <4> QED
        BY <4>1, <4>2, <4>3
    <3> QED
      BY <1>1, <3>1, <3>4 DEF PublishBegin, Accounted
  <2> QED
    BY <2>1, <2>3, <2>4 DEF BusInv
<1>2. ASSUME NEW p \in Publishers, NEW s \in Subs, Offer(p, s) PROVE BusInv'
  BY <1>2, OfferStep
<1>3. ASSUME NEW p \in Publishers, PublishEnd(p) PROVE BusInv'
  <2>1. (TypeOK /\ Membership)'
    BY <1>3 DEF PublishEnd, BusInv, TypeOK, Membership
  <2>2. \A s \in Subs : (Stream(s))' = Stream(s)
    BY <1>3 DEF PublishEnd, Stream
  <2>3. (StreamsPast /\ StreamsOrdered)'
    BY <1>3, <2>2 DEF PublishEnd, BusInv, StreamsPast, StreamsOrdered, Past,
       Ordered
  <2>4. Accounted'
    <3>1. \A s \in Subs : \A f : (Holds(Stream(s), f))' <=> Holds(Stream(s), f)
      BY <2>2 DEF Holds
    <3> QED
      BY <1>3, <3>1 DEF PublishEnd, BusInv, TypeOK, Accounted
  <2> QED
    BY <2>1, <2>3, <2>4 DEF BusInv
<1>4. ASSUME NEW s \in Subs,
             Announce(s, "new", "joining") \/ Announce(s, "in", "leaving")
      PROVE  BusInv'
  <2>1. (TypeOK /\ Membership)'
    <3>1. /\ sub[s] \in {"new", "in"} /\ writer = None /\ writer' = s
          /\ \E to \in {"joining", "leaving"} :
                /\ sub[s] = IF to = "joining" THEN "new" ELSE "in"
                /\ sub' = [sub EXCEPT ![s] = to]
          /\ UNCHANGED <<subscribers, buffer, closed, count, reading, offered,
                         got, lost, since>>
      BY <1>4 DEF Announce
    <3>2. TypeOK'
      BY <3>1 DEF BusInv, TypeOK
    <3>3. Membership'
      BY <3>1, NoneAssumption DEF BusInv, TypeOK, Membership
    <3> QED
      BY <3>2, <3>3
  <2>2. \A t \in Subs : (Stream(t))' = Stream(t)
    BY <1>4 DEF Announce, Stream
  <2>3. (StreamsPast /\ StreamsOrdered)'
    BY <1>4, <2>2, StreamsKept DEF Announce
  <2>4. Accounted'
    BY <1>4, <2>2, AccountedKept DEF Announce
  <2> QED
    BY <2>1, <2>3, <2>4 DEF BusInv
<1>5. ASSUME NEW s \in Subs, SubscribeLocked(s) PROVE BusInv'
  <2>1. (TypeOK /\ Membership)'
    BY <1>5, NoneAssumption DEF SubscribeLocked, BusInv, TypeOK, Membership
  <2>2. \A t \in Subs : (Stream(t))' = Stream(t)
    BY <1>5 DEF SubscribeLocked, Stream
  <2>3. (StreamsPast /\ StreamsOrdered)'
    BY <1>5, <2>2, StreamsKept DEF SubscribeLocked
  <2>4. Accounted'
    <3>1. \A t \in Subs : \A f : (Holds(Stream(t), f))' <=> Holds(Stream(t), f)
      BY <2>2 DEF Holds
    <3>2. ASSUME NEW q \in Publishers
          PROVE  since'[s][q] = count[q] /\ count[q] \in Int /\ count'[q] = count[q]
      BY <1>5, EventsAssumption DEF SubscribeLocked, BusInv, TypeOK
    <3>3. \A t \in Subs \ {s} : since'[t] = since[t]
      BY <1>5 DEF SubscribeLocked, BusInv, TypeOK
    <3>4. ASSUME NEW t \in Subs, NEW q \in Publishers, NEW n \in since'[t][q] + 1 .. count'[q],
                 t \in subscribers'
          PROVE  \/ (q \in reading /\ n = count[q] /\ t \notin offered[q])'
                 \/ (<<t, <<q, n>>>> \in lost)' \/ (Holds(Stream(t), <<q, n>>))'
      <4>1. CASE t = s
        BY <3>2, <3>4, <4>1
      <4>2. CASE t # s
        BY <1>5, <3>1, <3>3, <3>4, <4>2 DEF SubscribeLocked, BusInv, Accounted
      <4> QED
        BY <4>1, <4>2
    <3> QED
      BY <3>4 DEF Accounted
  <2> QED
    BY <2>1, <2>3, <2>4 DEF BusInv
<1>6. ASSUME NEW s \in Subs, UnsubscribeLocked(s) PROVE BusInv'
  <2>1. (TypeOK /\ Membership)'
    BY <1>6, NoneAssumption DEF UnsubscribeLocked, BusInv, TypeOK, Membership
  <2>2. \A t \in Subs : (Stream(t))' = Stream(t)
    BY <1>6 DEF UnsubscribeLocked, Stream
  <2>3. (StreamsPast /\ StreamsOrdered)'
    BY <1>6, <2>2, StreamsKept DEF UnsubscribeLocked
  <2>4. Accounted'
    BY <1>6, <2>2, AccountedKept DEF UnsubscribeLocked
  <2> QED
    BY <2>1, <2>3, <2>4 DEF BusInv
<1>7. ASSUME NEW s \in Subs, Receive(s) PROVE BusInv'
  <2>0. /\ got[s] \in Seq(Events) /\ buffer[s] \in Seq(Events) /\ buffer[s] # <<>>
        /\ got' = [got EXCEPT ![s] = Append(got[s], Head(buffer[s]))]
        /\ buffer' = [buffer EXCEPT ![s] = Tail(buffer[s])]
    BY <1>7 DEF Receive, BusInv, TypeOK
  <2>1. TypeOK' /\ Membership'
    <3>1. Membership'
      BY <1>7 DEF Receive, BusInv, Membership
    <3>2. got' \in [Subs -> Seq(Events)] /\ buffer' \in [Subs -> Seq(Events)]
      BY <2>0, ReceivedStream DEF BusInv, TypeOK
    <3>3. Len(Tail(buffer[s])) <= Size
      BY <2>0, HeadTailProperties, LenProperties, SizeAssumption DEF BusInv,
         TypeOK
    <3>4. \A t \in Subs : Len(buffer'[t]) <= Size
      BY <2>0, <3>3 DEF BusInv, TypeOK
    <3> QED
      BY <1>7, <3>1, <3>2, <3>4 DEF Receive, BusInv, TypeOK
  <2>2. \A t \in Subs : (Stream(t))' = Stream(t)
    <3>1. (Stream(s))' = Stream(s)
      BY <2>0, ReceivedStream DEF Stream, BusInv, TypeOK
    <3>2. \A t \in Subs \ {s} : (Stream(t))' = Stream(t)
      BY <2>0 DEF Stream, BusInv, TypeOK
    <3> QED
      BY <3>1, <3>2
  <2>3. (StreamsPast /\ StreamsOrdered)'
    BY <1>7, <2>2, StreamsKept DEF Receive
  <2>4. Accounted'
    BY <1>7, <2>2, AccountedKept DEF Receive
  <2> QED
    BY <2>1, <2>3, <2>4 DEF BusInv
<1>8. CASE UNCHANGED vars
  <2>1. (TypeOK /\ Membership)'
    BY <1>8 DEF vars, BusInv, TypeOK, Membership
  <2>2. \A s \in Subs : (Stream(s))' = Stream(s)
    BY <1>8 DEF vars, Stream
  <2> QED
    BY <1>8, <2>1, <2>2, StreamsKept, AccountedKept DEF vars, BusInv
<1> QED
  BY <1>1, <1>2, <1>3, <1>4, <1>5, <1>6, <1>7, <1>8
  DEF Next, PublishStep, SubscriptionStep

(* The invariant holds throughout.                                         *)
LEMMA BusSafe == Spec => []BusInv
BY BusInit, BusStep, PTL DEF Spec

(* No Publish is about to send on a closed channel: unsubscribing closes   *)
(* a channel only once it is out of the map and no range is under way.     *)
THEOREM NoSendOnClosed == Spec => []NeverPanics
<1>1. BusInv => NeverPanics
  BY DEF BusInv, TypeOK, Membership, NeverPanics
<1> QED
  BY <1>1, BusSafe, PTL

(* Each subscriber sees each publisher's events in their order.            *)
THEOREM StreamsInOrder == Spec => []OrderedPerPublisher
<1>1. BusInv => OrderedPerPublisher
  BY DEF BusInv, StreamsOrdered, Ordered, OrderedPerPublisher
<1> QED
  BY <1>1, BusSafe, PTL

(* A subscriber misses an event of a Publish it was there for only if its  *)
(* own channel was full.                                                   *)
THEOREM OwnLossesOnly == Spec => []SlowHurtsOnlyItself
<1>1. BusInv => SlowHurtsOnlyItself
  BY DEF BusInv, TypeOK, Accounted, Holds, SlowHurtsOnlyItself
<1> QED
  BY <1>1, BusSafe, PTL

(* Where nobody's place in a range and no subscription changes, an event   *)
(* is due where it was.                                                    *)
LEMMA DueUnchanged ==
  UNCHANGED <<subscribers, closed, count, reading, offered>>
    => \A s \in Subs : /\ (Feed(s))' = Feed(s)
                       /\ \A p \in Publishers : (Due(s, p))' = Due(s, p)
BY DEF Feed, Due

(* A publisher begins and ends without any subscriber noticing: its event  *)
(* is due as soon as it is counted, and no feed is open when its range is  *)
(* over that has not been visited.                                         *)
LEMMA PublishHidden ==
  ASSUME BusInv, NEW p \in Publishers, PublishBegin(p) \/ PublishEnd(p)
  PROVE  \A s \in Subs : /\ (Feed(s))' = Feed(s)
                         /\ \A q \in Publishers : (Due(s, q))' = Due(s, q)
<1> SUFFICES ASSUME NEW s \in Subs, NEW q \in Publishers
             PROVE  (Feed(s))' = Feed(s) /\ (Due(s, q))' = Due(s, q)
  OBVIOUS
<1>1. UNCHANGED <<subscribers, closed>>
  BY DEF PublishBegin, PublishEnd
<1>2. (Feed(s))' = Feed(s)
  BY <1>1 DEF Feed
<1>3. CASE q # p
  <2>1. /\ count'[q] = count[q] /\ offered'[q] = offered[q]
        /\ q \in reading' <=> q \in reading
    BY <1>3 DEF PublishBegin, PublishEnd, BusInv, TypeOK
  <2> QED
    BY <1>1, <1>2, <2>1 DEF Due
<1>4. CASE q = p /\ PublishBegin(p)
  <2>1. /\ p \notin reading /\ p \in reading' /\ offered'[p] = {}
        /\ count'[p] = count[p] + 1
    BY <1>4 DEF PublishBegin, BusInv, TypeOK
  <2> QED
    BY <1>1, <1>2, <1>4, <2>1 DEF Due
<1>5. CASE q = p /\ PublishEnd(p)
  <2>1. p \notin reading' /\ count' = count /\ subscribers \subseteq offered[p]
    BY <1>5 DEF PublishEnd
  <2> QED
    BY <1>1, <1>2, <1>5, <2>1 DEF Due
<1> QED
  BY <1>3, <1>4, <1>5

(* One pass of the range passes the event that is due on that feed, or     *)
(* drops it because that feed is full.                                     *)
LEMMA OfferPasses ==
  ASSUME BusInv, NEW p \in Publishers, NEW s \in Subs, Offer(p, s)
  PROVE  Feeds!Pass(s, p)
<1>1. s \in subscribers /\ s \notin closed /\ p \in reading /\ s \notin offered[p]
  BY DEF Offer, BusInv, Membership
<1>2. /\ UNCHANGED <<subscribers, closed, count, reading, got>>
      /\ offered' = [offered EXCEPT ![p] = offered[p] \cup {s}]
  BY DEF Offer
<1>3. Feed(s) = "open" /\ Due(s, p) = count[p] /\ count[p] \in Int
  BY <1>1, EventsAssumption DEF Feed, Due, BusInv, TypeOK
<1>4. (Due(s, p))' = count[p] + 1
  BY <1>1, <1>2 DEF Due, BusInv, TypeOK
<1>5. ASSUME NEW t \in Subs, NEW q \in Publishers, t # s \/ q # p
      PROVE  (Due(t, q))' = Due(t, q)
  <2>1. t \in offered'[q] <=> t \in offered[q]
    BY <1>2, <1>5 DEF BusInv, TypeOK
  <2> QED
    BY <1>2, <2>1 DEF Due
<1>6. [t \in Subs |-> [q \in Publishers |-> (Due(t, q))']]
         = [[t \in Subs |-> [q \in Publishers |-> Due(t, q)]]
               EXCEPT ![s][p] = @ + 1]
  BY <1>3, <1>4, <1>5
<1>7. \A t \in Subs : (Feed(t))' = Feed(t)
  BY <1>2 DEF Feed
<1>8. \/ Len(buffer[s]) < Size
         /\ buffer' = [buffer EXCEPT ![s] = Append(@, <<p, Due(s, p)>>)]
      \/ Len(buffer[s]) = Size /\ UNCHANGED buffer
  BY <1>3 DEF Offer
<1> QED
  BY <1>2, <1>3, <1>6, <1>7, <1>8 DEF Feeds!Pass

(* The write lock opens a feed between two events of every publisher ...   *)
LEMMA SubscribeOpens ==
  ASSUME BusInv, NEW s \in Subs, SubscribeLocked(s)
  PROVE  Feeds!Open(s)
<1>1. s \notin subscribers /\ s \notin closed /\ reading = {}
  BY DEF SubscribeLocked, BusInv, Membership
<1>2. /\ UNCHANGED <<buffer, closed, count, reading, offered, got>>
      /\ subscribers' = subscribers \cup {s}
  BY DEF SubscribeLocked
<1>3. \A t \in Subs \ {s} : /\ (Feed(t))' = Feed(t)
                            /\ \A q \in Publishers : (Due(t, q))' = Due(t, q)
  BY <1>2 DEF Feed, Due
<1>4. /\ Feed(s) = "new" /\ (Feed(s))' = "open"
      /\ \A q \in Publishers : (Due(s, q))' = count[q] + 1
  BY <1>1, <1>2 DEF Feed, Due
<1> QED
  BY <1>2, <1>3, <1>4 DEF Feeds!Open

(* ... and closes it between two events.                                   *)
LEMMA UnsubscribeCloses ==
  ASSUME BusInv, NEW s \in Subs, UnsubscribeLocked(s)
  PROVE  Feeds!Close(s)
<1>1. s \in subscribers /\ s \notin closed
  BY DEF UnsubscribeLocked, BusInv, Membership
<1>2. /\ UNCHANGED <<buffer, count, reading, offered, got>>
      /\ subscribers' = subscribers \ {s} /\ closed' = closed \cup {s}
  BY DEF UnsubscribeLocked
<1>3. \A t \in Subs \ {s} : /\ (Feed(t))' = Feed(t)
                            /\ \A q \in Publishers : (Due(t, q))' = Due(t, q)
  BY <1>2 DEF Feed, Due
<1>4. /\ Feed(s) = "open" /\ (Feed(s))' = "closed"
      /\ \A q \in Publishers : (Due(s, q))' = 0
  BY <1>1, <1>2 DEF Feed, Due
<1> QED
  BY <1>2, <1>3, <1>4 DEF Feeds!Close, Feeds!Nothing

(* The broker keeps the promise of BestEffortFeed to any number of         *)
(* subscribers: eventbus.go's Publish, Subscribe and unsubscribe, each     *)
(* under b.mu, look to every one of them like a feed of his own.           *)
THEOREM BusKeepsFeeds == Spec => FeedsAreKept
<1>1. Init => Feeds!Init
  BY DEF Init, Feeds!Init, Feeds!Nothing, Feed, Due
<1>2. BusInv /\ [Next]_vars => [Feeds!Next]_(Feeds!vars)
  <2> SUFFICES ASSUME BusInv, [Next]_vars PROVE [Feeds!Next]_(Feeds!vars)
    OBVIOUS
  <2>1. ASSUME NEW p \in Publishers, PublishBegin(p) PROVE Feeds!Publish(p)
    <3>1. /\ p \notin reading /\ count' = [count EXCEPT ![p] = @ + 1]
          /\ UNCHANGED <<buffer, got>>
      BY <2>1 DEF PublishBegin
    <3>2. \A s \in Subs : Feed(s) = "open" => Due(s, p) = count[p] + 1
      BY <3>1 DEF Feed, Due
    <3> QED
      BY <2>1, <3>1, <3>2, PublishHidden DEF Feeds!Publish
  <2>2. ASSUME NEW p \in Publishers, PublishEnd(p) PROVE UNCHANGED Feeds!vars
    <3>1. UNCHANGED <<count, buffer, got>>
      BY <2>2 DEF PublishEnd
    <3> QED
      BY <2>2, <3>1, PublishHidden DEF Feeds!vars
  <2>3. ASSUME NEW s \in Subs, Announce(s, "new", "joining") \/ Announce(s, "in", "leaving")
        PROVE  UNCHANGED Feeds!vars
    BY <2>3, DueUnchanged DEF Announce, Feeds!vars
  <2>4. ASSUME NEW s \in Subs, Receive(s) PROVE Feeds!Take(s)
    BY <2>4, DueUnchanged DEF Receive, Feeds!Take
  <2>5. CASE UNCHANGED vars
    BY <2>5, DueUnchanged DEF vars, Feeds!vars
  <2> QED
    BY <2>1, <2>2, <2>3, <2>4, <2>5, OfferPasses, SubscribeOpens, UnsubscribeCloses
    DEF Next, PublishStep, SubscriptionStep, Feeds!Next
<1> QED
  BY <1>1, <1>2, BusSafe, PTL DEF Spec, FeedsAreKept, Feeds!Spec

-----------------------------------------------------------------------------
(* The NATS server: one at a time, stopped and cleaned up after.           *)
(* Start is alone: it begins only when nothing runs, and starts the        *)
(* goroutine of what it publishes.                                         *)
StartAlone ==
    /\ running # NoRun => watcher[running] # "none"
    /\ starter \notin {"idle", "ending"} => running = NoRun
    /\ starter \in {"readying", "failing", "publishing"} => created # 0
    /\ starter = "failing" => nats[created] # "up"

(* A run that has not been created has left no trace, and one that has not *)
(* been published has no goroutine.                                        *)
Unborn ==
    \A n \in Runs :
       /\ n > created =>
             /\ nats[n] = "none" /\ n \notin dir
             /\ watcher[n] = "none" /\ running # n
       /\ StartWorksOn(n) => watcher[n] = "none"

(* done is closed only when the server is down and removeTempDir has been  *)
(* tried; until it is tried, the directory is there.                       *)
DoneIsClean ==
    \A n \in Runs :
       /\ Done(n) => nats[n] = "down" /\ (n \in dir => n \in stopErr)
       /\ StartWorksOn(n) \/ watcher[n] = "waiting" => n \in dir \ stopErr

(* A Stop that got past its select, or has returned, has seen done.        *)
StopsSawDone ==
    /\ \A p \in Stops :
          /\ stop[p] # "idle" => waitsFor[p] \in Runs
          /\ stop[p] = "clearing" => Done(waitsFor[p])
    /\ \A n \in stopped : Done(n)

(* A server that is down was told to stop, never published, or ended by    *)
(* itself, and the goroutine reports the last case only.                   *)
EndsAccounted ==
    \A n \in Runs :
       /\ watcher[n] # "none" /\ nats[n] = "down" => n \in stopping \cup selfEnded
       /\ (/\ starter \in {"readying", "publishing"}
           /\ n = created /\ nats[n] = "down")
          => n \in stopping \cup selfEnded
       /\ watcher[n] = "deciding" => n \in selfEnded

NatsInv ==
    /\ NatsTypeOK
    /\ StartAlone
    /\ Unborn
    /\ DoneIsClean
    /\ StopsSawDone
    /\ EndsAccounted
    /\ NoServerForgotten
    /\ StoppedIsCleaned
    /\ NoFalseAlarm

(* removeTempDir removes the directory or leaves it with an error.         *)
LEMMA Removal ==
  ASSUME NEW Dir, NEW Err, NEW DirNext, NEW ErrNext, NEW n \in Dir \ Err,
         Err \subseteq Dir,
         \/ DirNext = Dir \ {n} /\ ErrNext = Err
         \/ DirNext = Dir /\ ErrNext = Err \cup {n}
  PROVE  ErrNext \subseteq DirNext /\ DirNext \subseteq Dir
OBVIOUS

(* The goroutine's removal keeps the types.                                *)
LEMMA CleanTyped ==
  ASSUME NatsTypeOK, NEW n \in Runs, n \in dir \ stopErr, WatchClean(n)
  PROVE  NatsTypeOK'
<1>1. stopErr' \subseteq dir' /\ dir' \subseteq dir
  BY Removal DEF NatsTypeOK, WatchClean
<1> QED
  BY <1>1 DEF NatsTypeOK, WatchClean, stopVars

(* Nothing has been created.                                               *)
LEMMA NatsStarts == NatsInit => NatsInv
BY RunsAssumption DEF NatsInit, NatsInv, NatsTypeOK, StartAlone, Unborn,
   DoneIsClean, StopsSawDone, EndsAccounted, NoServerForgotten,
   StoppedIsCleaned, NoFalseAlarm, Runs, NoRun, Done, StartWorksOn

(* Every step of Start, the goroutines, Stop and the servers.              *)
LEMMA NatsPreserved == NatsInv /\ [NatsNext]_natsVars => NatsInv'
<1> SUFFICES ASSUME NatsInv, [NatsNext]_natsVars PROVE NatsInv'
  OBVIOUS
<1> USE RunsAssumption
<1> USE DEF NatsInv, NatsTypeOK, StartAlone, Unborn, DoneIsClean,
            StopsSawDone, EndsAccounted, NoServerForgotten, StoppedIsCleaned,
            NoFalseAlarm, Runs, NoRun, Done, StartWorksOn, runVars, stopVars
<1>1. CASE StartBegin
  BY <1>1 DEF StartBegin
<1>2. CASE StartCreate
  BY <1>2 DEF StartCreate
<1>3. CASE StartNoDir
  BY <1>3 DEF StartNoDir
<1>4. CASE StartReady
  BY <1>4 DEF StartReady
<1>5. CASE StartFail
  <2>1. NatsTypeOK'
    <3>1. created \in dir \ stopErr /\ stopErr \subseteq dir
      BY <1>5 DEF StartFail
    <3>2. \/ dir' = dir \ {created} /\ stopErr' = stopErr
          \/ dir' = dir /\ stopErr' = stopErr \cup {created}
      BY <1>5 DEF StartFail
    <3>3. stopErr' \subseteq dir' /\ dir' \subseteq dir
      <4>1. CASE dir' = dir \ {created} /\ stopErr' = stopErr
        BY <3>1, <4>1
      <4>2. CASE dir' = dir /\ stopErr' = stopErr \cup {created}
        BY <3>1, <4>2
      <4> QED
        BY <3>2, <4>1, <4>2
    <3> QED
      BY <1>5, <3>3 DEF StartFail
  <2>2. (StartAlone /\ Unborn)'
    BY <1>5 DEF StartFail
  <2>3. DoneIsClean'
    BY <1>5 DEF StartFail
  <2>4. StopsSawDone'
    BY <1>5 DEF StartFail
  <2>5. EndsAccounted'
    BY <1>5 DEF StartFail
  <2>6. NoServerForgotten'
    BY <1>5 DEF StartFail
  <2>7. StoppedIsCleaned'
    BY <1>5 DEF StartFail
  <2>8. NoFalseAlarm'
    BY <1>5 DEF StartFail
  <2> QED
    BY <2>1, <2>2, <2>3, <2>4, <2>5, <2>6, <2>7, <2>8
<1>6. CASE StartPublish
  BY <1>6 DEF StartPublish
<1>7. CASE StartEnd
  BY <1>7 DEF StartEnd
<1>8. ASSUME NEW n \in Runs, NatsEnds(n) PROVE NatsInv'
  <2>1. NatsTypeOK'
    BY <1>8 DEF NatsEnds
  <2>2. (StartAlone /\ Unborn)'
    BY <1>8 DEF NatsEnds
  <2>3. DoneIsClean'
    BY <1>8 DEF NatsEnds
  <2>4. StopsSawDone'
    BY <1>8 DEF NatsEnds
  <2>5. EndsAccounted'
    BY <1>8 DEF NatsEnds
  <2>6. NoServerForgotten'
    BY <1>8 DEF NatsEnds
  <2>7. StoppedIsCleaned'
    BY <1>8 DEF NatsEnds
  <2>8. NoFalseAlarm'
    BY <1>8 DEF NatsEnds
  <2> QED
    BY <2>1, <2>2, <2>3, <2>4, <2>5, <2>6, <2>7, <2>8
<1>9. ASSUME NEW n \in Runs, WatchClean(n) PROVE NatsInv'
  <2>1. n \in dir \ stopErr
    BY <1>9 DEF WatchClean
  <2>9. NatsTypeOK'
    BY <1>9, <2>1, CleanTyped
  <2>2. (StartAlone /\ Unborn)'
    BY <1>9 DEF WatchClean
  <2>3. DoneIsClean'
    <3>1. /\ nats[n] = "down" /\ nats' = nats /\ UNCHANGED <<starter, created>>
          /\ watcher'[n] = "cleaned" /\ (n \in dir' => n \in stopErr')
          /\ ~StartWorksOn(n)
      BY <1>9 DEF WatchClean
    <3>2. ASSUME NEW m \in Runs, m # n
          PROVE  /\ watcher'[m] = watcher[m]
                 /\ m \in dir' <=> m \in dir
                 /\ m \in stopErr' <=> m \in stopErr
      BY <1>9, <3>2 DEF WatchClean
    <3> QED
      BY <3>1, <3>2
  <2>4. StopsSawDone'
    BY <1>9 DEF WatchClean
  <2>5. EndsAccounted'
    BY <1>9 DEF WatchClean
  <2>6. NoServerForgotten'
    BY <1>9 DEF WatchClean
  <2>7. StoppedIsCleaned'
    <3>1. n \notin stopped /\ watcher'[n] = "cleaned" /\ (n \in dir' => n \in stopErr')
      BY <1>9 DEF WatchClean
    <3>2. dir' \subseteq dir /\ stopErr \subseteq stopErr'
      BY <1>9 DEF WatchClean
    <3>3. \A m \in Runs : m # n => watcher'[m] = watcher[m]
      BY <1>9 DEF WatchClean
    <3>4. UNCHANGED <<nats, stopped, starter, created>>
      BY <1>9 DEF WatchClean
    <3>5. \A m \in stopped : nats'[m] = "down" /\ (m \in dir' => m \in stopErr')
      BY <3>2, <3>4
    <3>6. \A m \in dir' \ stopErr' :
             nats'[m] = "up" \/ watcher'[m] = "waiting" \/ (StartWorksOn(m))'
      BY <3>1, <3>2, <3>3, <3>4
    <3> QED
      BY <3>4, <3>5, <3>6
  <2>8. NoFalseAlarm'
    BY <1>9 DEF WatchClean
  <2> QED
    BY <2>2, <2>3, <2>4, <2>5, <2>6, <2>7, <2>8, <2>9
<1>10. ASSUME NEW n \in Runs, WatchDecide(n) PROVE NatsInv'
  BY <1>10 DEF WatchDecide
<1>11. ASSUME NEW n \in Runs, WatchReport(n) PROVE NatsInv'
  BY <1>11 DEF WatchReport
<1>12. ASSUME NEW p \in Stops, StopBegin(p) PROVE NatsInv'
  BY <1>12 DEF StopBegin
<1>13. ASSUME NEW p \in Stops, StopSees(p) PROVE NatsInv'
  BY <1>13 DEF StopSees
<1>14. ASSUME NEW p \in Stops, StopExpire(p) PROVE NatsInv'
  BY <1>14 DEF StopExpire
<1>15. ASSUME NEW p \in Stops, StopClear(p) PROVE NatsInv'
  <2>0. waitsFor[p] \in Runs
    BY <1>15 DEF StopClear
  <2>1. NatsTypeOK'
    <3>1. running' \in Runs \cup {NoRun} /\ stopped' \subseteq Runs
      BY <1>15, <2>0 DEF StopClear
    <3>2. stop' \in [Stops -> {"idle", "waiting", "clearing"}]
      BY <1>15 DEF StopClear
    <3>3. waitsFor' \in [Stops -> Runs \cup {NoRun}]
      BY <1>15 DEF StopClear
    <3>4. UNCHANGED <<starter, created, runVars>>
      BY <1>15 DEF StopClear
    <3> QED
      BY <3>1, <3>2, <3>3, <3>4
  <2>2. (StartAlone /\ Unborn)'
    BY <1>15 DEF StopClear
  <2>3. DoneIsClean'
    BY <1>15 DEF StopClear
  <2>4. StopsSawDone'
    BY <1>15 DEF StopClear
  <2>5. EndsAccounted'
    BY <1>15 DEF StopClear
  <2>6. NoServerForgotten'
    BY <1>15 DEF StopClear
  <2>7. StoppedIsCleaned'
    BY <1>15 DEF StopClear
  <2>8. NoFalseAlarm'
    BY <1>15 DEF StopClear
  <2> QED
    BY <2>1, <2>2, <2>3, <2>4, <2>5, <2>6, <2>7, <2>8
<1>16. CASE UNCHANGED natsVars
  BY <1>16 DEF natsVars
<1> QED
  BY <1>1, <1>2, <1>3, <1>4, <1>5, <1>6, <1>7, <1>8, <1>9, <1>10, <1>11,
     <1>12, <1>13, <1>14, <1>15, <1>16 DEF NatsNext

(* The invariant holds throughout.                                         *)
LEMMA NatsSafe == NatsSpec => []NatsInv
BY NatsStarts, NatsPreserved, PTL DEF NatsSpec

(* A server that is up is the published one, or Start still works on it,   *)
(* also while Stops of earlier runs are returning.                         *)
THEOREM ServersFound == NatsSpec => []NoServerForgotten
BY NatsSafe, PTL DEF NatsInv

(* A run some Stop has reported as ended is down, and no directory         *)
(* outlives its run unless removing it has failed.                         *)
THEOREM StopsAreClean == NatsSpec => []StoppedIsCleaned
BY NatsSafe, PTL DEF NatsInv

(* requestShutdown is called only for a run that ended by itself.          *)
THEOREM AlarmsAreTrue == NatsSpec => []NoFalseAlarm
BY NatsSafe, PTL DEF NatsInv
============================================================================
