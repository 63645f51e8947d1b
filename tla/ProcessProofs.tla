--------------------------- MODULE ProcessProofs ---------------------------
(***************************************************************************)
(* The safety of one child process for any number of streams, of bytes and *)
(* of descendants, and for a Scrollback of any limit: what the sinks see   *)
(* and keep, and what the result says.                                     *)
(***************************************************************************)
EXTENDS Process, SequenceTheorems, TLAPS

Late == {"judge", "classify", "emit", "sink", "done"}

(* Before the child has started nobody copies; nobody is in a sink before  *)
(* the started event's sinks have returned, or together with another.      *)
Exclusive ==
    /\ main \in {"start", "failed"} =>
          /\ child = "none"
          /\ \A s \in Streams : copier[s] = "none"
    /\ \A s \in Streams : copier[s] = "sink" => Ready /\ main # "sink"
    /\ \A s, t \in Streams : copier[s] = "sink" /\ copier[t] = "sink" => s = t

(* The watcher is over before collect has met it only when the copying is; *)
(* collect judges only then, and only a child that has exited.             *)
CopiedFirst ==
    /\ main \in {"start", "failed"} => watcher = "watch"
    /\ main \in {"startedSink", "wait", "meet"} /\ watcher = "over" => Copied
    /\ main \in {"meet", "drain", "close"} \cup Late => Exited
    /\ main \in {"drain", "close"} \cup Late => watcher = "over"
    /\ main \in Late => Copied

(* The calls the sinks have got so far.                                    *)
EventsShape ==
    /\ main = "start" => events = <<>>
    /\ main = "failed" => events = <<"failed">>
    /\ main \notin {"start", "failed"} =>
          /\ events # <<>> /\ events[1] = "started"
          /\ \A i \in 2 .. Len(events) :
                \/ events[i] \in Streams
                \/ i = Len(events) /\ main \in {"sink", "done"}
    /\ main \in {"sink", "done"} =>
          Len(events) > 1 /\ events[Len(events)] \in Terminal

(* The bytes of a stream are numbered through what was delivered, what its *)
(* goroutine holds, and what is in the pipe.                               *)
Numbered(s) ==
    /\ copier[s] \notin {"write", "sink"} => held[s] = <<>>
    /\ Len(single[s]) + Len(held[s]) + Len(pipe[s]) = written[s]
    /\ \A k \in 1 .. Len(single[s]) : single[s][k] = <<s, k>>
    /\ \A k \in 1 .. Len(held[s]) : held[s][k] = <<s, Len(single[s]) + k>>
    /\ \A k \in 1 .. Len(pipe[s]) :
          pipe[s][k] = <<s, Len(single[s]) + Len(held[s]) + k>>

BytesInOrder == \A s \in Streams : Numbered(s)

(* Merged has the delivered bytes, each stream's in order.                 *)
MergedInOrder ==
    /\ \A i \in 1 .. Len(merged) :
          /\ merged[i][1] \in Streams
          /\ merged[i][2] \in 1 .. Len(single[merged[i][1]])
    /\ \A s \in Streams, k \in Nat :
          k \in 1 .. Len(single[s]) =>
             \E i \in 1 .. Len(merged) : merged[i] = <<s, k>>
    /\ \A i, j \in 1 .. Len(merged) :
          i < j /\ merged[i][1] = merged[j][1] => merged[i][2] < merged[j][2]

(* The Scrollback has the end of Merged, as much as it may keep.           *)
ScrollbackIsEnd ==
    \E cut \in 0 .. Len(merged) :
       /\ buf = SubSeq(merged, cut + 1, Len(merged))
       /\ limit > 0 => Len(buf) <= limit /\ (cut > 0 => Len(buf) = limit)
       /\ limit <= 0 => buf = <<>>

(* A stream whose goroutine has ended with its read end open is at its     *)
(* end: nobody can write to it any more.                                   *)
EndIsEnd ==
    \A s \in Streams : copier[s] = "done" /\ parent = "open" =>
       pipe[s] = <<>> /\ Exited /\ ~kept

(* Read ends are closed with a reason that is in the result.               *)
ClosedForReason ==
    /\ watchErr = "context" \/ watcher \in {"timing", "reaping"} => canceled
    /\ err = "context" => canceled
    /\ parent = "closed" =>
          \/ main = "close"
          \/ main \in Late /\ err # "none"
          \/ IF main \in {"emit", "sink", "done"} THEN result.canceled
             ELSE canceled

(* The two looks at the context and the event that is chosen from them.    *)
LooksAgree ==
    /\ main \in {"classify", "emit", "sink", "done"} =>
          result.err \in {err, "context"}
    /\ main = "classify" /\ result.err = "context" => canceled
    /\ main \in {"emit", "sink", "done"} /\ result.err = "context"
          => result.canceled
    /\ main \in {"sink", "done"} => events[Len(events)] = EventTypeOf

ProcessInv ==
    /\ TypeOK
    /\ Exclusive
    /\ CopiedFirst
    /\ EventsShape
    /\ BytesInOrder
    /\ MergedInOrder
    /\ ScrollbackIsEnd
    /\ EndIsEnd
    /\ ClosedForReason
    /\ LooksAgree

-----------------------------------------------------------------------------
(* What a concatenation has where.                                         *)
LEMMA Concatenated ==
  ASSUME NEW S, NEW seq \in Seq(S), NEW data \in Seq(S)
  PROVE  /\ seq \o data \in Seq(S)
         /\ Len(seq \o data) = Len(seq) + Len(data)
         /\ \A i \in 1 .. Len(seq) : (seq \o data)[i] = seq[i]
         /\ \A j \in 1 .. Len(data) : (seq \o data)[Len(seq) + j] = data[j]
         /\ \A i \in 1 .. Len(seq \o data) :
               \/ i \in 1 .. Len(seq)
               \/ \E j \in 1 .. Len(data) : i = Len(seq) + j
<1>1. /\ seq \o data \in Seq(S)
      /\ Len(seq \o data) = Len(seq) + Len(data)
      /\ \A i \in 1 .. Len(seq) + Len(data) :
            (seq \o data)[i] = IF i <= Len(seq) THEN seq[i]
                               ELSE data[i - Len(seq)]
      /\ Len(seq) \in Nat /\ Len(data) \in Nat
  BY ConcatProperties
<1>2. ASSUME NEW i \in 1 .. Len(seq) PROVE (seq \o data)[i] = seq[i]
  BY <1>1
<1>3. ASSUME NEW j \in 1 .. Len(data)
      PROVE  (seq \o data)[Len(seq) + j] = data[j]
  <2>1. /\ Len(seq) + j \in 1 .. Len(seq) + Len(data)
        /\ ~(Len(seq) + j <= Len(seq))
        /\ (Len(seq) + j) - Len(seq) = j
    BY <1>1
  <2> QED
    BY <1>1, <2>1
<1>4. ASSUME NEW i \in 1 .. Len(seq \o data)
      PROVE  i \in 1 .. Len(seq) \/ \E j \in 1 .. Len(data) : i = Len(seq) + j
  <2>1. i \in 1 .. Len(seq) \/ i - Len(seq) \in 1 .. Len(data)
    BY <1>1
  <2>2. i = Len(seq) + (i - Len(seq))
    BY <1>1
  <2> QED
    BY <2>1, <2>2
<1> QED
  BY <1>1, <1>2, <1>3, <1>4

(* The end of a sequence grows with it.                                    *)
LEMMA EndGrows ==
  ASSUME NEW S, NEW seq \in Seq(S), NEW data \in Seq(S),
         NEW cut \in 0 .. Len(seq)
  PROVE  SubSeq(seq, cut + 1, Len(seq)) \o data
            = SubSeq(seq \o data, cut + 1, Len(seq \o data))
<1> DEFINE end == SubSeq(seq, cut + 1, Len(seq))
           whole == seq \o data
<1>1. /\ end \in Seq(S) /\ Len(end) = Len(seq) - cut
      /\ \A i \in 1 .. Len(seq) - cut : end[i] = seq[cut + i]
  BY SubSeqProperties, ElementOfSeq
<1>2. /\ whole \in Seq(S) /\ Len(whole) = Len(seq) + Len(data)
      /\ \A i \in 1 .. Len(seq) + Len(data) :
            whole[i] = IF i <= Len(seq) THEN seq[i] ELSE data[i - Len(seq)]
  BY ConcatProperties
<1>3. /\ SubSeq(whole, cut + 1, Len(whole)) \in Seq(S)
      /\ Len(SubSeq(whole, cut + 1, Len(whole))) = Len(whole) - cut
      /\ \A i \in 1 .. Len(whole) - cut :
            SubSeq(whole, cut + 1, Len(whole))[i] = whole[cut + i]
  <2>1. \A i \in cut + 1 .. Len(whole) : whole[i] \in S
    BY <1>2, ElementOfSeq
  <2> HIDE DEF whole
  <2> QED
    BY <1>2, <2>1, SubSeqProperties
<1>4. /\ end \o data \in Seq(S) /\ Len(end \o data) = Len(end) + Len(data)
      /\ \A i \in 1 .. Len(end) + Len(data) :
            (end \o data)[i] = IF i <= Len(end) THEN end[i]
                               ELSE data[i - Len(end)]
  <2> HIDE DEF end
  <2> QED
    BY <1>1, ConcatProperties
<1>5. Len(end \o data) = Len(SubSeq(whole, cut + 1, Len(whole)))
  BY <1>1, <1>2, <1>3, <1>4
<1>6. ASSUME NEW i \in 1 .. Len(end \o data)
      PROVE  (end \o data)[i] = SubSeq(whole, cut + 1, Len(whole))[i]
  <2> HIDE DEF end, whole
  <2>1. /\ Len(seq) \in Nat /\ Len(data) \in Nat /\ Len(end) = Len(seq) - cut
        /\ Len(whole) = Len(seq) + Len(data)
    BY <1>1, <1>2, LenProperties
  <2>2. i \in 1 .. Len(end) + Len(data)
    BY <1>4
  <2>3. i \in 1 .. Len(whole) - cut /\ cut + i \in 1 .. Len(seq) + Len(data)
    BY <2>1, <2>2
  <2>4. (i <= Len(end) <=> cut + i <= Len(seq)) /\ i - Len(end) = cut + i - Len(seq)
    BY <2>1, <2>2
  <2>5. (end \o data)[i] = IF i <= Len(end) THEN end[i] ELSE data[i - Len(end)]
    BY <1>4, <2>2
  <2>6. SubSeq(whole, cut + 1, Len(whole))[i] = whole[cut + i]
    BY <1>3, <2>3
  <2>7. whole[cut + i] = IF cut + i <= Len(seq) THEN seq[cut + i]
                         ELSE data[cut + i - Len(seq)]
    BY <1>2, <2>3
  <2>8. i <= Len(end) => end[i] = seq[cut + i]
    BY <1>1, <2>1, <2>2
  <2> QED
    BY <2>4, <2>5, <2>6, <2>7, <2>8
<1> QED
  <2> HIDE DEF end, whole
  <2>1. end \o data = SubSeq(whole, cut + 1, Len(whole))
    BY <1>3, <1>4, <1>5, <1>6, SeqEqual
  <2> QED
    BY <2>1 DEF end, whole

(* The last n elements of an end are the last n elements.                  *)
LEMMA EndOfEnd ==
  ASSUME NEW S, NEW seq \in Seq(S), NEW cut \in 0 .. Len(seq),
         NEW n \in 0 .. Len(seq) - cut
  PROVE  Tail_(SubSeq(seq, cut + 1, Len(seq)), n)
            = SubSeq(seq, Len(seq) - n + 1, Len(seq))
<1> DEFINE end == SubSeq(seq, cut + 1, Len(seq))
           last == SubSeq(seq, Len(seq) - n + 1, Len(seq))
<1>1. /\ end \in Seq(S) /\ Len(end) = Len(seq) - cut
      /\ \A i \in 1 .. Len(seq) - cut : end[i] = seq[cut + i]
  BY SubSeqProperties, ElementOfSeq
<1>2. /\ last \in Seq(S) /\ Len(last) = n
      /\ \A i \in 1 .. n : last[i] = seq[Len(seq) - n + i]
  BY SubSeqProperties, ElementOfSeq
<1>3. /\ Tail_(end, n) \in Seq(S) /\ Len(Tail_(end, n)) = n
      /\ \A i \in 1 .. n : Tail_(end, n)[i] = end[Len(end) - n + i]
  <2>1. \A i \in Len(end) - n + 1 .. Len(end) : end[i] \in S
    BY <1>1, ElementOfSeq
  <2> HIDE DEF end
  <2> QED
    BY <1>1, <2>1, SubSeqProperties DEF Tail_
<1>4. ASSUME NEW i \in 1 .. n PROVE Tail_(end, n)[i] = last[i]
  <2> HIDE DEF end, last
  <2>1. Tail_(end, n)[i] = end[Len(end) - n + i]
    BY <1>3
  <2>2. Len(end) - n + i \in 1 .. Len(seq) - cut
    BY <1>1
  <2>3. Tail_(end, n)[i] = seq[cut + (Len(end) - n + i)]
    BY <1>1, <2>1, <2>2
  <2>4. cut + (Len(end) - n + i) = Len(seq) - n + i
    BY <1>1
  <2> QED
    BY <1>2, <2>3, <2>4
<1> QED
  <2> HIDE DEF end, last
  <2>1. Tail_(end, n) = last
    BY <1>2, <1>3, <1>4, SeqEqual
  <2> QED
    BY <2>1 DEF end, last

-----------------------------------------------------------------------------
(* Which steps change what: the rest leave it alone.                       *)
Outside ==
    ChildForks \/ DescendantEnds \/ ChildExits \/ ContextEnds \/ Kill

LEMMA StepKinds ==
  [Next]_vars =>
     \/ StartFails \/ StartChild
     \/ \E s \in Streams :
           CopyRead(s) \/ CopyWrite(s) \/ CopySinks(s) \/ ChildWrites(s)
     \/ WatchStep \/ CollectStep \/ Outside
     \/ UNCHANGED vars
BY DEF Next, CopyStep, Outside

(* Only emit calls a sink.                                                 *)
LEMMA EventsFrame ==
  WatchStep \/ Outside \/ UNCHANGED vars
  \/ (\E s \in Streams : CopyRead(s) \/ CopySinks(s) \/ ChildWrites(s))
  => UNCHANGED <<main, events>>
BY DEF WatchStep, WatchCancel, WatchKill, WatchReap, Outside, ChildForks,
   DescendantEnds, ChildExits, ContextEnds, Kill, CopyRead, CopySinks,
   ChildWrites, vars, sinkVars

(* Only the copying goroutines and the child move bytes.                   *)
LEMMA BytesFrame ==
  WatchStep \/ CollectStep \/ Outside \/ StartFails \/ UNCHANGED vars
  => UNCHANGED <<copier, written, pipe, held, single, merged, limit, buf>>
BY DEF WatchStep, WatchCancel, WatchKill, WatchReap, Outside, ChildForks,
   DescendantEnds, ChildExits, ContextEnds, Kill, vars, ioVars, osVars,
   sinkVars, keepVars, CollectStep, StartReturns, CollectExit, CollectMeet,
   CollectDrained, CollectExpires, CollectJudge, CollectClassify, CollectEmit,
   CollectDone, StartFails

(* What the sinks keep changes in CopySinks only.                          *)
LEMMA KeptFrame ==
  StartChild
  \/ (\E s \in Streams : CopyRead(s) \/ CopyWrite(s) \/ ChildWrites(s))
  => UNCHANGED <<single, merged, limit, buf>>
BY DEF StartChild, CopyRead, CopyWrite, ChildWrites, keepVars, sinkVars

(* The event collect chooses is a terminal one.                            *)
LEMMA EventTypes == EventTypeOf \in Terminal
BY DEF EventTypeOf, Terminal

-----------------------------------------------------------------------------
(* Types.                                                                  *)
LEMMA ReadTyped ==
  ASSUME TypeOK, NEW s \in Streams, CopyRead(s)
  PROVE  pipe' \in [Streams -> Seq(Bytes)] /\ held' \in [Streams -> Seq(Bytes)]
<1>1. ASSUME NEW n \in 1 .. Len(pipe[s])
      PROVE  /\ SubSeq(pipe[s], 1, n) \in Seq(Bytes)
             /\ SubSeq(pipe[s], n + 1, Len(pipe[s])) \in Seq(Bytes)
  BY <1>1, SubSeqProperties, ElementOfSeq DEF TypeOK
<1>2. pipe \in [Streams -> Seq(Bytes)] /\ held \in [Streams -> Seq(Bytes)]
  BY DEF TypeOK
<1>3. CASE UNCHANGED <<pipe, held>>
  BY <1>2, <1>3
<1>4. ASSUME NEW n \in 1 .. Len(pipe[s]),
             held' = [held EXCEPT ![s] = SubSeq(pipe[s], 1, n)],
             pipe' = [pipe EXCEPT ![s] = SubSeq(@, n + 1, Len(@))]
      PROVE  /\ pipe' \in [Streams -> Seq(Bytes)]
             /\ held' \in [Streams -> Seq(Bytes)]
  BY <1>1, <1>2, <1>4
<1> QED
  BY <1>3, <1>4 DEF CopyRead

LEMMA SinksTyped ==
  ASSUME TypeOK, NEW s \in Streams, CopySinks(s)
  PROVE  /\ merged' \in Seq(Bytes) /\ buf' \in Seq(Bytes)
         /\ single' \in [Streams -> Seq(Bytes)]
         /\ held' \in [Streams -> Seq(Bytes)]
<1>1. held[s] \in Seq(Bytes) /\ limit \in Int
  BY LimitsAssumption DEF TypeOK
<1>2. single[s] \o held[s] \in Seq(Bytes) /\ merged \o held[s] \in Seq(Bytes)
  BY <1>1, ConcatProperties DEF TypeOK
<1>3. buf \o held[s] \in Seq(Bytes)
  BY <1>1, ConcatProperties DEF TypeOK
<1>4. limit > 0 /\ Len(buf \o held[s]) > limit
         => Tail_(buf \o held[s], limit) \in Seq(Bytes)
  BY <1>1, <1>3, SubSeqProperties, ElementOfSeq DEF Tail_
<1>5. Scrolled(held[s]) \in Seq(Bytes)
  BY <1>1, <1>3, <1>4 DEF Scrolled, TypeOK
<1>6. <<>> \in Seq(Bytes)
  OBVIOUS
<1> QED
  BY <1>2, <1>5, <1>6 DEF TypeOK, CopySinks

(* The looks at the context write only the result.                         *)
LEMMA ResultTyped ==
  ASSUME TypeOK, result' \in [err : Errors, canceled : BOOLEAN],
         main' \in {"classify", "emit"},
         UNCHANGED <<canceled, osVars, ioVars, execVars, sinkVars>>
  PROVE  TypeOK'
BY DEF TypeOK, osVars, ioVars, execVars, sinkVars, keepVars

(* Every step keeps the types.                                             *)
LEMMA TypeStep == TypeOK /\ [Next]_vars => TypeOK'
<1> SUFFICES ASSUME TypeOK, [Next]_vars PROVE TypeOK'
  OBVIOUS
<1> DEFINE E == Streams \cup Terminal \cup {"started"}
<1>1. ASSUME NEW e \in E PROVE Append(events, e) \in Seq(E)
  BY <1>1, AppendProperties DEF TypeOK
<1>2. CASE StartFails
  <2>1. events' \in Seq(E)
    BY <1>2, <1>1 DEF StartFails, Terminal
  <2> QED
    BY <1>2, <2>1 DEF TypeOK, StartFails, osVars, ioVars, execVars, keepVars
<1>3. CASE StartChild
  <2>1. events' \in Seq(E)
    BY <1>3, <1>1 DEF StartChild
  <2> QED
    BY <1>3, <2>1 DEF TypeOK, StartChild, osVars, ioVars, execVars, keepVars
<1>4. ASSUME NEW s \in Streams, CopyRead(s) PROVE TypeOK'
  <2>1. copier' \in [Streams -> {"none", "read", "write", "sink", "done"}]
    BY <1>4 DEF TypeOK, CopyRead
  <2>2. \A io \in {pipe', held', single'} : io \in [Streams -> Seq(Bytes)]
    BY <1>4, ReadTyped DEF TypeOK, CopyRead, sinkVars, keepVars
  <2>3. UNCHANGED <<canceled, osVars, parent, main, execVars, result,
                   sinkVars>>
    BY <1>4 DEF CopyRead
  <2> QED
    BY <2>1, <2>2, <2>3 DEF TypeOK, osVars, execVars, sinkVars, keepVars
<1>5. ASSUME NEW s \in Streams, CopyWrite(s) PROVE TypeOK'
  <2>1. events' \in Seq(E)
    BY <1>5, <1>1 DEF CopyWrite
  <2> QED
    BY <1>5, <2>1 DEF TypeOK, CopyWrite, osVars, execVars, keepVars
<1>6. ASSUME NEW s \in Streams, CopySinks(s) PROVE TypeOK'
  <2>1. copier' \in [Streams -> {"none", "read", "write", "sink", "done"}]
    BY <1>6 DEF TypeOK, CopySinks
  <2>2. \A io \in {pipe', held', single'} : io \in [Streams -> Seq(Bytes)]
    BY <1>6, SinksTyped DEF TypeOK, CopySinks
  <2>3. UNCHANGED <<canceled, osVars, parent, main, execVars, result, events,
                    limit>>
    BY <1>6 DEF CopySinks
  <2> QED
    <3>1. merged' \in Seq(Bytes) /\ buf' \in Seq(Bytes)
      BY <1>6, SinksTyped
    <3> QED
      BY <2>1, <2>2, <2>3, <3>1 DEF TypeOK, osVars, execVars
<1>7. ASSUME NEW s \in Streams, ChildWrites(s) PROVE TypeOK'
  <2>1. written[s] + 1 \in 1 .. MaxWrites
    BY <1>7, WritesAssumption DEF ChildWrites, TypeOK
  <2>2. written'[s] = written[s] + 1 /\ <<s, written'[s]>> \in Bytes
    BY <1>7, <2>1 DEF ChildWrites, TypeOK, Bytes
  <2>3. Append(pipe[s], <<s, written'[s]>>) \in Seq(Bytes)
    BY <2>2, AppendProperties DEF TypeOK
  <2>4. written' \in [Streams -> 0 .. MaxWrites]
    BY <1>7, <2>1 DEF ChildWrites, TypeOK
  <2>5. pipe' \in [Streams -> Seq(Bytes)]
    BY <1>7, <2>3 DEF ChildWrites, TypeOK
  <2> QED
    BY <1>7, <2>4, <2>5 DEF TypeOK, ChildWrites, execVars, sinkVars, keepVars
<1>8. CASE WatchStep
  <2>1. CASE WatchCancel
    BY <2>1 DEF TypeOK, WatchCancel, Errors,
       osVars, ioVars, sinkVars, keepVars
  <2>2. CASE WatchKill
    BY <2>2 DEF TypeOK, WatchKill, Errors,
       osVars, ioVars, sinkVars, keepVars
  <2>3. CASE WatchReap
    BY <2>3 DEF TypeOK, WatchReap, Errors,
       osVars, ioVars, sinkVars, keepVars
  <2> QED
    BY <1>8, <2>1, <2>2, <2>3 DEF WatchStep
<1>9. CASE CollectEmit
  <2>1. events' \in Seq(E)
    BY <1>9, <1>1, EventTypes DEF CollectEmit
  <2> QED
    BY <1>9, <2>1 DEF TypeOK, CollectEmit, osVars, ioVars, execVars, keepVars
<1>10. CASE CollectStep /\ ~CollectEmit
  <2>1. CASE StartReturns
    BY <2>1 DEF TypeOK, StartReturns, Errors,
       osVars, ioVars, execVars, sinkVars, keepVars
  <2>2. CASE CollectExit
    BY <2>2 DEF TypeOK, CollectExit, Errors,
       osVars, ioVars, execVars, sinkVars, keepVars
  <2>3. CASE CollectMeet
    BY <2>3 DEF TypeOK, CollectMeet, Errors,
       osVars, ioVars, execVars, sinkVars, keepVars
  <2>4. CASE CollectDrained
    BY <2>4 DEF TypeOK, CollectDrained, Errors,
       osVars, ioVars, execVars, sinkVars, keepVars
  <2>5. CASE CollectExpires
    BY <2>5 DEF TypeOK, CollectExpires, Errors,
       osVars, ioVars, execVars, sinkVars, keepVars
  <2>6. CASE CollectJudge
    <3>1. (IF canceled THEN "context" ELSE err) \in Errors
      BY DEF TypeOK, Errors
    <3>2. result' \in [err : Errors, canceled : BOOLEAN]
      BY <2>6, <3>1 DEF TypeOK, CollectJudge
    <3> QED
      BY <2>6, <3>2, ResultTyped DEF CollectJudge
  <2>7. CASE CollectClassify
    <3>1. result' \in [err : Errors, canceled : BOOLEAN]
      BY <2>7 DEF TypeOK, CollectClassify
    <3> QED
      BY <2>7, <3>1, ResultTyped DEF CollectClassify
  <2>8. CASE CollectDone
    BY <2>8 DEF TypeOK, CollectDone, Errors,
       osVars, ioVars, execVars, sinkVars, keepVars
  <2> QED
    BY <1>10, <2>1, <2>2, <2>3, <2>4, <2>5, <2>6, <2>7, <2>8 DEF CollectStep
<1>11. CASE Outside
  <2>1. CASE ChildForks
    BY <2>1 DEF TypeOK, ChildForks, osVars,
       ioVars, execVars, sinkVars, keepVars
  <2>2. CASE DescendantEnds
    <3>1. kept' \in BOOLEAN
      BY <2>2 DEF DescendantEnds
    <3>2. UNCHANGED <<canceled, child, killed, written, ioVars, main, execVars,
                      result, sinkVars>>
      BY <2>2 DEF DescendantEnds
    <3> QED
      BY <3>1, <3>2 DEF TypeOK, ioVars, execVars, sinkVars, keepVars
  <2>3. CASE ChildExits
    BY <2>3 DEF TypeOK, ChildExits, osVars,
       ioVars, execVars, sinkVars, keepVars
  <2>4. CASE ContextEnds
    BY <2>4 DEF TypeOK, ContextEnds, osVars,
       ioVars, execVars, sinkVars, keepVars
  <2>5. CASE Kill
    BY <2>5 DEF TypeOK, Kill, osVars,
       ioVars, execVars, sinkVars, keepVars
  <2> QED
    BY <1>11, <2>1, <2>2, <2>3, <2>4, <2>5 DEF Outside
<1>12. CASE UNCHANGED vars
  BY <1>12 DEF TypeOK, vars, osVars, ioVars, execVars, sinkVars, keepVars
<1> QED
  BY <1>2, <1>3, <1>4, <1>5, <1>6, <1>7, <1>8, <1>9, <1>10, <1>11, <1>12,
     StepKinds

-----------------------------------------------------------------------------
(* The bytes.                                                              *)
LEMMA NumberedFrame ==
  ASSUME NEW s \in Streams, Numbered(s), TypeOK,
         written'[s] = written[s], pipe'[s] = pipe[s], held'[s] = held[s],
         single'[s] = single[s],
         copier'[s] \in {"write", "sink"} \/ held[s] = <<>>
  PROVE  Numbered(s)'
BY DEF Numbered

LEMMA ReadNumbered ==
  ASSUME TypeOK, BytesInOrder, NEW s \in Streams, CopyRead(s)
  PROVE  Numbered(s)'
<1> USE DEF TypeOK
<1>1. held[s] = <<>> /\ Numbered(s)
  BY DEF BytesInOrder, Numbered, CopyRead
<1>2. written' = written /\ single' = single
  BY DEF CopyRead, osVars, sinkVars, keepVars
<1>3. CASE UNCHANGED <<pipe, held>>
  BY <1>1, <1>2, <1>3, NumberedFrame
<1>4. ASSUME NEW n \in 1 .. Len(pipe[s]),
             held' = [held EXCEPT ![s] = SubSeq(pipe[s], 1, n)],
             pipe' = [pipe EXCEPT ![s] = SubSeq(@, n + 1, Len(@))],
             copier' = [copier EXCEPT ![s] = "write"]
      PROVE  Numbered(s)'
  <2> DEFINE p == pipe[s]
             head == SubSeq(p, 1, n)
             rest == SubSeq(p, n + 1, Len(p))
  <2>1. p \in Seq(Bytes) /\ single[s] \in Seq(Bytes)
    OBVIOUS
  <2>2. /\ Len(head) = n
        /\ \A k \in 1 .. n : head[k] = p[k]
    BY <2>1, SubSeqProperties, ElementOfSeq
  <2>3. /\ Len(rest) = Len(p) - n
        /\ \A k \in 1 .. Len(p) - n : rest[k] = p[n + k]
    BY <2>1, SubSeqProperties, ElementOfSeq
  <2>4. held'[s] = head /\ pipe'[s] = rest /\ copier'[s] = "write"
    BY <1>4
  <2>5. Len(held[s]) = 0
    BY <1>1
  <2>6. /\ Len(single[s]) + Len(p) = written[s]
        /\ \A k \in 1 .. Len(single[s]) : single[s][k] = <<s, k>>
        /\ \A k \in 1 .. Len(p) : p[k] = <<s, Len(single[s]) + k>>
    <3>1. Len(single[s]) \in Int
      BY <1>1
    <3> HIDE DEF p
    <3>2. /\ Len(single[s]) + 0 + Len(p) = written[s]
          /\ \A k \in 1 .. Len(single[s]) : single[s][k] = <<s, k>>
          /\ \A k \in 1 .. Len(p) : p[k] = <<s, Len(single[s]) + 0 + k>>
      BY <1>1, <2>5 DEF Numbered, p
    <3>3. Len(single[s]) + 0 = Len(single[s])
      BY <3>1
    <3> QED
      BY <3>2, <3>3
  <2>7. n \in 1 .. Len(p) /\ Len(p) \in Nat
    BY <2>1
  <2> HIDE DEF p, head, rest
  <2>8. ASSUME NEW k \in 1 .. Len(head)
        PROVE  head[k] = <<s, Len(single[s]) + k>>
    <3>1. k \in 1 .. Len(p) /\ head[k] = p[k]
      BY <2>2, <2>7
    <3>2. p[k] = <<s, Len(single[s]) + k>>
      BY <2>6, <3>1
    <3> QED
      BY <3>1, <3>2
  <2>9. ASSUME NEW k \in 1 .. Len(rest)
        PROVE  rest[k] = <<s, Len(single[s]) + Len(head) + k>>
    <3>1. n + k \in 1 .. Len(p) /\ rest[k] = p[n + k]
      BY <2>1, <2>3
    <3> QED
      BY <2>1, <2>2, <2>6, <3>1
  <2>10. Len(single[s]) + Len(head) + Len(rest) = written[s]
    BY <2>1, <2>2, <2>3, <2>6
  <2> QED
    BY <1>2, <2>4, <2>6, <2>8, <2>9, <2>10 DEF Numbered
<1> QED
  BY <1>3, <1>4 DEF CopyRead

LEMMA SinksNumbered ==
  ASSUME TypeOK, BytesInOrder, NEW s \in Streams, CopySinks(s)
  PROVE  /\ Numbered(s)'
         /\ Len(single'[s]) = Len(single[s]) + Len(held[s])
<1> USE DEF TypeOK
<1> DEFINE d == held[s]
           g == single[s]
           joined == g \o d
<1>1. /\ d \in Seq(Bytes) /\ g \in Seq(Bytes)
      /\ written' = written /\ pipe' = pipe
      /\ held'[s] = <<>> /\ single'[s] = joined
  BY DEF CopySinks, osVars
<1>2. /\ Len(joined) = Len(g) + Len(d)
      /\ \A k \in 1 .. Len(g) : joined[k] = g[k]
      /\ \A j \in 1 .. Len(d) : joined[Len(g) + j] = d[j]
      /\ \A k \in 1 .. Len(joined) :
            k \in 1 .. Len(g) \/ \E j \in 1 .. Len(d) : k = Len(g) + j
  BY <1>1, Concatenated
<1>3. /\ Len(g) + Len(d) + Len(pipe[s]) = written[s]
      /\ \A k \in 1 .. Len(g) : g[k] = <<s, k>>
      /\ \A k \in 1 .. Len(d) : d[k] = <<s, Len(g) + k>>
      /\ \A k \in 1 .. Len(pipe[s]) : pipe[s][k] = <<s, Len(g) + Len(d) + k>>
  BY DEF BytesInOrder, Numbered
<1>4. Len(g) \in Nat /\ Len(d) \in Nat
  BY <1>1
<1> HIDE DEF d, g, joined
<1>5. ASSUME NEW k \in 1 .. Len(joined) PROVE joined[k] = <<s, k>>
  <2>1. CASE k \in 1 .. Len(g)
    BY <1>2, <1>3, <2>1
  <2>2. ASSUME NEW j \in 1 .. Len(d), k = Len(g) + j
        PROVE  joined[k] = <<s, k>>
    BY <1>2, <1>3, <2>2
  <2> QED
    BY <1>2, <2>1, <2>2
<1>6. Len(<<>>) = 0
  OBVIOUS
<1>7. Numbered(s)'
  <2>1. Len(single'[s]) + Len(held'[s]) = Len(g) + Len(d) /\ Len(held'[s]) = 0
    BY <1>1, <1>2, <1>4, <1>6
  <2>2. Len(single'[s]) + Len(held'[s]) + Len(pipe'[s]) = written'[s]
    BY <1>1, <1>3, <2>1
  <2>3. \A k \in 1 .. Len(single'[s]) : single'[s][k] = <<s, k>>
    BY <1>1, <1>5
  <2>4. \A k \in 1 .. Len(held'[s]) : held'[s][k] = <<s, Len(single'[s]) + k>>
    BY <2>1
  <2>5. \A k \in 1 .. Len(pipe'[s]) :
           pipe'[s][k] = <<s, Len(single'[s]) + Len(held'[s]) + k>>
    BY <1>1, <1>3, <2>1
  <2> QED
    BY <1>1, <2>2, <2>3, <2>4, <2>5 DEF Numbered
<1> QED
  BY <1>1, <1>2, <1>7 DEF d, g

LEMMA WriteNumbered ==
  ASSUME TypeOK, BytesInOrder, NEW s \in Streams, ChildWrites(s)
  PROVE  Numbered(s)'
<1> USE DEF TypeOK
<1> DEFINE p == pipe[s]
           byte == <<s, written[s] + 1>>
           longer == Append(p, byte)
<1>1. /\ p \in Seq(Bytes) /\ single[s] \in Seq(Bytes) /\ held[s] \in Seq(Bytes)
      /\ written[s] \in Nat
      /\ held' = held /\ single' = single /\ copier' = copier
      /\ written'[s] = written[s] + 1 /\ pipe'[s] = longer
  BY DEF ChildWrites, sinkVars, keepVars
<1>2. /\ Len(longer) = Len(p) + 1 /\ longer[Len(p) + 1] = byte
      /\ \A k \in 1 .. Len(p) : longer[k] = p[k]
  BY <1>1
<1>3. /\ Numbered(s)
      /\ Len(single[s]) + Len(held[s]) + Len(p) = written[s]
      /\ \A k \in 1 .. Len(p) : p[k] = <<s, Len(single[s]) + Len(held[s]) + k>>
      /\ Len(p) \in Nat /\ Len(single[s]) + Len(held[s]) \in Nat
  <2>1. Numbered(s)
    BY DEF BytesInOrder
  <2>2. Len(p) \in Nat /\ Len(single[s]) \in Nat /\ Len(held[s]) \in Nat
    BY <1>1
  <2> QED
    BY <2>1, <2>2 DEF Numbered
<1> HIDE DEF longer, p
<1>4. ASSUME NEW k \in 1 .. Len(longer)
      PROVE  longer[k] = <<s, Len(single[s]) + Len(held[s]) + k>>
  <2>1. CASE k = Len(p) + 1
    BY <1>2, <1>3, <2>1
  <2>2. CASE k # Len(p) + 1
    <3>1. k \in 1 .. Len(p)
      BY <1>2, <1>3, <2>2
    <3> QED
      BY <1>2, <1>3, <3>1
  <2> QED
    BY <2>1, <2>2
<1>5. Len(single[s]) + Len(held[s]) + Len(longer) = written[s] + 1
  <2>1. Len(single[s]) \in Nat /\ Len(held[s]) \in Nat
    BY <1>1
  <2> QED
    BY <1>1, <1>2, <1>3, <2>1
<1>6. /\ copier[s] \notin {"write", "sink"} => held[s] = <<>>
      /\ \A k \in 1 .. Len(single[s]) : single[s][k] = <<s, k>>
      /\ \A k \in 1 .. Len(held[s]) : held[s][k] = <<s, Len(single[s]) + k>>
  BY <1>3 DEF Numbered
<1>7. copier'[s] = copier[s] /\ held'[s] = held[s] /\ single'[s] = single[s]
  BY <1>1
<1> QED
  BY <1>1, <1>4, <1>5, <1>6, <1>7 DEF Numbered

LEMMA BytesStep ==
  TypeOK /\ Exclusive /\ BytesInOrder /\ [Next]_vars => BytesInOrder'
<1> SUFFICES ASSUME TypeOK, Exclusive, BytesInOrder, [Next]_vars,
                    NEW t \in Streams
             PROVE  Numbered(t)'
  BY DEF BytesInOrder
<1> USE DEF TypeOK
<1>1. Numbered(t) /\ (copier[t] \in {"write", "sink"} \/ held[t] = <<>>)
  BY DEF BytesInOrder, Numbered
<1>2. CASE WatchStep \/ CollectStep \/ Outside \/ StartFails \/ UNCHANGED vars
  BY <1>1, <1>2, BytesFrame, NumberedFrame
<1>3. CASE StartChild
  <2>1. copier[t] = "none"
    BY <1>3 DEF StartChild, Exclusive
  <2> QED
    BY <1>1, <1>3, <2>1, KeptFrame, NumberedFrame DEF StartChild
<1>4. ASSUME NEW s \in Streams, CopyRead(s) PROVE Numbered(t)'
  <2>1. CASE s = t
    BY <1>4, <2>1, ReadNumbered
  <2>2. CASE s # t
    BY <1>1, <1>4, <2>2, NumberedFrame DEF CopyRead, osVars, sinkVars, keepVars
  <2> QED
    BY <2>1, <2>2
<1>5. ASSUME NEW s \in Streams, CopyWrite(s) PROVE Numbered(t)'
  BY <1>1, <1>5, NumberedFrame DEF CopyWrite, osVars, keepVars
<1>6. ASSUME NEW s \in Streams, CopySinks(s) PROVE Numbered(t)'
  <2>1. CASE s = t
    BY <1>6, <2>1, SinksNumbered
  <2>2. CASE s # t
    BY <1>1, <1>6, <2>2, NumberedFrame DEF CopySinks, osVars
  <2> QED
    BY <2>1, <2>2
<1>7. ASSUME NEW s \in Streams, ChildWrites(s) PROVE Numbered(t)'
  <2>1. CASE s = t
    BY <1>7, <2>1, WriteNumbered
  <2>2. CASE s # t
    BY <1>1, <1>7, <2>2, NumberedFrame DEF ChildWrites, sinkVars, keepVars
  <2> QED
    BY <2>1, <2>2
<1> QED
  BY <1>2, <1>3, <1>4, <1>5, <1>6, <1>7, StepKinds
-----------------------------------------------------------------------------
(* One sink call at a time.                                                *)
LEMMA ExclusiveStep ==
  TypeOK /\ Exclusive /\ [Next]_vars => Exclusive'
<1> SUFFICES ASSUME TypeOK, Exclusive, [Next]_vars PROVE Exclusive'
  OBVIOUS
<1> USE DEF Exclusive, Ready, SinkMuFree, TypeOK, osVars, ioVars, execVars,
            sinkVars, keepVars
<1>1. CASE StartFails
  BY <1>1 DEF StartFails
<1>2. CASE StartChild
  BY <1>2 DEF StartChild
<1>3. ASSUME NEW s \in Streams, CopyRead(s) PROVE Exclusive'
  <2>1. /\ copier[s] = "read"
        /\ UNCHANGED <<canceled, osVars, main, execVars, result, sinkVars>>
    BY <1>3 DEF CopyRead
  <2>2. copier'[s] \in {"write", "done"} /\ \A t \in Streams : t # s => copier'[t] = copier[t]
    BY <1>3 DEF CopyRead
  <2> QED
    BY <2>1, <2>2
<1>4. ASSUME NEW s \in Streams, CopyWrite(s) PROVE Exclusive'
  BY <1>4 DEF CopyWrite
<1>5. ASSUME NEW s \in Streams, CopySinks(s) PROVE Exclusive'
  BY <1>5 DEF CopySinks
<1>6. ASSUME NEW s \in Streams, ChildWrites(s) PROVE Exclusive'
  BY <1>6 DEF ChildWrites
<1>7. CASE WatchStep
  <2>1. CASE WatchCancel
    BY <2>1 DEF WatchCancel
  <2>2. CASE WatchKill
    BY <2>2 DEF WatchKill
  <2>3. CASE WatchReap
    BY <2>3 DEF WatchReap
  <2> QED
    BY <1>7, <2>1, <2>2, <2>3 DEF WatchStep
<1>8. CASE CollectStep
  <2>1. CASE StartReturns
    BY <2>1 DEF StartReturns
  <2>2. CASE CollectExit
    BY <2>2 DEF CollectExit
  <2>3. CASE CollectMeet
    BY <2>3 DEF CollectMeet
  <2>4. CASE CollectDrained
    BY <2>4 DEF CollectDrained
  <2>5. CASE CollectExpires
    BY <2>5 DEF CollectExpires
  <2>6. CASE CollectJudge
    BY <2>6 DEF CollectJudge
  <2>7. CASE CollectClassify
    BY <2>7 DEF CollectClassify
  <2>8. CASE CollectEmit
    BY <2>8 DEF CollectEmit
  <2>9. CASE CollectDone
    BY <2>9 DEF CollectDone
  <2> QED
    BY <1>8, <2>1, <2>2, <2>3, <2>4, <2>5, <2>6, <2>7, <2>8, <2>9
       DEF CollectStep
<1>9. CASE Outside
  <2>1. CASE ChildForks
    BY <2>1 DEF ChildForks
  <2>2. CASE DescendantEnds
    BY <2>2 DEF DescendantEnds
  <2>3. CASE ChildExits
    BY <2>3 DEF ChildExits
  <2>4. CASE ContextEnds
    BY <2>4 DEF ContextEnds
  <2>5. CASE Kill
    BY <2>5 DEF Kill
  <2> QED
    BY <1>9, <2>1, <2>2, <2>3, <2>4, <2>5 DEF Outside
<1>10. CASE UNCHANGED vars
  BY <1>10 DEF vars
<1> QED
  BY <1>1, <1>2, <1>3, <1>4, <1>5, <1>6, <1>7, <1>8, <1>9, <1>10,
     StepKinds

(* The watcher, collect and the copying.                                   *)
LEMMA CopiedFirstStep ==
  TypeOK /\ Exclusive /\ CopiedFirst /\ [Next]_vars => CopiedFirst'
<1> SUFFICES ASSUME TypeOK, Exclusive, CopiedFirst,
                    [Next]_vars
             PROVE  CopiedFirst'
  OBVIOUS
<1> USE DEF CopiedFirst, Exclusive, Exited, Copied, Late, TypeOK, osVars,
            ioVars, execVars, sinkVars, keepVars
<1>1. CASE StartFails
  BY <1>1 DEF StartFails
<1>2. CASE StartChild
  BY <1>2 DEF StartChild
<1>3. ASSUME NEW s \in Streams, CopyRead(s) PROVE CopiedFirst'
  BY <1>3 DEF CopyRead
<1>4. ASSUME NEW s \in Streams, CopyWrite(s) PROVE CopiedFirst'
  BY <1>4 DEF CopyWrite
<1>5. ASSUME NEW s \in Streams, CopySinks(s) PROVE CopiedFirst'
  BY <1>5 DEF CopySinks
<1>6. ASSUME NEW s \in Streams, ChildWrites(s) PROVE CopiedFirst'
  BY <1>6 DEF ChildWrites
<1>7. CASE WatchStep
  <2>1. CASE WatchCancel
    BY <2>1 DEF WatchCancel
  <2>2. CASE WatchKill
    BY <2>2 DEF WatchKill
  <2>3. CASE WatchReap
    BY <2>3 DEF WatchReap
  <2> QED
    BY <1>7, <2>1, <2>2, <2>3 DEF WatchStep
<1>8. CASE CollectStep
  <2>1. CASE StartReturns
    BY <2>1 DEF StartReturns
  <2>2. CASE CollectExit
    BY <2>2 DEF CollectExit
  <2>3. CASE CollectMeet
    BY <2>3 DEF CollectMeet
  <2>4. CASE CollectDrained
    BY <2>4 DEF CollectDrained
  <2>5. CASE CollectExpires
    BY <2>5 DEF CollectExpires
  <2>6. CASE CollectJudge
    BY <2>6 DEF CollectJudge
  <2>7. CASE CollectClassify
    BY <2>7 DEF CollectClassify
  <2>8. CASE CollectEmit
    BY <2>8 DEF CollectEmit
  <2>9. CASE CollectDone
    BY <2>9 DEF CollectDone
  <2> QED
    BY <1>8, <2>1, <2>2, <2>3, <2>4, <2>5, <2>6, <2>7, <2>8, <2>9
       DEF CollectStep
<1>9. CASE Outside
  <2>1. CASE ChildForks
    BY <2>1 DEF ChildForks
  <2>2. CASE DescendantEnds
    BY <2>2 DEF DescendantEnds
  <2>3. CASE ChildExits
    BY <2>3 DEF ChildExits
  <2>4. CASE ContextEnds
    BY <2>4 DEF ContextEnds
  <2>5. CASE Kill
    BY <2>5 DEF Kill
  <2> QED
    BY <1>9, <2>1, <2>2, <2>3, <2>4, <2>5 DEF Outside
<1>10. CASE UNCHANGED vars
  BY <1>10 DEF vars
<1> QED
  BY <1>1, <1>2, <1>3, <1>4, <1>5, <1>6, <1>7, <1>8, <1>9, <1>10,
     StepKinds

(* Nobody writes to a stream that has ended.                               *)
LEMMA EndStep ==
  TypeOK /\ Exclusive /\ EndIsEnd /\ [Next]_vars => EndIsEnd'
<1> SUFFICES ASSUME TypeOK, Exclusive, EndIsEnd, [Next]_vars PROVE EndIsEnd'
  OBVIOUS
<1> USE DEF EndIsEnd, Exclusive, Exited, TypeOK, osVars, ioVars, execVars,
            sinkVars, keepVars
<1>1. CASE StartFails
  BY <1>1 DEF StartFails
<1>2. CASE StartChild
  BY <1>2 DEF StartChild
<1>3. ASSUME NEW s \in Streams, CopyRead(s) PROVE EndIsEnd'
  BY <1>3 DEF CopyRead
<1>4. ASSUME NEW s \in Streams, CopyWrite(s) PROVE EndIsEnd'
  BY <1>4 DEF CopyWrite
<1>5. ASSUME NEW s \in Streams, CopySinks(s) PROVE EndIsEnd'
  BY <1>5 DEF CopySinks
<1>6. ASSUME NEW s \in Streams, ChildWrites(s) PROVE EndIsEnd'
  BY <1>6 DEF ChildWrites
<1>7. CASE WatchStep
  <2>1. CASE WatchCancel
    BY <2>1 DEF WatchCancel
  <2>2. CASE WatchKill
    BY <2>2 DEF WatchKill
  <2>3. CASE WatchReap
    BY <2>3 DEF WatchReap
  <2> QED
    BY <1>7, <2>1, <2>2, <2>3 DEF WatchStep
<1>8. CASE CollectStep
  <2>1. CASE StartReturns
    BY <2>1 DEF StartReturns
  <2>2. CASE CollectExit
    BY <2>2 DEF CollectExit
  <2>3. CASE CollectMeet
    BY <2>3 DEF CollectMeet
  <2>4. CASE CollectDrained
    BY <2>4 DEF CollectDrained
  <2>5. CASE CollectExpires
    BY <2>5 DEF CollectExpires
  <2>6. CASE CollectJudge
    BY <2>6 DEF CollectJudge
  <2>7. CASE CollectClassify
    BY <2>7 DEF CollectClassify
  <2>8. CASE CollectEmit
    BY <2>8 DEF CollectEmit
  <2>9. CASE CollectDone
    BY <2>9 DEF CollectDone
  <2> QED
    BY <1>8, <2>1, <2>2, <2>3, <2>4, <2>5, <2>6, <2>7, <2>8, <2>9
       DEF CollectStep
<1>9. CASE Outside
  <2>1. CASE ChildForks
    BY <2>1 DEF ChildForks
  <2>2. CASE DescendantEnds
    BY <2>2 DEF DescendantEnds
  <2>3. CASE ChildExits
    BY <2>3 DEF ChildExits
  <2>4. CASE ContextEnds
    BY <2>4 DEF ContextEnds
  <2>5. CASE Kill
    BY <2>5 DEF Kill
  <2> QED
    BY <1>9, <2>1, <2>2, <2>3, <2>4, <2>5 DEF Outside
<1>10. CASE UNCHANGED vars
  BY <1>10 DEF vars
<1> QED
  BY <1>1, <1>2, <1>3, <1>4, <1>5, <1>6, <1>7, <1>8, <1>9, <1>10,
     StepKinds

(* Why read ends are closed.                                               *)
LEMMA ReasonStep ==
  TypeOK /\ Exclusive /\ CopiedFirst /\ ClosedForReason /\ [Next]_vars
    => ClosedForReason'
<1> SUFFICES ASSUME TypeOK, Exclusive, CopiedFirst, ClosedForReason,
                    [Next]_vars
             PROVE  ClosedForReason'
  OBVIOUS
<1> USE DEF ClosedForReason, CopiedFirst, Late, Copied, Errors, TypeOK,
            osVars, ioVars, execVars, sinkVars, keepVars
<1>1. CASE StartFails
  BY <1>1 DEF StartFails
<1>2. CASE StartChild
  BY <1>2 DEF StartChild
<1>3. ASSUME NEW s \in Streams, CopyRead(s) PROVE ClosedForReason'
  BY <1>3 DEF CopyRead
<1>4. ASSUME NEW s \in Streams, CopyWrite(s) PROVE ClosedForReason'
  BY <1>4 DEF CopyWrite
<1>5. ASSUME NEW s \in Streams, CopySinks(s) PROVE ClosedForReason'
  BY <1>5 DEF CopySinks
<1>6. ASSUME NEW s \in Streams, ChildWrites(s) PROVE ClosedForReason'
  BY <1>6 DEF ChildWrites
<1>7. CASE WatchStep
  <2>1. CASE WatchCancel
    BY <2>1 DEF WatchCancel
  <2>2. CASE WatchKill
    BY <2>2 DEF WatchKill
  <2>3. CASE WatchReap
    BY <2>3 DEF WatchReap
  <2> QED
    BY <1>7, <2>1, <2>2, <2>3 DEF WatchStep
<1>8. CASE CollectStep
  <2>1. CASE StartReturns
    BY <2>1 DEF StartReturns
  <2>2. CASE CollectExit
    BY <2>2 DEF CollectExit
  <2>3. CASE CollectMeet
    BY <2>3 DEF CollectMeet
  <2>4. CASE CollectDrained
    BY <2>4 DEF CollectDrained
  <2>5. CASE CollectExpires
    BY <2>5 DEF CollectExpires
  <2>6. CASE CollectJudge
    BY <2>6 DEF CollectJudge
  <2>7. CASE CollectClassify
    BY <2>7 DEF CollectClassify
  <2>8. CASE CollectEmit
    BY <2>8 DEF CollectEmit
  <2>9. CASE CollectDone
    BY <2>9 DEF CollectDone
  <2> QED
    BY <1>8, <2>1, <2>2, <2>3, <2>4, <2>5, <2>6, <2>7, <2>8, <2>9
       DEF CollectStep
<1>9. CASE Outside
  <2>1. CASE ChildForks
    BY <2>1 DEF ChildForks
  <2>2. CASE DescendantEnds
    BY <2>2 DEF DescendantEnds
  <2>3. CASE ChildExits
    BY <2>3 DEF ChildExits
  <2>4. CASE ContextEnds
    BY <2>4 DEF ContextEnds
  <2>5. CASE Kill
    BY <2>5 DEF Kill
  <2> QED
    BY <1>9, <2>1, <2>2, <2>3, <2>4, <2>5 DEF Outside
<1>10. CASE UNCHANGED vars
  BY <1>10 DEF vars
<1> QED
  BY <1>1, <1>2, <1>3, <1>4, <1>5, <1>6, <1>7, <1>8, <1>9, <1>10,
     StepKinds

(* The two looks at the context.                                           *)
LEMMA LooksStep ==
  TypeOK /\ CopiedFirst /\ EventsShape /\ ClosedForReason /\ LooksAgree
    /\ [Next]_vars => LooksAgree'
<1> SUFFICES ASSUME TypeOK, CopiedFirst, EventsShape, ClosedForReason,
                    LooksAgree, [Next]_vars
             PROVE  LooksAgree'
  OBVIOUS
<1> USE DEF LooksAgree, CopiedFirst, Exited, Copied, Late, ClosedForReason,
            EventTypeOf, Errors, TypeOK, osVars, ioVars, execVars, sinkVars,
            keepVars
<1>1. CASE StartFails
  BY <1>1 DEF StartFails
<1>2. CASE StartChild
  BY <1>2 DEF StartChild
<1>3. ASSUME NEW s \in Streams, CopyRead(s) PROVE LooksAgree'
  BY <1>3 DEF CopyRead
<1>4. ASSUME NEW s \in Streams, CopyWrite(s) PROVE LooksAgree'
  BY <1>4 DEF CopyWrite
<1>5. ASSUME NEW s \in Streams, CopySinks(s) PROVE LooksAgree'
  BY <1>5 DEF CopySinks
<1>6. ASSUME NEW s \in Streams, ChildWrites(s) PROVE LooksAgree'
  BY <1>6 DEF ChildWrites
<1>7. CASE WatchStep
  <2>1. CASE WatchCancel
    BY <2>1 DEF WatchCancel
  <2>2. CASE WatchKill
    BY <2>2 DEF WatchKill
  <2>3. CASE WatchReap
    BY <2>3 DEF WatchReap
  <2> QED
    BY <1>7, <2>1, <2>2, <2>3 DEF WatchStep
<1>8. CASE CollectStep
  <2>1. CASE StartReturns
    BY <2>1 DEF StartReturns
  <2>2. CASE CollectExit
    BY <2>2 DEF CollectExit
  <2>3. CASE CollectMeet
    BY <2>3 DEF CollectMeet
  <2>4. CASE CollectDrained
    BY <2>4 DEF CollectDrained
  <2>5. CASE CollectExpires
    BY <2>5 DEF CollectExpires
  <2>6. CASE CollectJudge
    BY <2>6 DEF CollectJudge
  <2>7. CASE CollectClassify
    BY <2>7 DEF CollectClassify
  <2>8. CASE CollectEmit
    BY <2>8 DEF CollectEmit
  <2>9. CASE CollectDone
    BY <2>9 DEF CollectDone
  <2> QED
    BY <1>8, <2>1, <2>2, <2>3, <2>4, <2>5, <2>6, <2>7, <2>8, <2>9
       DEF CollectStep
<1>9. CASE Outside
  <2>1. CASE ChildForks
    BY <2>1 DEF ChildForks
  <2>2. CASE DescendantEnds
    BY <2>2 DEF DescendantEnds
  <2>3. CASE ChildExits
    BY <2>3 DEF ChildExits
  <2>4. CASE ContextEnds
    BY <2>4 DEF ContextEnds
  <2>5. CASE Kill
    BY <2>5 DEF Kill
  <2> QED
    BY <1>9, <2>1, <2>2, <2>3, <2>4, <2>5 DEF Outside
<1>10. CASE UNCHANGED vars
  BY <1>10 DEF vars
<1> QED
  BY <1>1, <1>2, <1>3, <1>4, <1>5, <1>6, <1>7, <1>8, <1>9, <1>10,
     StepKinds

(* The calls of the sinks.                                                 *)
LEMMA EventsStep ==
  TypeOK /\ Exclusive /\ CopiedFirst /\ EventsShape /\ [Next]_vars
    => EventsShape'
<1> SUFFICES ASSUME TypeOK, Exclusive, CopiedFirst, EventsShape, [Next]_vars
             PROVE  EventsShape'
  OBVIOUS
<1> DEFINE E == Streams \cup Terminal \cup {"started"}
<1>1. events \in Seq(E) /\ Len(events) \in Nat
  BY DEF TypeOK
<1>2. ASSUME NEW e
      PROVE  /\ Append(events, e) # <<>>
             /\ Len(Append(events, e)) = Len(events) + 1
             /\ Append(events, e)[Len(events) + 1] = e
             /\ \A i \in 1 .. Len(events) : Append(events, e)[i] = events[i]
  BY <1>1
<1>3. ASSUME main \notin {"start", "failed", "sink", "done"}, NEW e,
             events' = Append(events, e),
             \/ main' = main /\ e \in Streams
             \/ main' = "sink" /\ e \in Terminal
      PROVE  EventsShape'
  <2>1. events[1] = "started" /\ Len(events) > 0
    BY <1>1, <1>3 DEF EventsShape
  <2>2. events'[1] = "started" /\ events' # <<>>
    BY <1>2, <1>3, <2>1
  <2>3. Len(events') = Len(events) + 1 /\ events'[Len(events')] = e
    BY <1>2, <1>3
  <2>4. ASSUME NEW i \in 2 .. Len(events'), i # Len(events')
        PROVE  events'[i] \in Streams
    <3>1. i \in 2 .. Len(events)
      BY <1>1, <2>3, <2>4
    <3>2. events'[i] = events[i]
      BY <1>2, <1>3, <3>1
    <3> QED
      BY <1>3, <3>1, <3>2 DEF EventsShape
  <2> QED
    BY <1>1, <1>3, <2>1, <2>2, <2>3, <2>4 DEF EventsShape
<1>4. ASSUME events' = events, main' = main PROVE EventsShape'
  BY <1>4 DEF EventsShape
<1>5. CASE StartFails
  <2>1. events = <<>>
    BY <1>5 DEF StartFails, EventsShape
  <2>2. events' = <<"failed">> /\ main' = "failed"
    BY <1>5, <2>1 DEF StartFails
  <2> QED
    BY <2>2 DEF EventsShape
<1>6. CASE StartChild
  <2>1. events = <<>>
    BY <1>6 DEF StartChild, EventsShape
  <2>2. events' = <<"started">> /\ main' = "startedSink"
    BY <1>6, <2>1 DEF StartChild
  <2>3. Len(events') = 1 /\ events'[1] = "started" /\ events' # <<>>
    BY <2>2
  <2> QED
    BY <2>2, <2>3 DEF EventsShape
<1>7. ASSUME NEW s \in Streams, CopyWrite(s) PROVE EventsShape'
  <2>1. main \notin {"start", "failed", "sink", "done"}
    BY <1>7 DEF CopyWrite, SinkMuFree, Ready, CopiedFirst, Copied, Late,
       Exclusive
  <2> QED
    BY <1>3, <1>7, <2>1 DEF CopyWrite
<1>8. CASE CollectEmit
  BY <1>3, <1>8, EventTypes DEF CollectEmit
<1>9. CASE CollectStep /\ ~CollectEmit
  <2>1. events' = events
    BY <1>9 DEF CollectStep, StartReturns, CollectExit, CollectMeet,
       CollectDrained, CollectExpires, CollectJudge, CollectClassify,
       CollectDone, sinkVars
  <2>2. \/ main = "sink" /\ main' = "done"
        \/ /\ main \notin {"start", "failed", "sink", "done"}
           /\ main' \notin {"start", "failed", "sink", "done"}
    BY <1>9 DEF CollectStep, StartReturns, CollectExit, CollectMeet,
       CollectDrained, CollectExpires, CollectJudge, CollectClassify,
       CollectDone
  <2> QED
    BY <2>1, <2>2 DEF EventsShape
<1> QED
  BY <1>4, <1>5, <1>6, <1>7, <1>8, <1>9, StepKinds, EventsFrame

(* A chunk in the sinks.                                                   *)
LEMMA SinksMerged ==
  ASSUME TypeOK, BytesInOrder, MergedInOrder, NEW s \in Streams, CopySinks(s)
  PROVE  MergedInOrder'
<1> DEFINE m == merged
           d == held[s]
           g == single[s]
<1>1. /\ m \in Seq(Bytes) /\ d \in Seq(Bytes) /\ g \in Seq(Bytes)
      /\ Len(m) \in Nat /\ Len(d) \in Nat /\ Len(g) \in Nat
      /\ merged' = m \o d
  BY DEF TypeOK, CopySinks
<1>2. /\ Len(merged') = Len(m) + Len(d)
      /\ \A i \in 1 .. Len(m) : merged'[i] = m[i]
      /\ \A j \in 1 .. Len(d) : merged'[Len(m) + j] = d[j]
      /\ \A i \in 1 .. Len(merged') :
            i \in 1 .. Len(m) \/ \E j \in 1 .. Len(d) : i = Len(m) + j
  BY <1>1, Concatenated
<1>3. \A j \in 1 .. Len(d) : d[j] = <<s, Len(g) + j>>
  BY DEF BytesInOrder, Numbered
<1>4. /\ Len(single'[s]) = Len(g) + Len(d)
      /\ \A t \in Streams : t # s => single'[t] = single[t]
      /\ \A t \in Streams : Len(single[t]) \in Nat
  BY SinksNumbered DEF CopySinks, TypeOK
<1>5. \A i \in 1 .. Len(m) : /\ m[i][1] \in Streams
                             /\ m[i][2] \in 1 .. Len(single[m[i][1]])
  BY DEF MergedInOrder
<1>6. \A i, j \in 1 .. Len(m) :
         i < j /\ m[i][1] = m[j][1] => m[i][2] < m[j][2]
  BY DEF MergedInOrder
<1>7. \A t \in Streams, k \in Nat : k \in 1 .. Len(single[t]) =>
         \E i \in 1 .. Len(m) : m[i] = <<t, k>>
  BY DEF MergedInOrder
<1>8. g = single[s]
  OBVIOUS
<1> HIDE DEF m, d, g
<1>9. ASSUME NEW j \in 1 .. Len(d)
      PROVE  /\ merged'[Len(m) + j][1] = s
             /\ merged'[Len(m) + j][2] = Len(g) + j
  BY <1>2, <1>3
<1>10. ASSUME NEW i \in 1 .. Len(merged')
       PROVE  /\ merged'[i][1] \in Streams
              /\ merged'[i][2] \in 1 .. Len(single'[merged'[i][1]])
  <2>1. CASE i \in 1 .. Len(m)
    <3> DEFINE t == m[i][1]
    <3>1. merged'[i] = m[i] /\ t \in Streams /\ m[i][2] \in 1 .. Len(single[t])
      BY <1>2, <1>5, <2>1
    <3>2. CASE t = s
      <4>1. 1 .. Len(g) \subseteq 1 .. Len(single'[s])
        BY <1>1, <1>4
      <4> QED
        BY <1>8, <3>1, <3>2, <4>1
    <3>3. CASE t # s
      BY <1>4, <3>1, <3>3
    <3> QED
      BY <3>1, <3>2, <3>3
  <2>2. ASSUME NEW j \in 1 .. Len(d), i = Len(m) + j
        PROVE  /\ merged'[i][1] \in Streams
               /\ merged'[i][2] \in 1 .. Len(single'[merged'[i][1]])
    <3>1. merged'[i][1] = s /\ merged'[i][2] = Len(g) + j
      BY <1>9, <2>2
    <3>2. Len(g) + j \in 1 .. Len(single'[s])
      BY <1>1, <1>4
    <3> QED
      BY <3>1, <3>2
  <2> QED
    BY <1>2, <2>1, <2>2
<1>11. ASSUME NEW t \in Streams, NEW k \in Nat, k \in 1 .. Len(single'[t])
       PROVE  \E i \in 1 .. Len(merged') : merged'[i] = <<t, k>>
  <2>1. CASE k \in 1 .. Len(single[t])
    <3>1. PICK i \in 1 .. Len(m) : m[i] = <<t, k>>
      BY <1>7, <2>1
    <3>2. i \in 1 .. Len(merged') /\ merged'[i] = <<t, k>>
      BY <1>1, <1>2, <3>1
    <3> QED
      BY <3>2
  <2>2. CASE k \notin 1 .. Len(single[t])
    <3>1. t = s
      BY <1>4, <1>11, <2>2
    <3>2. k - Len(g) \in 1 .. Len(d) /\ Len(g) + (k - Len(g)) = k
      BY <1>1, <1>4, <1>8, <1>11, <2>2, <3>1
    <3>3. merged'[Len(m) + (k - Len(g))] = <<s, Len(g) + (k - Len(g))>>
      BY <1>2, <1>3, <3>2
    <3>4. Len(m) + (k - Len(g)) \in 1 .. Len(merged')
      BY <1>1, <1>2, <3>2
    <3> QED
      BY <3>1, <3>2, <3>3, <3>4
  <2> QED
    BY <2>1, <2>2
<1>12. ASSUME NEW i \in 1 .. Len(merged'), NEW j \in 1 .. Len(merged'),
              i < j, merged'[i][1] = merged'[j][1]
       PROVE  merged'[i][2] < merged'[j][2]
  <2>1. CASE j \in 1 .. Len(m)
    <3>1. i \in 1 .. Len(m)
      BY <1>1, <1>12, <2>1
    <3>2. merged'[i] = m[i] /\ merged'[j] = m[j]
      BY <1>2, <2>1, <3>1
    <3> QED
      BY <1>6, <1>12, <2>1, <3>1, <3>2
  <2>2. ASSUME NEW b \in 1 .. Len(d), j = Len(m) + b, i \in 1 .. Len(m)
        PROVE  merged'[i][2] < merged'[j][2]
    <3>1. merged'[j][1] = s /\ merged'[j][2] = Len(g) + b
      BY <1>9, <2>2
    <3>2. merged'[i] = m[i] /\ m[i][2] \in 1 .. Len(single[m[i][1]])
      BY <1>2, <1>5, <2>2
    <3>3. m[i][2] \in 1 .. Len(g)
      BY <1>8, <1>12, <3>1, <3>2
    <3>4. Len(g) \in Nat /\ b \in Nat /\ b >= 1
      BY <1>1, <2>2
    <3>5. m[i][2] < Len(g) + b
      BY <3>3, <3>4
    <3> QED
      BY <3>1, <3>2, <3>5
  <2>3. ASSUME NEW b \in 1 .. Len(d), j = Len(m) + b,
               NEW a \in 1 .. Len(d), i = Len(m) + a
        PROVE  merged'[i][2] < merged'[j][2]
    <3>1. merged'[i][2] = Len(g) + a /\ merged'[j][2] = Len(g) + b
      BY <1>9, <2>3
    <3> QED
      BY <1>1, <1>12, <2>3, <3>1
  <2> QED
    BY <1>2, <2>1, <2>2, <2>3
<1> QED
  BY <1>10, <1>11, <1>12 DEF MergedInOrder

LEMMA SinksScrolled ==
  ASSUME TypeOK, ScrollbackIsEnd, NEW s \in Streams, CopySinks(s)
  PROVE  ScrollbackIsEnd'
<1> DEFINE d == held[s]
           m == merged \o d
           b == buf \o d
<1>1. /\ merged \in Seq(Bytes) /\ d \in Seq(Bytes) /\ buf \in Seq(Bytes)
      /\ limit \in Int /\ limit' = limit
      /\ merged' = m /\ buf' = Scrolled(d)
  BY LimitsAssumption DEF TypeOK, CopySinks
<1>2. /\ m \in Seq(Bytes) /\ Len(m) = Len(merged) + Len(d)
      /\ Len(b) = Len(buf) + Len(d)
  BY <1>1, ConcatProperties
<1>3. PICK cut \in 0 .. Len(merged) :
         /\ buf = SubSeq(merged, cut + 1, Len(merged))
         /\ limit > 0 => Len(buf) <= limit /\ (cut > 0 => Len(buf) = limit)
         /\ limit <= 0 => buf = <<>>
  BY DEF ScrollbackIsEnd
<1>4. Len(buf) = Len(merged) - cut
  BY <1>1, <1>3, SubSeqProperties, ElementOfSeq
<1>5. b = SubSeq(m, cut + 1, Len(m))
  BY <1>1, <1>3, EndGrows
<1>6. /\ Len(d) \in Nat /\ Len(merged) \in Nat /\ Len(m) \in Nat
      /\ Len(buf) \in Nat /\ cut \in 0 .. Len(m)
  BY <1>1, <1>2
<1> HIDE DEF d, m, b
<1>7. CASE limit <= 0
  <2>1. buf' = <<>>
    BY <1>1, <1>3, <1>7 DEF Scrolled
  <2>2. SubSeq(m, Len(m) + 1, Len(m)) = <<>>
    BY <1>2, <1>6, SubSeqProperties
  <2> QED
    BY <1>1, <1>6, <1>7, <2>1, <2>2 DEF ScrollbackIsEnd
<1>8. CASE limit > 0 /\ Len(b) <= limit
  <2>1. buf' = b
    BY <1>1, <1>8 DEF Scrolled, b
  <2>2. ASSUME cut > 0 PROVE Len(b) = limit
    <3>1. Len(buf) = limit
      BY <1>3, <1>8, <2>2
    <3>2. Len(b) = limit + Len(d) /\ limit \in Int
      BY <1>1, <1>2, <3>1
    <3> QED
      BY <1>6, <1>8, <3>2
  <2> QED
    BY <1>1, <1>5, <1>6, <1>8, <2>1, <2>2 DEF ScrollbackIsEnd
<1>9. CASE limit > 0 /\ ~(Len(b) <= limit)
  <2>1. buf' = Tail_(b, limit)
    BY <1>1, <1>9 DEF Scrolled, b
  <2>2. Len(b) = Len(m) - cut /\ limit \in 0 .. Len(m) - cut
    BY <1>1, <1>2, <1>3, <1>4, <1>6, <1>9
  <2>3. buf' = SubSeq(m, Len(m) - limit + 1, Len(m))
    BY <1>2, <1>5, <1>6, <2>1, <2>2, EndOfEnd
  <2>4. Len(m) - limit \in 0 .. Len(m) /\ Len(buf') = limit
    BY <1>2, <1>6, <2>2, <2>3, SubSeqProperties, ElementOfSeq
  <2>5. ~(limit <= 0) /\ Len(buf') <= limit
    BY <1>1, <1>9, <2>4
  <2>6. /\ Len(merged') - limit \in 0 .. Len(merged')
        /\ buf' = SubSeq(merged', (Len(merged') - limit) + 1, Len(merged'))
    BY <1>1, <2>3, <2>4
  <2> QED
    BY <1>1, <2>4, <2>5, <2>6 DEF ScrollbackIsEnd
<1> QED
  BY <1>1, <1>7, <1>8, <1>9

LEMMA KeptStep ==
  TypeOK /\ BytesInOrder /\ MergedInOrder /\ ScrollbackIsEnd /\ [Next]_vars
    => MergedInOrder' /\ ScrollbackIsEnd'
<1>1. ASSUME UNCHANGED <<single, merged, limit, buf>>,
             MergedInOrder, ScrollbackIsEnd
      PROVE  MergedInOrder' /\ ScrollbackIsEnd'
  BY <1>1 DEF MergedInOrder, ScrollbackIsEnd
<1> QED
  BY <1>1, StepKinds, BytesFrame, KeptFrame, SinksMerged, SinksScrolled

-----------------------------------------------------------------------------
LEMMA ProcessInit == Init => ProcessInv
<1> SUFFICES ASSUME Init PROVE ProcessInv
  OBVIOUS
<1>1. <<>> \in Seq(Bytes) /\ Len(<<>>) = 0
      /\ <<>> \in Seq(Streams \cup Terminal \cup {"started"})
  OBVIOUS
<1>2. TypeOK
  <2>1. /\ written \in [Streams -> 0 .. MaxWrites]
        /\ \A io \in {pipe, held, single} : io \in [Streams -> Seq(Bytes)]
    BY <1>1, WritesAssumption DEF Init
  <2>2. copier \in [Streams -> {"none", "read", "write", "sink", "done"}]
    BY DEF Init
  <2>3. result \in [err : Errors, canceled : BOOLEAN]
    BY DEF Init, Errors
  <2> QED
    BY <1>1, <2>1, <2>2, <2>3 DEF Init, TypeOK, Errors
<1>3. Exclusive /\ CopiedFirst /\ EventsShape
  BY DEF Init, Exclusive, CopiedFirst, EventsShape, Late
<1>4. BytesInOrder /\ MergedInOrder
  BY <1>1 DEF Init, BytesInOrder, Numbered, MergedInOrder
<1>5. ScrollbackIsEnd
  <2>1. SubSeq(<<>>, 1, 0) = <<>>
    BY SubSeqProperties
  <2>2. /\ 0 \in 0 .. Len(merged) /\ Len(buf) = 0 /\ ~(0 > 0)
        /\ buf = SubSeq(merged, 0 + 1, Len(merged)) /\ buf = <<>>
    BY <1>1, <2>1 DEF Init
  <2>3. limit > 0 => Len(buf) <= limit
    BY <2>2, LimitsAssumption DEF Init
  <2> QED
    BY <2>2, <2>3 DEF ScrollbackIsEnd
<1>6. EndIsEnd /\ ClosedForReason /\ LooksAgree
  BY DEF Init, EndIsEnd, ClosedForReason, LooksAgree, Late
<1> QED
  BY <1>2, <1>3, <1>4, <1>5, <1>6 DEF ProcessInv

(* The invariant, for any streams, limits and number of bytes.             *)
THEOREM ProcessSafe == Spec => []ProcessInv
<1>1. ProcessInv /\ [Next]_vars => ProcessInv'
  BY TypeStep, ExclusiveStep, CopiedFirstStep, EventsStep, BytesStep, KeptStep,
     EndStep, ReasonStep, LooksStep DEF ProcessInv
<1> QED
  BY ProcessInit, <1>1, PTL DEF Spec

-----------------------------------------------------------------------------
(* The chunks of a stream, put together, are its bytes.                    *)
LEMMA StreamTogether ==
  ASSUME TypeOK, BytesInOrder, NEW s \in Streams
  PROVE  single[s] \o held[s] \o pipe[s] = [k \in 1 .. written[s] |-> <<s, k>>]
<1> DEFINE g == single[s]
           d == held[s]
           p == pipe[s]
           front == g \o d
           all == front \o p
           n == written[s]
<1>1. /\ g \in Seq(Bytes) /\ d \in Seq(Bytes) /\ p \in Seq(Bytes)
      /\ Len(g) \in Nat /\ Len(d) \in Nat /\ Len(p) \in Nat
      /\ n \in 0 .. MaxWrites
  BY DEF TypeOK
<1>2. /\ Len(g) + Len(d) + Len(p) = n
      /\ \A k \in 1 .. Len(g) : g[k] = <<s, k>>
      /\ \A k \in 1 .. Len(d) : d[k] = <<s, Len(g) + k>>
      /\ \A k \in 1 .. Len(p) : p[k] = <<s, Len(g) + Len(d) + k>>
  BY DEF BytesInOrder, Numbered
<1>3. ASSUME NEW k \in 1 .. n PROVE <<s, k>> \in Bytes
  BY <1>1, WritesAssumption DEF Bytes
<1> HIDE DEF g, d, p, n
<1>4. /\ front \in Seq(Bytes) /\ Len(front) = Len(g) + Len(d)
      /\ \A k \in 1 .. Len(g) : front[k] = g[k]
      /\ \A j \in 1 .. Len(d) : front[Len(g) + j] = d[j]
      /\ \A k \in 1 .. Len(front) :
            k \in 1 .. Len(g) \/ \E j \in 1 .. Len(d) : k = Len(g) + j
  BY <1>1, Concatenated
<1> HIDE DEF front
<1>5. /\ all \in Seq(Bytes) /\ Len(all) = Len(front) + Len(p)
      /\ \A k \in 1 .. Len(front) : all[k] = front[k]
      /\ \A j \in 1 .. Len(p) : all[Len(front) + j] = p[j]
      /\ \A k \in 1 .. Len(all) :
            k \in 1 .. Len(front) \/ \E j \in 1 .. Len(p) : k = Len(front) + j
  <2>1. front \in Seq(Bytes) /\ p \in Seq(Bytes)
    BY <1>1, <1>4
  <2> QED
    BY <2>1, Concatenated
<1> HIDE DEF all
<1>6. ASSUME NEW k \in 1 .. Len(front) PROVE front[k] = <<s, k>>
  <2>1. CASE k \in 1 .. Len(g)
    BY <1>2, <1>4, <2>1
  <2>2. ASSUME NEW j \in 1 .. Len(d), k = Len(g) + j
        PROVE  front[k] = <<s, k>>
    BY <1>2, <1>4, <2>2
  <2> QED
    BY <1>4, <2>1, <2>2
<1>7. ASSUME NEW k \in 1 .. Len(all) PROVE all[k] = <<s, k>>
  <2>1. CASE k \in 1 .. Len(front)
    BY <1>5, <1>6, <2>1
  <2>2. ASSUME NEW j \in 1 .. Len(p), k = Len(front) + j
        PROVE  all[k] = <<s, k>>
    BY <1>2, <1>4, <1>5, <2>2
  <2> QED
    BY <1>5, <2>1, <2>2
<1>8. Len(all) = n
  BY <1>2, <1>4, <1>5
<1>9. /\ [k \in 1 .. n |-> <<s, k>>] \in Seq(Bytes)
      /\ Len([k \in 1 .. n |-> <<s, k>>]) = n
  BY <1>1, <1>3
<1>10. all = [k \in 1 .. n |-> <<s, k>>]
  BY <1>5, <1>7, <1>8, <1>9, SeqEqual
<1> QED
  BY <1>10 DEF all, front, g, d, p, n

(* Merged holds the delivered bytes and no others.                         *)
LEMMA MergedTogether ==
  ASSUME TypeOK, BytesInOrder, MergedInOrder
  PROVE  {merged[i] : i \in DOMAIN merged}
            = UNION {{single[s][k] : k \in DOMAIN single[s]} : s \in Streams}
<1>1. /\ DOMAIN merged = 1 .. Len(merged)
      /\ \A s \in Streams : DOMAIN single[s] = 1 .. Len(single[s])
      /\ \A s \in Streams, k \in Nat :
            k \in 1 .. Len(single[s]) => single[s][k] = <<s, k>>
      /\ \A s \in Streams : 1 .. Len(single[s]) \subseteq Nat
  BY DEF TypeOK, BytesInOrder, Numbered
<1>2. ASSUME NEW i \in 1 .. Len(merged)
      PROVE  \E s \in Streams : \E k \in DOMAIN single[s] :
                merged[i] = single[s][k]
  <2>1. merged[i] \in Bytes
    BY ElementOfSeq DEF TypeOK
  <2>2. PICK s \in Streams, k \in 1 .. MaxWrites : merged[i] = <<s, k>>
    BY <2>1 DEF Bytes
  <2>3. k \in 1 .. Len(single[s])
    BY <2>2 DEF MergedInOrder
  <2>4. single[s][k] = <<s, k>> /\ k \in DOMAIN single[s]
    BY <1>1, <2>3
  <2> QED
    BY <2>2, <2>4
<1>3. ASSUME NEW s \in Streams, NEW k \in DOMAIN single[s]
      PROVE  \E i \in 1 .. Len(merged) : merged[i] = single[s][k]
  <2>1. k \in 1 .. Len(single[s]) /\ k \in Nat
    BY <1>1
  <2>2. single[s][k] = <<s, k>>
    BY <1>1, <2>1
  <2>3. PICK i \in 1 .. Len(merged) : merged[i] = <<s, k>>
    BY <2>1 DEF MergedInOrder
  <2> QED
    BY <2>2, <2>3
<1> DEFINE M == {merged[i] : i \in DOMAIN merged}
           G(s) == {single[s][k] : k \in DOMAIN single[s]}
<1>4. M \subseteq UNION {G(s) : s \in Streams}
  BY <1>1, <1>2
<1>5. ASSUME NEW s \in Streams PROVE G(s) \subseteq M
  BY <1>1, <1>3
<1> HIDE DEF M, G
<1>6. M = UNION {G(s) : s \in Streams}
  BY <1>4, <1>5
<1> QED
  BY <1>6 DEF M, G

(* What a report of one event is.                                         *)
LEMMA OneEvent == \A q, e : q = <<e>> => Len(q) = 1 /\ q[1] = e
OBVIOUS

(* Sinks see one call at a time, in the order started, chunks, terminal,   *)
(* nothing after Wait; and a WriterSink and a Scrollback keep what the     *)
(* child wrote: processWriter.Write, emit and the two sinks in process.go. *)
THEOREM ProcessFramed == Spec => []Framed
<1>1. ProcessInv => Framed
  <2> SUFFICES ASSUME ProcessInv PROVE Framed
    OBVIOUS
  <2> USE DEF ProcessInv
  <2>1. \A x, y \in InSink : x = y
    BY DEF Exclusive, Ready, InSink
  <2>2. ASSUME NEW i \in DOMAIN events
        PROVE  /\ events[i] = "started" <=> i = 1 /\ main # "failed"
               /\ events[i] \in Terminal => i = Len(events)
    <3>1. /\ DOMAIN events = 1 .. Len(events) /\ Len(events) \in Nat
          /\ events = <<>> <=> Len(events) = 0
      BY EmptySeq DEF TypeOK
    <3>2. CASE main \in {"start", "failed"}
      <4>1. main = "failed" /\ events = <<"failed">>
        <5>1. events # <<>>
          BY <3>1
        <5> QED
          BY <3>2, <5>1 DEF EventsShape
      <4>2. i = 1 /\ Len(events) = 1 /\ events[i] = "failed"
        <5>1. Len(events) = 1 /\ events[1] = "failed"
          BY <4>1, OneEvent, Zenon
        <5> QED
          BY <3>1, <5>1
      <4> QED
        BY <4>1, <4>2
    <3>3. CASE main \notin {"start", "failed"} /\ i = 1
      BY <3>1, <3>3 DEF EventsShape, Terminal
    <3>4. CASE main \notin {"start", "failed"} /\ i # 1
      <4>1. i \in 2 .. Len(events)
        BY <3>1, <3>4
      <4>2. \/ events[i] \in Streams
            \/ i = Len(events) /\ main \in {"sink", "done"}
        BY <3>4, <4>1 DEF EventsShape
      <4>3. CASE events[i] \in Streams
        BY <3>4, <4>3, StreamsAssumption DEF Terminal
      <4>4. CASE i = Len(events) /\ main \in {"sink", "done"}
        BY <3>4, <4>4 DEF EventsShape, Terminal
      <4> QED
        BY <4>2, <4>3, <4>4
    <3> QED
      BY <3>2, <3>3, <3>4
  <2>3. main = "done" => InSink = {} /\ events[Len(events)] \in Terminal
    BY DEF InSink, CopiedFirst, Late, Copied, EventsShape
  <2>4. KeptIsDelivered
    <3>1. DOMAIN merged = 1 .. Len(merged)
      BY DEF TypeOK
    <3>2. \A i, j \in DOMAIN merged :
             i < j /\ merged[i][1] = merged[j][1]
                => merged[i][2] < merged[j][2]
      BY <3>1 DEF MergedInOrder
    <3> QED
      BY <3>2, StreamTogether, MergedTogether
         DEF KeptIsDelivered, ScrollbackIsEnd
  <2> QED
    BY <2>1, <2>2, <2>3, <2>4 DEF Framed
<1> QED
  BY ProcessSafe, <1>1, PTL

(* What Wait returns and what the sinks were told agree, and completed     *)
(* means that nothing the child wrote is missing: collect's two looks at   *)
(* ctx.Err in process.go, around the closing of the pipes by os/exec.      *)
THEOREM ProcessResultIsHonest == Spec => []ResultIsHonest
<1>1. ProcessInv => ResultIsHonest
  <2> SUFFICES ASSUME ProcessInv PROVE ResultIsHonest
    OBVIOUS
  <2> USE DEF ProcessInv
  <2>1. result.canceled \in BOOLEAN
    BY DEF TypeOK
  <2>2. main = "done" =>
          /\ result.canceled <=> events[Len(events)] = "canceled"
          /\ result.err = "context" => result.canceled
          /\ events[Len(events)] = "completed" => result.err = "none"
    BY <2>1 DEF LooksAgree, EventTypeOf
  <2>3. ASSUME events # <<>>, events[Len(events)] = "completed",
               NEW s \in Streams
        PROVE  Len(single[s]) = written[s]
    <3>1. Len(events) = 1 \/ Len(events) > 1
      <4>1. events \in Seq(Streams \cup Terminal \cup {"started"})
        BY DEF TypeOK
      <4>2. Len(events) \in Nat /\ Len(events) # 0
        BY <2>3, <4>1, EmptySeq
      <4>3. \A n \in Nat : n # 0 => n = 1 \/ n > 1
        OBVIOUS
      <4> QED
        BY <4>2, <4>3
    <3>2. main \in {"sink", "done"}
      <4>1. main \notin {"start", "failed"}
        BY <2>3 DEF EventsShape
      <4>2. Len(events) # 1
        BY <2>3, <4>1 DEF EventsShape
      <4>3. Len(events) > 1 => Len(events) \in 2 .. Len(events)
        BY DEF TypeOK
      <4> QED
        BY <2>3, <3>1, <4>1, <4>2, <4>3, StreamsAssumption DEF EventsShape
    <3>3. ~result.canceled /\ err = "none"
      BY <2>3, <3>2 DEF LooksAgree, EventTypeOf
    <3>4. parent = "open"
      BY <3>2, <3>3 DEF ClosedForReason, TypeOK
    <3>5. copier[s] = "done"
      BY <3>2 DEF CopiedFirst, Late, Copied
    <3>6. pipe[s] = <<>> /\ held[s] = <<>>
      BY <3>4, <3>5 DEF EndIsEnd, BytesInOrder, Numbered
    <3>7. Len(pipe[s]) = 0 /\ Len(held[s]) = 0 /\ Len(single[s]) \in Nat
      BY <3>6 DEF TypeOK
    <3>8. Len(single[s]) + Len(held[s]) + Len(pipe[s]) = written[s]
      BY DEF BytesInOrder, Numbered
    <3> QED
      BY <3>7, <3>8
  <2> QED
    BY <2>2, <2>3 DEF ResultIsHonest
<1> QED
  BY ProcessSafe, <1>1, PTL

-----------------------------------------------------------------------------
(* No descendant holds the pipes of a child that has not been started.     *)
NoneKept == child = "none" => ~kept

LEMMA NoneKeptSafe == Spec => []NoneKept
<1>1. Init => NoneKept
  BY DEF Init, NoneKept
<1>2. NoneKept /\ [Next]_vars => NoneKept'
  <2> SUFFICES ASSUME NoneKept, [Next]_vars PROVE NoneKept'
    OBVIOUS
  <2>1. CASE StartChild
    BY <2>1 DEF StartChild, NoneKept
  <2>2. CASE Outside
    BY <2>2 DEF Outside, NoneKept, ChildForks, DescendantEnds, ChildExits,
       ContextEnds, Kill, osVars
  <2>3. CASE StartFails \/ WatchStep \/ CollectStep \/ UNCHANGED vars
    BY <2>3 DEF NoneKept, StartFails, WatchStep, WatchCancel, WatchKill,
       WatchReap, CollectStep, StartReturns, CollectExit, CollectMeet,
       CollectDrained, CollectExpires, CollectJudge, CollectClassify,
       CollectEmit, CollectDone, osVars, vars
  <2>4. ASSUME NEW s \in Streams,
               CopyRead(s) \/ CopyWrite(s) \/ CopySinks(s) \/ ChildWrites(s)
        PROVE  NoneKept'
    BY <2>4 DEF NoneKept, CopyRead, CopyWrite, CopySinks, ChildWrites, osVars
  <2> QED
    BY <2>1, <2>2, <2>3, <2>4, StepKinds
<1> QED
  BY <1>1, <1>2, PTL DEF Spec

(* The last of a report's events.                                          *)
LEMMA LastEvent ==
  ASSUME TypeOK, NEW e \in Streams \cup Terminal \cup {"started"},
         events' = Append(events, e)
  PROVE  events'[Len(events')] = e
<1>1. events \in Seq(Streams \cup Terminal \cup {"started"})
  BY DEF TypeOK
<1> QED
  BY <1>1, AppendProperties

(* A step that touches neither bytes nor the verdict cannot be seen.       *)
LEMMA CommandHidden ==
  UNCHANGED <<written, single, merged>> /\ Verdict' = Verdict
     => UNCHANGED Command!vars
BY DEF Command!vars

(* Chunks are delivered while the command runs, each stream's in order.    *)
LEMMA SinksDeliver ==
  ASSUME ProcessInv, NEW s \in Streams, CopySinks(s)
  PROVE  (\E n \in 1 .. written[s] : Command!Deliver(s, n)) \/ UNCHANGED Command!vars
<1> DEFINE size == Len(held[s])
<1>1. /\ held[s] \in Seq(Bytes) /\ single[s] \in Seq(Bytes) /\ merged \in Seq(Bytes)
      /\ pipe[s] \in Seq(Bytes) /\ size \in Nat /\ Len(single[s]) \in Nat
      /\ Len(pipe[s]) \in Nat
  BY LenProperties DEF ProcessInv, TypeOK
<1>2. /\ copier[s] = "sink" /\ merged' = merged \o held[s]
      /\ single' = [single EXCEPT ![s] = single[s] \o held[s]]
      /\ UNCHANGED <<written, main, events>>
  BY DEF CopySinks, osVars
<1>3. Verdict = "running" /\ Verdict' = Verdict
  <2>1. main \notin {"start", "failed", "sink", "done"}
    BY <1>2 DEF ProcessInv, Exclusive, CopiedFirst, Late, Copied
  <2> QED
    BY <1>2, <2>1 DEF Verdict
<1>4. Len(single[s]) + size <= written[s]
  <2>1. Len(single[s]) + size + Len(pipe[s]) = written[s]
    BY DEF ProcessInv, BytesInOrder, Numbered
  <2> HIDE DEF size
  <2>2. \A a, b, c \in Nat : a + b + c = written[s] => a + b <= written[s]
    OBVIOUS
  <2> QED
    BY <1>1, <2>1, <2>2
<1>5. held[s] = [k \in 1 .. size |-> <<s, Len(single[s]) + k>>]
  <2>1. \A k \in 1 .. size : held[s][k] = <<s, Len(single[s]) + k>>
    BY DEF ProcessInv, BytesInOrder, Numbered
  <2>2. held[s] = [k \in 1 .. size |-> held[s][k]]
    BY <1>1
  <2> QED
    BY <2>1, <2>2
<1>6. [t \in Streams |-> Len(single'[t])]
         = [[t \in Streams |-> Len(single[t])] EXCEPT ![s] = @ + size]
  <2>1. Len(single'[s]) = Len(single[s]) + size
    BY <1>1, <1>2, ConcatProperties DEF ProcessInv, TypeOK
  <2>2. \A t \in Streams \ {s} : single'[t] = single[t]
    BY <1>2 DEF ProcessInv, TypeOK
  <2> QED
    BY <2>1, <2>2
<1>7. CASE size = 0
  <2>1. held[s] = <<>>
    BY <1>1, <1>7, EmptySeq
  <2>2. merged' = merged /\ single[s] \o held[s] = single[s]
    BY <1>1, <1>2, <2>1, ConcatEmptySeq
  <2>3. single' = single
    BY <1>2, <2>2 DEF ProcessInv, TypeOK
  <2> QED
    BY <1>2, <1>3, <2>2, <2>3, CommandHidden
<1>8. CASE size # 0
  <2>1. written[s] \in Int
    BY WritesAssumption DEF ProcessInv, TypeOK
  <2> HIDE DEF size
  <2>2. size \in 1 .. written[s]
    BY <1>1, <1>4, <1>8, <2>1
  <2>3. Command!Deliver(s, size)
    BY <1>2, <1>3, <1>4, <1>5, <1>6 DEF Command!Deliver
  <2> QED
    BY <2>2, <2>3 DEF Command!Deliver
<1> QED
  BY <1>7, <1>8

(* Only a command that is running writes: when the sinks have the terminal *)
(* event the read ends are closed, or everybody who could write is gone.   *)
LEMMA ChildIsRunning ==
  ASSUME ProcessInv, NoneKept, NEW s \in Streams, ChildWrites(s)
  PROVE  Command!Write(s)
<1>1. /\ child = "running" \/ kept
      /\ parent = "open" /\ written' = [written EXCEPT ![s] = @ + 1]
      /\ UNCHANGED <<single, merged, main, events>>
  BY DEF ChildWrites, sinkVars, keepVars
<1>2. main \notin {"start", "failed"}
  BY <1>1 DEF ProcessInv, Exclusive, NoneKept
<1>3. main \notin {"sink", "done"}
  BY <1>1 DEF ProcessInv, CopiedFirst, Late, Copied, EndIsEnd, Exited
<1> QED
  BY <1>1, <1>2, <1>3 DEF Command!Write, Verdict

(* Nothing is missing when collect chooses completed.                      *)
LEMMA CompletedHasAll ==
  ASSUME ProcessInv, main = "emit", EventTypeOf = "completed", NEW s \in Streams
  PROVE  Len(single[s]) = written[s]
<1>1. ~result.canceled /\ err = "none"
  BY DEF EventTypeOf
<1>2. parent = "open"
  BY <1>1 DEF ProcessInv, ClosedForReason, TypeOK
<1>3. copier[s] = "done"
  BY DEF ProcessInv, CopiedFirst, Late, Copied
<1>4. pipe[s] = <<>> /\ held[s] = <<>>
  BY <1>2, <1>3 DEF ProcessInv, EndIsEnd, BytesInOrder, Numbered
<1>5. Len(pipe[s]) = 0 /\ Len(held[s]) = 0 /\ Len(single[s]) \in Nat
  BY <1>4 DEF ProcessInv, TypeOK
<1>6. Len(single[s]) + Len(held[s]) + Len(pipe[s]) = written[s]
  BY DEF ProcessInv, BytesInOrder, Numbered
<1> QED
  BY <1>5, <1>6

(* The terminal event is the verdict, and no other step of collect is one. *)
LEMMA CollectFinishes ==
  ASSUME ProcessInv, CollectStep
  PROVE  Command!Finish \/ UNCHANGED Command!vars
<1>1. UNCHANGED <<written, single, merged>>
  BY BytesFrame
<1>2. CASE CollectEmit
  <2>1. main = "emit" /\ main' = "sink" /\ events' = Append(events, EventTypeOf)
    BY <1>2 DEF CollectEmit
  <2>2. Verdict = "running" /\ Verdict' = EventTypeOf
    BY <2>1, EventTypes, LastEvent DEF Verdict, ProcessInv
  <2>3. EventTypeOf = "completed" =>
           [s \in Streams |-> Len(single[s])] = written
    BY <2>1, CompletedHasAll DEF ProcessInv, TypeOK
  <2> QED
    BY <1>1, <2>2, <2>3, EventTypes DEF Command!Finish, Terminal
<1>3. CASE ~CollectEmit
  <2>1. /\ events' = events
        /\ \/ main = "sink" /\ main' = "done"
           \/ {main, main'} \cap {"start", "failed", "sink", "done"} = {}
    BY <1>3 DEF CollectStep, StartReturns, CollectExit, CollectMeet,
       CollectDrained, CollectExpires, CollectJudge, CollectClassify,
       CollectDone, sinkVars
  <2>2. Verdict' = Verdict
    BY <2>1 DEF Verdict
  <2> QED
    BY <1>1, <2>2, CommandHidden
<1> QED
  BY <1>2, <1>3

(* process.go's goroutines, os/exec's watcher and the three ways in which  *)
(* pipes are closed keep the promise of CommandRun.                        *)
THEOREM ProcessRunsCommand == Spec => RunsCommand
<1>1. Init => Command!Init
  BY DEF Init, Command!Init, Verdict
<1>2. ProcessInv /\ NoneKept /\ [Next]_vars => [Command!Next]_(Command!vars)
  <2> SUFFICES ASSUME ProcessInv, NoneKept, [Next]_vars
               PROVE  [Command!Next]_(Command!vars)
    OBVIOUS
  <2> USE DEF Command!Next
  <2>1. CASE StartFails
    <3>1. main = "start" /\ main' = "failed" /\ events' = Append(events, "failed")
      BY <2>1 DEF StartFails
    <3>2. Verdict = "none" /\ Verdict' = "failed"
      BY <3>1, LastEvent DEF Verdict, ProcessInv, Terminal
    <3> QED
      BY <2>1, <3>2, BytesFrame DEF Command!Start
  <2>2. CASE StartChild
    <3>1. Verdict = "none" /\ Verdict' = "running"
      BY <2>2 DEF StartChild, Verdict
    <3>2. UNCHANGED <<written, single, merged>>
      BY <2>2, KeptFrame DEF StartChild
    <3> QED
      BY <3>1, <3>2 DEF Command!Start
  <2>3. ASSUME NEW s \in Streams, CopyRead(s) PROVE UNCHANGED Command!vars
    BY <2>3, EventsFrame, KeptFrame, CommandHidden DEF CopyRead, osVars, Verdict
  <2>4. ASSUME NEW s \in Streams, CopyWrite(s) PROVE UNCHANGED Command!vars
    <3>1. main \notin {"start", "failed", "sink", "done"} /\ main' = main
      BY <2>4 DEF CopyWrite, Ready, SinkMuFree, ProcessInv, Exclusive,
         CopiedFirst, Late, Copied
    <3>2. Verdict' = Verdict
      BY <3>1 DEF Verdict
    <3> QED
      BY <2>4, <3>2, KeptFrame, CommandHidden DEF CopyWrite, osVars
  <2>5. ASSUME NEW s \in Streams, CopySinks(s) PROVE [Command!Next]_(Command!vars)
    BY <2>5, SinksDeliver
  <2>6. ASSUME NEW s \in Streams, ChildWrites(s) PROVE [Command!Next]_(Command!vars)
    BY <2>6, ChildIsRunning
  <2>7. CASE CollectStep
    BY <2>7, CollectFinishes
  <2>8. CASE WatchStep \/ Outside \/ UNCHANGED vars
    BY <2>8, EventsFrame, BytesFrame, CommandHidden DEF Verdict
  <2> QED
    BY <2>1, <2>2, <2>3, <2>4, <2>5, <2>6, <2>7, <2>8, StepKinds
<1> QED
  BY <1>1, <1>2, ProcessSafe, NoneKeptSafe, PTL DEF Spec, RunsCommand, Command!Spec
=============================================================================
