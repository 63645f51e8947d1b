------------------------------- MODULE Process -------------------------------
(***************************************************************************)
(* One child process run by process.Start (process/process.go): its two    *)
(* output streams, the goroutines that copy them to the sinks, the         *)
(* goroutine that collects the result, and a context that may end at any   *)
(* time.  Three sinks are attached: one that notes the calls it gets       *)
(* (events), a WriterSink and a Scrollback.  os/exec is external; what     *)
(* Cmd.Start, Wait and the watcher of the context do with WaitDelay is     *)
(* modelled as far as this code relies on it.                              *)
(*                                                                         *)
(* The child may ignore an interrupt, and a descendant of its may keep the *)
(* pipes open after it.  A timeout is a step that may happen at any time   *)
(* while its timer runs.  <<s, k>> is the k-th byte written to stream s.   *)
(***************************************************************************)
EXTENDS Integers, Sequences

CONSTANTS
    Streams,   \* stdout and stderr
    Main,      \* the goroutine of Start and, later, of collect
    Limits,    \* the limits a Scrollback may be made with
    MaxWrites  \* bound: bytes written to each stream

ASSUME MainAssumption == Main \notin Streams
ASSUME StreamsAssumption ==
    Streams \cap {"started", "completed", "failed", "canceled"} = {}
ASSUME LimitsAssumption == Limits \subseteq Int
ASSUME WritesAssumption == MaxWrites \in Nat

VARIABLES
    canceled,  \* cmdCtx has ended
    child,     \* "none", "running", "succeeded", "failed"
    killed,    \* SIGKILL was sent
    kept,      \* a descendant holds the write ends of the pipes
    written,   \* bytes written to each stream
    pipe,      \* those of them that are still in the pipe
    parent,    \* the read ends are "open" or "closed"
    copier,    \* each copying goroutine: "read", "write", "sink", "done"
    held,      \* the chunk it has read
    main,      \* where Start and then collect is
    watcher,   \* os/exec's watcher: "watch", "timing", "reaping", "over"
    err,       \* Cmd.Wait's error so far
    watchErr,  \* the watcher's
    result,    \* of collect: the error class and Canceled
    events,    \* what the sinks were called with
    merged,    \* what the WriterSink wrote to Merged
    single,    \* ... and to Stdout and Stderr
    limit,     \* of the Scrollback
    buf        \* of the Scrollback

osVars == <<child, killed, kept, written>>
ioVars == <<pipe, parent, copier, held>>
execVars == <<watcher, err, watchErr>>
keepVars == <<merged, single, limit, buf>>
sinkVars == <<events, keepVars>>
vars == <<canceled, osVars, ioVars, execVars, main, result, sinkVars>>

Terminal == {"completed", "failed", "canceled"}
Bytes == Streams \X (1 .. MaxWrites)
Errors == {"none", "exit", "context", "delay"}

TypeOK ==
    /\ canceled \in BOOLEAN /\ killed \in BOOLEAN /\ kept \in BOOLEAN
    /\ child \in {"none", "running", "succeeded", "failed"}
    /\ written \in [Streams -> 0 .. MaxWrites]
    /\ parent \in {"open", "closed"}
    /\ copier \in [Streams -> {"none", "read", "write", "sink", "done"}]
    /\ \A io \in {pipe, held, single} : io \in [Streams -> Seq(Bytes)]
    /\ main \in {"start", "startedSink", "wait", "meet", "drain", "close",
                 "judge", "classify", "emit", "sink", "done", "failed"}
    /\ watcher \in {"watch", "timing", "reaping", "over"}
    /\ err \in Errors /\ watchErr \in Errors
    /\ result \in [err : Errors, canceled : BOOLEAN]
    /\ events \in Seq(Streams \cup Terminal \cup {"started"})
    /\ limit \in Limits
    /\ merged \in Seq(Bytes) /\ buf \in Seq(Bytes)

Init ==
    /\ canceled \in BOOLEAN
    /\ child = "none" /\ killed = FALSE /\ kept = FALSE
    /\ written = [s \in Streams |-> 0]
    /\ pipe = [s \in Streams |-> <<>>] /\ held = pipe /\ single = pipe
    /\ parent = "open"
    /\ copier = [s \in Streams |-> "none"]
    /\ main = "start"
    /\ watcher = "watch" /\ err = "none" /\ watchErr = "none"
    /\ result = [err |-> "none", canceled |-> FALSE]
    /\ events = <<>> /\ merged = <<>> /\ buf = <<>>
    /\ limit \in Limits

-----------------------------------------------------------------------------
Exited == child \in {"succeeded", "failed"}
Copied == \A s \in Streams : copier[s] = "done"

(* Who is inside HandleProcessEvent.                                       *)
InSink ==
    {s \in Streams : copier[s] = "sink"} \cup
    (IF main \in {"startedSink", "sink"} THEN {Main} ELSE {})

(* p.sinkMu is free; emit of EventStarted does not take it.                *)
SinkMuFree == main # "sink" /\ \A s \in Streams : copier[s] # "sink"

(* outputReady is closed.                                                  *)
Ready == main \notin {"start", "startedSink"}

(* The last n elements of a sequence that has them.                        *)
Tail_(seq, n) == SubSeq(seq, Len(seq) - n + 1, Len(seq))

-----------------------------------------------------------------------------
(* Start: cmd.Start fails, for one because the context has ended, and Run  *)
(* reports that; or the child runs and EventStarted is emitted.            *)
StartFails ==
    /\ main = "start"
    /\ main' = "failed"
    /\ events' = Append(events, "failed")
    /\ UNCHANGED <<canceled, osVars, ioVars, execVars, result, keepVars>>

StartChild ==
    /\ main = "start"
    /\ ~canceled
    /\ main' = "startedSink"
    /\ child' = "running"
    /\ copier' = [s \in Streams |-> "read"]
    /\ events' = Append(events, "started")
    /\ UNCHANGED <<canceled, killed, kept, written, pipe, parent, held, execVars,
                   result, keepVars>>

(* The sinks have returned: close(outputReady), go collect.                *)
StartReturns ==
    /\ main = "startedSink"
    /\ main' = "wait"
    /\ UNCHANGED <<canceled, osVars, ioVars, execVars, result, sinkVars>>

-----------------------------------------------------------------------------
(* io.Copy: the next chunk, the end of the stream, or a closed read end.   *)
CopyRead(s) ==
    /\ copier[s] = "read"
    /\ \/ /\ parent = "open"
          /\ \E n \in 1 .. Len(pipe[s]) :
                /\ held' = [held EXCEPT ![s] = SubSeq(pipe[s], 1, n)]
                /\ pipe' = [pipe EXCEPT ![s] = SubSeq(@, n + 1, Len(@))]
          /\ copier' = [copier EXCEPT ![s] = "write"]
       \/ /\ parent = "closed" \/ (pipe[s] = <<>> /\ Exited /\ ~kept)
          /\ copier' = [copier EXCEPT ![s] = "done"]
          /\ UNCHANGED <<pipe, held>>
    /\ UNCHANGED <<canceled, osVars, parent, main, execVars, result, sinkVars>>

(* mutant: Write does not wait for outputReady.                            *)
CopyWriteEarly(s) ==
    /\ copier[s] = "write"
    /\ SinkMuFree
    /\ copier' = [copier EXCEPT ![s] = "sink"]
    /\ events' = Append(events, s)
    /\ UNCHANGED <<canceled, osVars, pipe, parent, held, main, execVars, result,
                   keepVars>>

(* processWriter.Write: wait for outputReady, then emit under sinkMu.      *)
CopyWrite(s) ==
    /\ copier[s] = "write"
    /\ Ready
    /\ SinkMuFree
    /\ copier' = [copier EXCEPT ![s] = "sink"]
    /\ events' = Append(events, s)
    /\ UNCHANGED <<canceled, osVars, pipe, parent, held, main, execVars, result,
                   keepVars>>

(* mutant: a chunk that makes the buffer too long replaces it.             *)
ScrolledOver(data) ==
    IF limit <= 0 THEN buf
    ELSE IF Len(buf \o data) <= limit THEN buf \o data
    ELSE Tail_(data, IF Len(data) < limit THEN Len(data) ELSE limit)

(* Scrollback.HandleProcessEvent.                                          *)
Scrolled(data) ==
    IF limit <= 0 THEN buf
    ELSE IF Len(buf \o data) <= limit THEN buf \o data
    ELSE Tail_(buf \o data, limit)

(* WriterSink and Scrollback handle the chunk, and emit returns.           *)
CopySinks(s) ==
    /\ copier[s] = "sink"
    /\ merged' = merged \o held[s]
    /\ single' = [single EXCEPT ![s] = @ \o held[s]]
    /\ buf' = Scrolled(held[s])
    /\ held' = [held EXCEPT ![s] = <<>>]
    /\ copier' = [copier EXCEPT ![s] = "read"]
    /\ UNCHANGED <<canceled, osVars, pipe, parent, main, execVars, result,
                   events, limit>>

CopyStep(s) == CopyRead(s) \/ CopyWrite(s) \/ CopySinks(s)

-----------------------------------------------------------------------------
(* The watcher of the context calls cmd.Cancel, which interrupts the child *)
(* (it may find it gone), and starts WaitDelay.                            *)
WatchCancel ==
    /\ watcher = "watch"
    /\ child # "none"
    /\ canceled
    /\ watchErr' \in IF Exited THEN {"none", "context"} ELSE {"context"}
    /\ watcher' = "timing"
    /\ UNCHANGED <<canceled, osVars, ioVars, main, err, result, sinkVars>>

(* mutant: cmd.WaitDelay is left at zero.                                  *)
WatchKillNever == FALSE

(* KillTimeout later it kills the child and closes the pipes, unless they  *)
(* have been copied.                                                       *)
WatchKill ==
    /\ watcher = "timing"
    /\ killed' = (killed \/ child = "running")
    /\ IF Copied
         THEN watcher' = "over" /\ UNCHANGED parent
         ELSE watcher' = "reaping" /\ parent' = "closed"
    /\ UNCHANGED <<canceled, child, kept, written, pipe, copier, held, main,
                   err, watchErr, result, sinkVars>>

WatchReap ==
    /\ watcher = "reaping"
    /\ Copied
    /\ watcher' = "over"
    /\ watchErr' \in IF watchErr = "none" THEN {"none", "delay"} ELSE {watchErr}
    /\ UNCHANGED <<canceled, osVars, ioVars, main, err, result, sinkVars>>

WatchStep == WatchCancel \/ WatchKill \/ WatchReap

-----------------------------------------------------------------------------
(* collect, Cmd.Wait: the child has exited.                                *)
CollectExit ==
    /\ main = "wait"
    /\ Exited
    /\ err' = IF child = "failed" THEN "exit" ELSE "none"
    /\ main' = "meet"
    /\ UNCHANGED <<canceled, osVars, ioVars, watcher, watchErr, result,
                   sinkVars>>

(* It takes over from the watcher, with the watcher's timer if it runs.    *)
CollectMeet ==
    /\ main = "meet"
    /\ watcher # "reaping"
    /\ err' = IF err = "none" THEN watchErr ELSE err
    /\ main' = IF watcher = "over" THEN "judge" ELSE "drain"
    /\ watcher' = "over"
    /\ UNCHANGED <<canceled, osVars, ioVars, watchErr, result, sinkVars>>

(* mutant: it takes what has been copied by the time the child exits.      *)
CollectDrainedEarly ==
    /\ main \in {"drain", "close"}
    /\ main' = "judge"
    /\ err' = IF main = "close" /\ err = "none" THEN "delay" ELSE err
    /\ UNCHANGED <<canceled, osVars, ioVars, watcher, watchErr, result,
                   sinkVars>>

(* It waits for the copying, at most for WaitDelay.                        *)
CollectDrained ==
    /\ main \in {"drain", "close"}
    /\ Copied
    /\ main' = "judge"
    /\ err' = IF main = "close" /\ err = "none" THEN "delay" ELSE err
    /\ UNCHANGED <<canceled, osVars, ioVars, watcher, watchErr, result,
                   sinkVars>>

CollectExpires ==
    /\ main = "drain"
    /\ ~Copied
    /\ parent' = "closed"
    /\ main' = "close"
    /\ UNCHANGED <<canceled, osVars, pipe, copier, held, execVars, result,
                   sinkVars>>

(* The first look at ctx.Err.                                              *)
CollectJudge ==
    /\ main = "judge"
    /\ result' = [result EXCEPT !.err = IF canceled THEN "context" ELSE err]
    /\ main' = "classify"
    /\ UNCHANGED <<canceled, osVars, ioVars, execVars, sinkVars>>

(* The second look decides about Canceled and the event.                   *)
CollectClassify ==
    /\ main = "classify"
    /\ result' = [result EXCEPT !.canceled = canceled]
    /\ main' = "emit"
    /\ UNCHANGED <<canceled, osVars, ioVars, execVars, sinkVars>>

(* mutant: the event is chosen by a third look at the context.             *)
EventTypeOfLate ==
    IF canceled THEN "canceled"
    ELSE IF err # "none" \/ child = "failed" THEN "failed" ELSE "completed"

EventTypeOf ==
    IF result.canceled THEN "canceled"
    ELSE IF err # "none" \/ child = "failed" THEN "failed" ELSE "completed"

(* The terminal event, and then p.result and close(p.done).                *)
CollectEmit ==
    /\ main = "emit"
    /\ SinkMuFree
    /\ main' = "sink"
    /\ events' = Append(events, EventTypeOf)
    /\ UNCHANGED <<canceled, osVars, ioVars, execVars, result, keepVars>>

CollectDone ==
    /\ main = "sink"
    /\ main' = "done"
    /\ canceled' = TRUE
    /\ UNCHANGED <<osVars, ioVars, execVars, result, sinkVars>>

CollectStep ==
    \/ StartReturns \/ CollectExit \/ CollectMeet \/ CollectDrained
    \/ CollectExpires \/ CollectJudge \/ CollectClassify \/ CollectEmit
    \/ CollectDone

-----------------------------------------------------------------------------
(* The child and its descendants write, fork and exit as they like; a      *)
(* killed child exits.                                                     *)
ChildWrites(s) ==
    /\ child = "running" \/ kept
    /\ parent = "open"
    /\ written[s] < MaxWrites
    /\ written' = [written EXCEPT ![s] = @ + 1]
    /\ pipe' = [pipe EXCEPT ![s] = Append(@, <<s, written'[s]>>)]
    /\ UNCHANGED <<canceled, child, killed, kept, parent, copier, held, main,
                   execVars, result, sinkVars>>

ChildForks ==
    /\ child = "running"
    /\ kept' = TRUE
    /\ UNCHANGED <<canceled, child, killed, written, ioVars, main, execVars,
                   result, sinkVars>>

DescendantEnds ==
    /\ kept
    /\ kept' = FALSE
    /\ UNCHANGED <<canceled, child, killed, written, ioVars, main, execVars,
                   result, sinkVars>>

ChildExits ==
    /\ child = "running"
    /\ child' \in {"succeeded", "failed"}
    /\ UNCHANGED <<canceled, killed, kept, written, ioVars, main, execVars,
                   result, sinkVars>>

(* The caller's context or Spec.Timeout ends; Process.Kill.  Process.Stop  *)
(* sends an interrupt, which obliges the child to nothing.                 *)
ContextEnds ==
    /\ ~canceled
    /\ canceled' = TRUE
    /\ UNCHANGED <<osVars, ioVars, main, execVars, result, sinkVars>>

Kill ==
    /\ child = "running"
    /\ killed' = TRUE
    /\ UNCHANGED <<canceled, child, kept, written, ioVars, main, execVars,
                   result, sinkVars>>

Next ==
    \/ StartFails \/ StartChild
    \/ \E s \in Streams : CopyStep(s) \/ ChildWrites(s)
    \/ WatchStep
    \/ CollectStep
    \/ ChildForks \/ DescendantEnds \/ ChildExits
    \/ ContextEnds \/ Kill

Spec == Init /\ [][Next]_vars

(* Goroutines run, sinks return, timers expire, and SIGKILL ends a child.  *)
(* Nothing makes a child or a descendant end by itself.                    *)
Fairness ==
    /\ WF_vars(StartFails \/ StartChild)
    /\ \A s \in Streams : WF_vars(CopyStep(s))
    /\ WF_vars(WatchStep)
    /\ WF_vars(CollectStep)
    /\ WF_vars(killed /\ ChildExits)

FairSpec == Spec /\ Fairness

-----------------------------------------------------------------------------
(* No byte is lost, repeated or moved on its way to the sinks, whatever is *)
(* closed or killed meanwhile; a WriterSink's Merged has the bytes of both *)
(* streams, each stream's in its order, and a Scrollback the end of that.  *)
KeptIsDelivered ==
    /\ \A s \in Streams :
          single[s] \o held[s] \o pipe[s] = [k \in 1 .. written[s] |-> <<s, k>>]
    /\ {merged[i] : i \in DOMAIN merged}
          = UNION {{single[s][k] : k \in DOMAIN single[s]} : s \in Streams}
    /\ \A i, j \in DOMAIN merged :
          i < j /\ merged[i][1] = merged[j][1] => merged[i][2] < merged[j][2]
    /\ \E cut \in 0 .. Len(merged) :
          /\ buf = SubSeq(merged, cut + 1, Len(merged))
          /\ limit > 0 => Len(buf) <= limit /\ (cut > 0 => Len(buf) = limit)
          /\ limit <= 0 => buf = <<>>

(* Sinks see one call at a time: the started event, then chunks, then one  *)
(* terminal event, and nothing once Wait has returned (process.go, Sink    *)
(* and doc.go: "Sink calls for a Process are serialized"); and what they   *)
(* keep is what the child wrote.                                           *)
Framed ==
    /\ \A x, y \in InSink : x = y
    /\ \A i \in DOMAIN events :
          /\ events[i] = "started" <=> i = 1 /\ main # "failed"
          /\ events[i] \in Terminal => i = Len(events)
    /\ main = "done" => InSink = {} /\ events[Len(events)] \in Terminal
    /\ KeptIsDelivered

(* Wait and the sinks are told the same, although collect looks at the     *)
(* context twice: a context error is never reported without Canceled (the  *)
(* reverse may happen), the terminal event is the result's, and completed  *)
(* means no error and every byte written delivered before it.              *)
ResultIsHonest ==
    /\ main = "done" =>
         /\ result.canceled <=> events[Len(events)] = "canceled"
         /\ result.err = "context" => result.canceled
         /\ events[Len(events)] = "completed" => result.err = "none"
    /\ events # <<>> /\ events[Len(events)] = "completed" =>
         \A s \in Streams : Len(single[s]) = written[s]

(* How a run of the command looks to its caller and the sinks.             *)
Verdict ==
    IF main = "start" THEN "none"
    ELSE IF main \in {"failed", "sink", "done"} THEN events[Len(events)]
    ELSE "running"

Command == INSTANCE CommandRun WITH
              delivered <- [s \in Streams |-> Len(single[s])],
              log <- merged, verdict <- Verdict

(* Start, the copying, os/exec's watcher and collect together are no more  *)
(* than a command whose output arrives in order and whose verdict comes    *)
(* last, whatever is killed, closed or times out on the way: once the      *)
(* sinks have the terminal event no descendant can write any more, and     *)
(* completed comes only when every byte was handed to them.                *)
RunsCommand == Command!Spec

(* Wait returns once the context has ended, the child was killed or has    *)
(* exited, even if the child ignores interrupts and a descendant keeps the *)
(* pipes open for ever.                                                    *)
WaitReturns ==
    (main \notin {"start", "failed"} /\ (canceled \/ killed \/ Exited))
        ~> (main = "done")
=============================================================================
