# go-toolbelt in TLA+

TLA+ modules, TLC configurations and TLAPS proofs for the companion components of
[go-app](https://github.com/scotthaleen/go-app) in this repository: small Go packages that each own one
resource (a listener, a database pool, a lock file, a child process) and give it a `Start`, a `Stop` and a few
methods that any goroutine may call. Hardly any of them is long; what is hard about them is what happens when
calls overlap, when a `Stop` gives up half-way, when a system call fails, when a process dies between two
steps, or when somebody else changes the file system meanwhile. That is what the modules are about.

All paths below are relative to `src/`. A module's opening comment says what it models and leaves out; each
variable and bound is explained where it is declared; each property is preceded by what it means for the code.
Definitions keep the names of the functions they stand for, and `PROJECT.json` (`map`) gives the lines.
Definitions marked `(* mutant: ... *)` are deliberate bugs, used only to show that a property can fail.

## 1. Inventory

| component | state | operations | what is hard | what makes it correct |
|---|---|---|---|---|
| `localgateway` admission (`admission.go`) | open slots `active`, `closed`, a condition variable | `Accept`, `Close`, closing an admitted connection | a slot is reserved before the wrapped `Accept` and released on three paths; one `Signal` per release; `Close` races with `Accept` and with the closing of connections from two goroutines | slots are conserved; no wake-up is lost; every queued client is served or reset; nothing is admitted after `Close` |
| `localgateway` handler gate (`gateway.go`) | `stopping`, `active`, a lazily created condition variable | `enter`, `leave`, `stop`, `wait` | the last handler may leave before, while or after `wait` looks | a returned `wait` means no handler runs, then or later; `wait` returns |
| `localgateway.Server` (`gateway.go`) | listener, `http.Server`, `stopping`, `stopped`, `serveErr`, `cleanup` under `s.mu` | `Start`, the Serve goroutine, `Stop` (overlapping, with contexts) | Shutdown may close a connection whose request is about to reach the handler; `Close` does not wait for handlers; `cleanup` may fail and must be retried | a returned `Stop` means quiet; a stop is never reported as a failure; `Stop` returns |
| `localgateway` Unix endpoint (`endpoint_unix.go`) | a name in a directory, sockets, inode identities | `listenLocal`, `removeStaleSocket`, `removeOwnedSocket`, restoring | every step goes by name; another process, a crash or a stranger may act between any two, and each but `close` may fail; inode numbers are reused; a failed cleanup is repeated | an active gateway is not displaced; a stranger's socket is destroyed only where the code cannot tell it from its own; leftovers are known, dead, and removable unless a `Start` was cut short |
| `processlock` | a lock file, `handle` | `Start`, `Stop` | either of the two system calls of a release fails; crashes | who is started holds the lock; a definite release leaves nothing behind |
| `sqlite`, `postgres` | `db`, `closing` (`closeState`) | `Start` (open, ping, migrate, publish), `Stop`, `DB` | `Stop` gives up on a slow close that goes on; several `Stop`s wait for one close; the delayed error | one pool at a time, none handed out while closing, no close error lost |
| `embeddednats` | `running`, a temporary directory, a watcher goroutine | `Start`, `waitForShutdown`, `Stop` | a server that ends by itself while a `Stop` begins; a directory that cannot be removed; overlapping `Stop`s of successive runs | no server forgotten; a stop is no alarm, an unexpected end is one; a reported stop has cleaned up |
| `eventbus` | `subscribers`, a channel for each | `Publish`, `Subscribe`, the unsubscribe function | unsubscribing closes a channel others send on; full channels | order, isolation of slow subscribers, no panic, no waiting for a receiver |
| `process` | a child, its pipes, two copying goroutines, sinks, a context | `Start`, `Run`, `Stop`, `Kill`, `Wait`; the ready-made sinks `WriterSink` and `Scrollback` | output before `EventStarted` is delivered; a child that ignores the interrupt; a descendant that keeps the pipes; two streams into one buffer | sinks see one well-formed sequence, and what they keep is a part of it; a result says what happened; `Wait` returns |
| `artifact` | content-addressed files, temporary files | `Put`, `Inspect` | the source is edited while it is copied; several `Put`s publish the same bytes; others meddle with the store | a successful `Put` returned a path with exactly its bytes; one publisher; `Put` returns |
| `oidcverifier` | `started`, `stopped`, `verifier`, a key cache | `New`, `Start`, `Stop`, `Verify` | `Stop` during discovery; keys rotate; a late JWKS response replaces a newer one in the cache | stopped for good; only tokens within the policy; a good token is not refused because of others |
| `strictjson` | a reader, a limit, a stack of frames | `DecodeReader`, `Validate`, `Decode` | an input of the limit or one byte more; a repeated name in any of the nested objects; an end in the middle | accepts exactly the values of the grammar, nested no deeper than allowed, without repeated names |
| `httpserver`, `echoserver` | an `http.Server`, a Serve goroutine | `Start`, `Stop` | no gate before the handler: a request that has been read survives `Shutdown`; the context of `Stop` ends in any of its steps | a `Stop` without an error cut nobody off; the failure that caused a shutdown is in what it returns |
| `examples/advanced-jobs` | jobs, their cancel functions, a wait group | `StartJob`, `CancelJob`, `ListJobs`, `Stop`, HTTP handlers, a command line | jobs started, cancelled and ended while `Stop` waits | a `Stop` that returned nil has outlived the jobs started before it; the program ends; cancelled jobs end |
| `privatedir`, `logging`, `ai`, Windows variants, the other examples | see section 7 | | | not modelled |

How they interact: an application registers components with go-app, which starts them in order and stops them
in the reverse order. `localgateway.Server` hands its socket to the admission listener, that to `http.Server`,
and wraps the application's handler in the gate; a goroutine runs `Serve` and asks go-app for a shutdown when
it fails. `processlock` is registered before the component whose resource it guards. `oidcverifier` calls a
provider over HTTP, `process` calls back into sinks, `eventbus` hands out channels; everything else is files,
locks and goroutines inside one package. The hazards this brings are in `PROJECT.json` (`hazards`), each at its
line and with the properties that would catch it.

## 2. Modules

    GracefulService            what a gateway promises (abstract)
      ^ implemented by  Gateway
    Admission, HandlerGate     ... INSTANCEd in Gateway
    UnixEndpoint, ProcessLock  ... extended and INSTANCEd by LockedEndpoint, which implements
                               UnixEndpoint without overlap
    HttpServer, JobManager     ... extended by AdvancedJobs, a whole program on go-app
    JsonGrammar                what a JSON value is (abstract)
      ^ agreed with by  StrictJson
    OidcVerifier, StrictJson   ... extended by OidcDiscovery, which reads the discovery document
    MCOidcDiscovery            tokens and configurations for TLC
    MCUnixEndpoint, MCLockedEndpoint   symmetry for TLC
    BestEffortFeed            what eventbus promises a subscriber (abstract)
      ^ implemented by  EventBus
    CommandRun                what process promises who runs a command (abstract)
      ^ implemented by  Process
    SqlStore, EmbeddedNats, ArtifactStore

    AdmissionProofs    Admission
    GatewayProofs      HandlerGate, Gateway and that it implements GracefulService
    EndpointProofs     UnixEndpoint, ProcessLock, LockedEndpoint
    StoreProofs        ArtifactStore, SqlStore
    MessagingProofs    EventBus, EmbeddedNats
    ProcessProofs      Process
    OidcProofs         OidcVerifier, StrictJson
    AdvancedJobsProofs HttpServer, JobManager

**Granularity.** Code under a mutex, with all it assigns, is one action; code outside is split at each system
call, channel operation, lock or callback, in the order of the code. What goroutines share is a variable
with the field's name; where a goroutine is in its function is a program counter (`pc`, `stop`, `starter`,
`main` ...). Contexts and timeouts are steps that may happen at any time (`StopExpire`, `ShutdownExpires`,
`ContextEnds`, `WatchKill`).

- `Admission`: `pc[a]` for each goroutine in `Accept`; `transport[c]` is the state of a connection in the
  operating system; `Reserve`, `BaseAccept`, `Publish`/`Discard`/`DropConn`, `BaseFail`/`ReleaseAfterFail` are the
  paths through `Accept`, `CloseConn`/`ReleaseOnce` the `sync.Once` of `admittedConn.Close`, called by several
  `Closers`. `Signal` and `Broadcast` have the semantics of `sync.Cond`: a woken goroutine has yet to retake the
  lock, and others may come first. On Unix `BaseAccept` and `RejectPeer` include `peerListener.Accept`.
- `HandlerGate`: one `Request` per call of `gatedHandler.ServeHTTP`, one `Waiter` per `Stop`.
- `Gateway`: `Server.Start`, its Serve goroutine, one goroutine per connection and any number of `Stop`s, around
  instances of the two modules above. `net/http` is external and modelled from its contract: `Shutdown` closes
  listeners, then idle connections, polls, and gives up when the context ends; `Close` waits for nobody; a
  connection counts as idle until it is marked active.
- `UnixEndpoint`: each action is one system call on names of the directory, and has a branch in which that call fails;
  only `close(2)` always succeeds. `Removed`, `NotRemoved` and `Retain` are the ends of `removeOwnedSocket`. An inode
  number identifies a socket only as long as it exists (`FreeInodes`); `id[p]` is the socket whose identity `p` has
  read, so `Compare` compares the numbers of two sockets. `Crash` keeps all names. A `Stranger` may move the socket away or
  remove it at any moment, also while a gateway is inside `Start` or cleanup, and bind its own. A gateway whose cleanup
  failed may be stopped again. `Overlap` says whether two gateways may be inside `Start` or `Stop` at once. The last six
  variables (`history`) only record what happened, for the properties.
- `ProcessLock`: `flock` belongs to the open file. `LockedEndpoint` puts it in front of the endpoint in the order
  go-app starts and stops components, with `Overlap` allowed: the lock has to exclude it. That it does is a
  refinement: `ServesExclusively` is the specification of `UnixEndpoint` with `Overlap` false (`Exclusive!Spec`).
- `SqlStore`: both SQL stores; `pool[g]` is the life of the g-th pool opened. (It and `EmbeddedNats` prefix the names
  of their specification, `SqlSpec` and `NatsSpec`, because they share a module of proofs with another component.)
- `EmbeddedNats`: `nats[n]` is the n-th server, `dir[n]` its directory; the watcher is `waitForShutdown`.
- `EventBus`: `b.mu` is a `sync.RWMutex`: an announced writer keeps new readers out. `BestEffortFeed` knows neither lock
  nor channels: each feed carries every publisher's events one after another from the moment it opens, but for those
  that came while it was full, and nothing once it is closed. `Feed` and `Due` read its state off the broker's: an event
  is due on a feed from `PublishBegin` until the range has visited it.
- `Process`: what `os/exec` does with `WaitDelay` and the context is modelled as far as `process.go` relies on it.
  The bytes of a stream are numbered, a goroutine reads any number of those in the pipe, and three sinks get
  every chunk: one that notes the calls (`events`), a `WriterSink` (`merged`, `single`) and a `Scrollback`
  (`limit`, `buf`, `Scrolled`). `CommandRun` is the same without pipes, goroutines, signals and timers: output delivered
  in order while the command runs, then one verdict; `Verdict` reads it off `main` and the terminal event.
- `ArtifactStore`: a digest stands for the bytes it is the digest of; `version` is what `os.SameFile` and the
  modification time tell apart.
- `OidcVerifier`: a token is a record of what its claims are; a key stands for what it signs.
- `StrictJson`: an input is a sequence of tokens, each one unit long; the reader may fail at any point.
  `frames` is `validateTokens`' stack, `expects` what `json.Decoder` itself remembers. `JsonGrammar` is the
  reference: a recursive definition of values and of what is wrong with a text that is none.
- `OidcDiscovery`: the one `Start` that ever discovers runs `StrictJson` on the document; its verdict
  decides how that `Start` goes on.
- `HttpServer`: `net/http` as in `Gateway`, but without a gate, a lock around `Stop` or a second `Stop`, since go-app
  calls each once. `JobManager`: each critical section of `m.mu` is a step; `sync.WaitGroup` is external and
  panics as its documentation says. `AdvancedJobs` composes both with handlers, the command line and go-app.

## 3. Runs

Every run of the table passes except the last, which is expected to be violated.

| run | module | question | instance |
|---|---|---|---|
| `admission` | `Admission` | slots conserved, no lost wake-up, `Close` final and effective, every queued client served | 3 acceptors, 3 connections, 1 slot, 2 closers of a connection, 1 failing accept |
| `gateway` | `Gateway` | what a returned `Stop` guarantees, that it returns, implements `GracefulService` | 2 connections and slots, 2 `Stop`s, 1 accept fault, 1 cleanup fault |
| `endpoint` | `MCUnixEndpoint` | takeover, cleanup, crashes, failing calls and a stranger, without overlapping starts | 2 gateways, 3 sockets and inodes, 1 move by the stranger at any moment, usual umask, any failing calls |
| `locked_endpoint` | `MCLockedEndpoint` | no race is left behind the lock, even with reused inodes, failing calls and repeated `Stop`s; implements `UnixEndpoint` without overlap | 2 processes, 2 sockets and inodes, usual umask, 2 failing lock calls, any failing endpoint calls |
| `sql_store` | `SqlStore` | no pool leaked, none handed out while closing, no close error lost | 3 pools, 2 `Stop`s |
| `nats` | `EmbeddedNats` | no server forgotten, clean stop, alarms right and never missed | 3 runs, 2 `Stop`s, 1 directory that stays |
| `eventbus` | `EventBus` | implements `BestEffortFeed`; a slow subscriber costs only itself, nothing waits for one | 2 publishers of 2 events, 2 subscribers, capacity 2 |
| `process` | `Process` | what sinks see and keep, what a result means, implements `CommandRun`, `Wait` returns | 2 streams of 2 bytes in chunks of any size, a `Scrollback` of limit 0 or 2 |
| `artifact` | `ArtifactStore` | success means stored, one publisher, `Put` returns | 2 `Put`s of 2 chunks, 2 changes by others |
| `oidc` | `MCOidcDiscovery` | lifecycle, policy, rotation, and that a document is read exactly by the grammar | 2 `Start`s, 2 `Verify`s, 2 keys, 8 tokens, 2 configurations, documents of at most 7 JSON tokens (or one more), depth 2 |
| `jobs` | `AdvancedJobs` | what the two `Stop`s may claim, that the program ends and cancelled jobs do | 1 connection with any number of requests, 2 jobs |
| `process_lock_retry` | `ProcessLock` | can a failed release be retried? (violated) | 1 owner, 2 failing calls |

**Why the bounds are enough.** Each hazard needs at most: one slot and two that want it, plus a third so that a
wake-up can go to the wrong one; two `Stop`s and a third generation so that a late `Stop` of one run meets the
next; one event more than a channel holds; two gateways and a third socket, so that a gateway can meet both its
predecessor's leftover and its rival's or a stranger's socket (two are enough behind the lock, where only what is left
over and the new one can be at the name); a source longer than one chunk, so that an edit can fall between
two reads; one key before and one after a rotation; two names in an object, one object or array inside another, and a
value after the last one; a job from before `Stop` and one started while it waits. Fault counters (`MaxFaults`, `MaxCleanupFaults`,
`MaxFailures`, `MaxMeddling`, `MaxMoves`) and generation counters (`MaxOpens`, `MaxRuns`, `MaxSockets`,
`MaxEvents`, `MaxWrites`, `MaxKeys`, `MaxJobs`) only appear in guards. `MaxBytes`
and `MaxDepth` are parameters of the code. For the properties proved in section 5 no bound matters.

`CHECK_DEADLOCK FALSE` stands in the runs whose instance may come to an end (all servers stopped, all generations
used up); each such cfg says which.

**Symmetry** is used in the two runs on the endpoint, between gateways and between inode numbers, which are only
compared for equality. Both check safety only. Eight of the other ten check liveness, with which it is unsound, and the
rest do not need it.

**Mutants.** Every property of every passing run is shown to fail for at least one plausible bug in a
definition that models code: a signal not sent, a flag not cleared or cleared too early, an error swallowed, a check
left out, a rename that replaces. They are listed in `PROJECT.json` (`mutants`).

## 4. Fairness

Weak fairness only, and only where the Go scheduler, a timer or the kernel justifies it:

- a goroutine that can take its next step takes it (`AcceptStep`, `ServeStep`, `ConnStep`, `StopStep`, `PublishStep`,
  `CopyStep`, `CollectStep`, `PutStep`, the watcher of `EmbeddedNats` ...);
- `http.Server` calls `Accept` again, and a connection is eventually closed, because `New` insists on read and idle
  timeouts and handlers return (the comment of `Stop` asks that of them);
- `KillTimeout` expires, and SIGKILL ends a child; nothing else makes a child, or a descendant of it, end;
- a NATS server that has been told to shut down does;
- in `AdvancedJobs`, go-app takes its steps and the timeouts it gives to `Stop` expire; a listener never has to fail,
  and no client, command, signal or job timer ever has to come.

Nothing obliges anyone to call `Start`, `Stop`, `Publish` or `Unsubscribe`, to receive from a channel, or a
client to send. In `SqlStore`, `UnixEndpoint`, `LockedEndpoint` and `OidcDiscovery` only safety is checked.

## 5. Proofs

TLAPS checks the theorems below for all values of the constants, from the named assumptions of the modules
(distinct names, bounds that are natural numbers). No theorem uses fairness.

- `AdmissionProofs`. `AdmInv` is inductive: `Shapes` (types), `SlotsConserved` (`active` is the cardinality of the
  set of slot holders), `Holding` (which program counter holds which connection), `Opened` (an admitted
  connection was accepted once), `ClosedWakesAll` (nobody sleeps once `closed`), `DropsAfterClose`. Slot
  conservation alone is not inductive: to see that a release gives back a slot that was held one needs to know
  where the connection is. `AdmissionConserves`, `AdmissionBounded` (never more than `Max` open connections),
  `AdmissionNoLostWakeup`, `AdmissionClosedIsFinal`, `AdmissionCloseWakes` and `AdmissionTyped` follow. The
  argument for wake-ups is a count: every free slot has an acceptor that is awake or somebody about to signal.
- `GatewayProofs`. First the gate by itself: `GateInv` adds to its properties that whoever is in `wait` has called
  `stop`; `GateDrained` and `GateNoLostWakeup` follow. Then the composition: `GatewayComposes` says that every
  step of the gateway is a step or a stutter of the listener's specification and of the gate's, so that what holds of
  either alone holds in the gateway. On top of both comes `GatewayInv`: `Locked` (who is where in `Stop` while `s.mu` is
  held), `Waited` (a `Stop` past the gate has waited, so nobody is inside), `Cleaned` (which flags and resources each
  place of `Stop` has dealt with), `Accepting` and `Genuine` (whose error `Serve` brings back). The code's promises
  follow as `GatewayStoppedIsClean` and `GatewayFailureIsGenuine`, and `GatewayImplementsService`: each step, with
  the phase read off the gate's `stopping` and the places of the `Stop`s, is a step of `GracefulService` or changes nothing
  there.
- `EndpointProofs`. First `UnixEndpoint`, for gateways that do not overlap (`Overlap = FALSE` is a hypothesis), with any
  number of crashes, failing calls and repeated `Stop`s, any umask, and a stranger that acts at any moment and any number
  of times. `UnixInv` is inductive: at most one gateway is inside `listenLocal` or `cleanup` (`OneBusy`); a socket that has a
  name or is open is the only one with its inode number (`InodesUnique`); a gateway knows the sockets of its own it has
  not closed (`Owned`); a dead socket in play is accounted for, one that has served is private, and names nobody uses are
  those of known leftovers (`NamedOnce`); and for each place in `Start` (`Starting`), in `Stop` (`Stopping`) and of a world
  without a stranger (`Unmoved`), what is at the name: the own socket, unless a stranger has moved it. `NotDisplaced`,
  `LeftoversKnown` and `LeftoversRemovable` follow. `StrangersStay` is about steps: `NamesKept` says that a socket loses its
  last name in three actions only; in `Compare` the socket has the inode number that was looked for, so by `InodesUnique` it
  is the one that was identified or that one is gone (`ComparesAway`); in `AbortUnlink` the name is the gateway's own unless
  its socket was moved (`UnlinksAway`).
  Then the lock: `LockedInv` says what each place in the lock's `Start` and `Stop` implies about the flock and the file,
  and that a gateway outside "down" has its lock started. From it `LockExact` (the lock is exclusive, and a definite
  release or a refused `Start` leaves neither file nor flock) and `OneOperatesAtATime`: at most one gateway is inside
  `Start`, serving or inside `Stop`, whatever crashes and however many lock calls fail. So `UnixInv` is kept behind the
  lock for any value of `Overlap`. `BehindLock` adds that a gateway finds what it has left (`Sole`): the endpoint of a Start
  that is past its checks is dead or free, and a gateway whose cleanup failed has the name to itself as long as it has
  the lock, so that no `Stop`, repeated or not, begins at another one's socket. From this `ActiveStays` and
  `NothingContended`: `endpoint_unix.go`'s branches for a socket that changed under its hands are only ever needed without
  the lock. Last, `LockExcludes`: every step behind the lock is a step or a stutter of `UnixEndpoint` without overlap. This
  discharges the hypothesis of the first part: whoever registers the lock has it.
- `StoreProofs`. `ArtifactInv`: a file at a store path is that of a call that has published it (`EntryOfPublisher`), a
  temporary file has what was copied (`CopyKept`), what was published stays until others remove it (`StillThere`), and a
  file whose modification time has not changed since it was opened still has the bytes that were read (`LookedAt`).
  `ArtifactOnePublisher`, `ArtifactSuccess`, for every number of calls, chunks and changes by others. `SqlInv` adds
  that `Start` is alone while it runs (what `doc.go` asks of callers), which pools the store knows (`Tracked`), and that a
  `Stop` past its select has seen its pool closed. `OnePool`, `CloseErrorsKept`.
- `MessagingProofs`. `BusInv`: who is subscribed has an open channel (`Membership`), a stream holds only past events
  (`StreamsPast`) in order (`StreamsOrdered`), and every event since the subscription is still to be offered, was lost
  to the subscriber's own full channel, or is in his stream (`Accounted`). `StreamsInOrder`, `OwnLossesOnly`,
  `NoSendOnClosed`, for every capacity. With these `BusKeepsFeeds`: each step of the broker is a step of `BestEffortFeed` or
  changes nothing there. What has to be seen is that the event an `Offer` sends is the one that is due (a publisher
  is in its range exactly from `PublishBegin` on), that a `PublishBegin` finds no feed behind (the range visited all who are
  subscribed), and that the write lock keeps both true when a feed opens or closes. `NatsInv`: `Start` is alone, runs not yet begun have nothing (`Unborn`), a
  run whose done channel is closed has no server, and no directory unless removing it failed (`DoneIsClean`), a `Stop`
  past its wait saw that (`StopsSawDone`), and a server that is down was told so or ended by itself (`EndsAccounted`).
  `ServersFound`, `StopsAreClean`, `AlarmsAreTrue`.
- `ProcessProofs`. `ProcessInv` numbers the bytes of each stream through what was delivered, what its goroutine
  holds and what is in the pipe (`BytesInOrder`), so that nothing is lost, repeated or reordered on the way to a sink
  (`MergedInOrder`) and a `Scrollback` of any limit has the end of it (`ScrollbackIsEnd`); sinks are called by one goroutine
  at a time and only after the started event (`Exclusive`, `EventsShape`); a stream that ended with its read end
  open is at its end (`EndIsEnd`); the watcher is over before `collect` judges, and whoever closed a read end
  left a reason in the result (`CopiedFirst`, `ClosedForReason`, `LooksAgree`). `ProcessFramed`, `ProcessResultIsHonest`.
  `ProcessRunsCommand`: each step is a step of `CommandRun` or changes nothing there; it needs in addition that before
  the child has started no descendant of it keeps a pipe (`NoneKept`).
- `OidcProofs`. `OidcInv`: a call past `go-oidc`'s own checks has a token that passed them (`CallsBegun`), keys are the
  provider's (`KeysReal`), and a call whose key stays published cannot have fetched a key set without it (`SteadyKey`). `StopIsFinal`, `OnlyPolicyTokens`,
  `GoodTokensAccepted`. Of `strictjson`, `JsonInv`: what has been read at each place of `DecodeReader` (`Reading`), and that
  the frames of `validateTokens` and the stack of `json.Decoder` say the same of each open container (`Paired`).
  `DecodesWholeInput`: for any reader, limit and depth, what is decoded is an input within the limit that was read and
  scanned to its end, with every container closed. `DecoderChecksFirst`: the errors `validateTokens` has for a
  closing delimiter and for a member name that is no string never speak before the decoder's own.
  `NoDuplicateDecoded` is what the package is for: in a text that is decoded the names of one object differ, at any
  depth, and a text refused as a duplicate does repeat one. Where a token is and whether it is a name is said of
  the text alone, without recursion: `up` gives each token the delimiter that opened its container (`Nests`), `ns` are the
  names (`NamesIn`); read from left to right every text has one of each. The invariant (`Located`) is that
  `validateTokens`' frames are the containers still open, each object's frame holding the names it has had and wanting a
  key exactly when a name is next. `ScannerKnows` and `FrameKept` do the work: the scanner calls a token a name when
  it is one, and an open container's frame changes only by the name of its own. The three theorems are the
  part of `ScannerMatchesGrammar` that needs no induction over the text.
- `AdvancedJobsProofs`. `HttpInv` (the order in which Serve records, reports and closes its channel; handlers
  still owed to `Stop` are on connections the server knows) gives `HttpStopHonest`; `JobInv` (the wait group counts
  the jobs at work; the waiter wakes only when the early ones are gone) gives `JobsOutlived`.

With these every safety property that a run checks is a theorem, except one.

Only model-checked:

- `ScannerMatchesGrammar`: the grammar is a recursive definition, and that the scanner accepts exactly its values is an
  induction over the text, for which no prover here has a rule.
- Liveness: `QueueIsServed`, `CloseEndsAccept`, `StopReturns`, `UnexpectedEndNoticed`, `SubscriptionReturns`,
  `WaitReturns`, `PutReturns`, `ShutdownCompletes`, `CancelTakesEffect`. Fairness is defined with ENABLED, which TLAPS
  has no proof rule for here.
- The counterexample of section 6.

The one hypothesis that is not an assumption on constants in a module is `Overlap = FALSE`, in the theorems on
`UnixEndpoint` alone; it is what `LockExcludes` proves. Behind the lock there is no stranger; beside one, the theorems on
`UnixEndpoint` say what remains true.

## 6. What the checks found

- `process_lock_retry` (`RetryReleases` is violated). `processlock/processlock.go` says that after an
  indeterminate release the handle is retained and Stop may be called again. But `os.File` is
  unusable after `Close` whatever `Close` returns; when unlocking and closing both fail, every later
  `Stop` finds a closed file, fails on both calls again, and the component can neither be released nor
  started again in this process.

Met while modelling, though nothing in the repository promises otherwise:

- `JobManager.StartJob` may run while `Stop` waits. The new job is not waited for, and if it is counted between
  the waiter's wake-up and the return of its `Wait`, `sync.WaitGroup` panics; `StopOutlivesJobs` says that this is the
  only way to panic. `StartJob` also copies the job after it has released `m.mu`, while `run` may write it.
- `httpserver.Stop` without a gate: a request read before `Shutdown` may reach the handler on a connection that has been
  closed, and `Stop` does not know of it.
- `process.go` reads `ctx.Err()` once for the error and once more for `Canceled`; a context that ends in between
  yields a canceled result without an error.
- `endpoint_unix.go` assumes that two gateways do not start or stop on one endpoint at the same time. Without the
  lock they can, and one may then remove the other's socket by name; `LockedEndpoint` shows that the lock is enough.
- Under a usual umask a `Start` that ends between `bind` and `chmod`, by a crash or by a failure whose `os.Remove` fails
  too, leaves a socket that every later `Start` refuses. `LeftoverIsRemovable` says that nothing else does.
- A stranger's socket that replaces the gateway's own before `Start` has read its identity (`endpoint_unix.go:55-65`) is
  removed by the error paths, or taken for the own one and removed by `Stop`. One that gets the inode number of a socket
  that was identified and is gone is removed as well. `StrangersKept` says that there is no third way.
- If `os.Remove` of the quarantine name fails, `Stop` reports it; the next `Stop` finds no endpoint and succeeds, and the
  name stays for good.
- A `Stop` repeated after a failed cleanup works on whatever is at the endpoint by then. If that is another gateway's
  socket, it is moved aside for the moment of the comparison, and stays there when it cannot be put back.
  `ActiveNotDisplaced` excepts this case; behind the lock it does not arise as long as the lock is held.
- `artifact.Put` ignores the error of removing its temporary file, which may then stay.
- `oidcverifier` asks for new keys only when no cached key fits: a withdrawn key stays accepted, and a late
  response can bring one back.
- `sqlite` and `postgres` ask callers not to call `Start` and `Stop` concurrently (`doc.go`); `SqlStore` assumes it.
- A handler that calls `Server.Stop` waits for itself; the comment of `Stop` forbids it.
- `artifact.Put` links a file that has not been synced; what is in it after a power failure is up to the file system (the model has no power failures).

## 7. Not modelled

- `privatedir`: `Ensure` and `Validate` look at one directory by its path in up to four system calls and return; they
  keep no state, and what could go wrong is what another program does to the same path between two of these
  calls, which nothing in the code reacts to. Their callers meet them as one step that may fail.
- Windows variants of the endpoint, the lock and `privatedir`: the kernel does by handle what Unix does by name; what
  is left is security descriptors.
- `logging`, `ai`: forwarding, no state that could go wrong over several steps.
- The examples other than `advanced-jobs`, which wire one component to go-app.
- `process.mergeEnv`, `oidcverifier`'s rules for URLs and configurations, `ListJobs`: pure readings or
  conversions, of which the models keep the outcome.
- Formats, messages, permission bits beyond "private or not", the spelling of JSON tokens, and the SQL of migrations.
- What a power failure does to files. A crash is the death of a process.

## 8. Plan

Done, in this order: `Admission`, `HandlerGate`, `GracefulService`, `Gateway` (the system's own concurrency);
`SqlStore`, `EmbeddedNats`, `ProcessLock`; `UnixEndpoint` and `LockedEndpoint`; `EventBus`, `Process`,
`ArtifactStore`, `OidcVerifier`; then `HttpServer`, `JobManager` and `AdvancedJobs`; `StrictJson` against `JsonGrammar` and
`OidcDiscovery`; the ready-made sinks of `Process`; the abstract `BestEffortFeed` and `CommandRun`; and the proofs of
section 5.

Next, in order of what they would add:

1. That `HttpServer` implements a weaker `GracefulService`, one that does not promise that handlers have ended.
2. `oidcverifier`'s rules for a configuration as operators checked against a reference.
