# A verification of aeron-go in TLA+

aeron-go is a Go client of the Aeron messaging system: an application links it,
and it talks through shared memory to a media driver, a separate process that
is not in this repository. On top of the client the repository has an archive
client and the two sides of a cluster (service containers and clients).

The modules here model the protocols of the library step by step. TLC checks
them on small instances. TLAPS proves the safety of the command ring buffer, of
the driver proxy, of the log that publishers share, of the conductor's registry
and of the cluster client for every value of the constants. Paths below are relative to `src/`.

## The system

Three shared memory structures connect a client and the driver.

| Structure | Direction | Code |
|---|---|---|
| command ring buffer | client to driver, many producers | `aeron/ringbuffer`, `aeron/driver/proxy.go` |
| broadcast buffer | driver to clients, lossy for slow receivers | `aeron/broadcast`, `aeron/driver/listeneradapter.go` |
| log buffers, position counters | data of a stream, both ways | `aeron/logbuffer`, `aeron/publication.go`, `aeron/image_impl.go`, `aeron/subscription.go` |

Goroutines of the application add, use and close publications, subscriptions
and counters. One goroutine of the client, the conductor
(`aeron/clientconductor.go`), receives what the driver broadcasts, keeps the
registry, and closes resources some time after their release. Archive and
cluster talk over ordinary streams with messages of generated codecs.

| Part | Modules | What is hard |
|---|---|---|
| Ring buffer | `ManyToOneRingBuffer`, `CommandQueue` | lock-free producers with stale heads, wrapping with padding, a reader that polls half-written records |
| Driver proxy | `DriverProxy` | what a caller learns when the ring is full |
| Log buffer, appender, publication | `LogBuffer`, `Publication` | late rotation, padding, reuse of a partition, checks on counters that move before the append |
| Image, fragment assemblers | `Image`, `FragmentAssembler` | handler answers, closing while polling, a fragment that is aborted |
| Stream | `Stream` | all of these over one log |
| Conductor, subscription, image list | `ClientConductor` | work outside the lock, closing twice, slices that share arrays |
| Broadcast receiver | `BroadcastReceiver` | being lapped between any two reads |
| Codecs and requests | `Sbe`, `ArchiveCodecs`, `ClusterCodecs`, `ArchiveRequests`, `ClusterRequests`, `Codecs` | peers of other versions, truncated messages, arguments passed by position |
| Archive client | `ArchiveClient` | a shared response stream, late answers, timeouts |
| Replay merge | `ReplayMerge` | requests, answers, timeouts and positions in any order |
| Service container | `ClusteredService` | restart from a snapshot, elections, positions passed within a poll |
| Cluster client | `ClusterClient` | leader changes and timeouts while connecting |

`PROJECT.json` lists every part, the lines each definition models, and the
hazards line by line.

## The modules

Every step of a model is what the code does between two points where another
goroutine or process can interfere: one atomic memory access in the lock-free
parts, one critical section or one access outside it in the conductor, one poll
or one handler in the archive and the cluster. History variables (`claims`,
`consumed`, `delivered`, `closes`, `sent`, `replies`, `granted`, `strayed`, `cutOff`) record what
properties talk about and are read by no guard, except where they name what a
model value is. Operators commented "Mutated form" are plausible bugs that the
properties are tested against; the specifications do not use them. The `MC`
modules only define the constants of an instance.

### Command ring: ManyToOneRingBuffer, CommandQueue, DriverProxy

`ManyToOneRingBuffer` has one action per load, store and compare-and-set of
`Write` and `claimCapacity`; `pc` is where a producer is. Memory is kept per
8-byte word. `DriverRead`, `DriverZero` and `DriverAdvance` are the driver's
side, taken from what `Write` relies on: it reads up to the end of the buffer,
zeroes, and then moves the head. `CommandQueue` is what the client expects: slots
ordered by claim, visible when committed, taken in order.
`ImplementsCommandQueue` is the refinement. `DriverProxy` adds the command
methods of `proxy.go` and what they return when `Write` fails; of the methods only
`AddRcvDestination` is told apart, because it alone returns no error then.

### Streams: LogBuffer, Publication, Image, FragmentAssembler, Stream

`LogBuffer` is the shared state: three partitions, their raw tails, the active
term count, the limit and the subscriber position. `Publication` has the calls
of several goroutines; tail additions, frame headers, frame lengths and the two
compare-and-sets of a rotation are separate steps. `Image` has the polls, frame
by frame, with every answer of a controlled handler. `FragmentAssembler` puts
the two assemblers between image and application; an image has one session, so
there is one builder. `Stream` composes them with the driver, over IPC:
publisher and subscriber map the same log. Lengths are in units of the 32-byte
alignment. The histories forget frames that the driver has zeroed (below
`CleanPosition`).

### ClientConductor

The registry's slices are modelled with their backing arrays (`heap`), because
removal swaps entries in an array that `closeAllResources` is walking over.
`adminLock` is held by an actor over several steps where the code holds it.
What the code does without it (marking closed, emptying the image list, walking
the registry, clearing it) is a step of its own. Entries of the lingering
channel expire at any time. `Faults` names what may go wrong: a full ring, a
driver, service or client timeout, a conductor that is slow to stop. A panic in
a goroutine of the application stops the model (`Alive`). Left out: handlers
without effect on this state (`OnOperationSuccess`, `OnUnavailableCounter`,
`OnChannelEndpointError`), callbacks of the application, and torn slice headers
in the unlocked accesses beyond the panic they lead to. `Register` makes the
check of the driver's status and the locked section one step.

### BroadcastReceiver

`Transmit` and the `Write...` actions are the driver's transmitter; the others
are the loads of `receiveNext`, the copy and `Validate` of `CopyReceiver`; the
type is read twice, as in the code. The transmitter never waits for the receiver.
A receiver that is lapped may read any piece of a payload as a length or a type:
`GarbageLengths` and `GarbageTypes` are the values it may find. In the run they
are a negative length, zero, that of a record, one that reaches into the trailer
or past it and one longer than the scratch buffer, and the types of data and of
padding. At two points nothing validates what was read afterwards: when a record
is taken for padding, and while `NewCopyReceiver` scrolls. The history variable
`strayed` notes that the receiver was lapped at one of them; the properties say
what holds until then, and `TransmittedIsReceived` names it as an outcome.

### Codecs: Sbe, ArchiveCodecs, ClusterCodecs, ArchiveRequests, ClusterRequests, Codecs

`Sbe` is the shape that every generated `Encode`, `Decode` and `RangeCheck`
shares, over fields in wire order. The wire is a sequence of bytes that know
which value they are part of, so a misaligned read yields garbage.
`ArchiveCodecs` and `ClusterCodecs` describe every message by its fields.
`ArchiveRequests` follows the arguments of each call through `archive.go`,
`proxy.go` and `encoders.go`, by position. `ClusterRequests` has the messages
that the cluster fills or reads at byte offsets. `Codecs` composes them into a
channel: this client or a peer of another version writes, a reader decodes,
perhaps only the first fragment.

### ArchiveClient and ReplayMerge

`ArchiveClient` has `NewArchive` with and without a challenge, and calls that
take a correlation id, lock, send and poll until their answer comes or time is
out; one poll is one step. The archive answers in any order and late, and other
clients use the same stream. `closeAllResources` is the conductor that closes the
response subscription under a call after a timeout: polls then read nothing, and
the calls return. `ReplayMerge` adds the merge's state machine on the
same response stream: one `DoWork` is one step, between calls, because the merge
is not safe for concurrent use. Time passes by a flag, not by a clock.

### ClusteredService and ClusterClient

`ClusteredService` is the agent with its log and service adapters, the snapshot
taker and loader, and the proxy. Its two halves of `DoWork` are steps. The
consensus module, modelled from the messages the agent reads and answers,
elects, appends, commits, takes snapshots, crashes and restarts. What the service
was told is its state, so a snapshot is that sequence. A restart has two steps:
`Recover` up to the subscription to the snapshot's replay, and `AwaitImage`, which
may never find the image. An error before that ends the agent ("stopped"); a
snapshot of another major version, and a session whose response publication
cannot be added, are panics. `ClusterClient` has the states of `Poll`, every egress
event, `Offer` and `Close`, against a cluster whose members move, fail and elect.
The endpoints of a redirect or of a new leader may list only some members: an
entry that is missing and one that `updateMemberEndpoints` skips as malformed have
the same effect. The history variable `cutOff` says why the last event that was
handled left the client without a publication, if it did. A connect request matters only by whether
it is the latest, which is what the client's comparison of correlation ids
decides.

## The runs

| Run | Instance | Shows |
|---|---|---|
| `ring_buffer` | 2 goroutines, 32 bytes, 4 commands with and without payload, start 8, fair | no overrun, exclusive claims, claim order, refinement of `CommandQueue`, an error means never sent, only `AddRcvDestination` fails without one, every claim consumed, every call returns |
| `stream` | 2 publishers, terms of 4 units, 4 terms up to the end of the stream, offer and claim | contiguous log, delivery of exactly the log, clean memory under every claim, returned positions, a panic at the end of the stream only in a race |
| `stream_image` | 1 publisher, terms of 8 units, the last two terms of a stream, fragmented and empty messages, bounded and controlled polls, both assemblers, closing | position against what handlers accepted, whole messages |
| `stream_live` | 2 publishers, 3 terms, fair | frames are consumed, full terms are rotated |
| `conductor` | 2 users, one of whom closes; 1 subscription, 2 images; timeouts | nothing in use is unmapped, nothing released is lost |
| `conductor_live` | 2 users, one of whom closes; 2 publications or counters; every fault; fair | exact registry, nothing lost, every call returns, what lingers is closed |
| `conductor_close_all` | 1 user, 2 publications | violated: see the finding |
| `broadcast` | 4 units, 5 messages, any length and type in overwritten memory, fair | delivered messages are whole and in order, the receiver stands at record ends, it gets every message or notices the lap, but for laps at the two unvalidated points |
| `codecs` | every message, each field odd in turn, peers one version older and newer | what is decoded is what was written, range checks are exact |
| `archive` | 2 callers, 2 calls, 1 disturbance (a closed subscription is one), positions up to 2 | a call gets its own answer, a timeout has missed none, a merged merge has caught up, no replay is left running |
| `cluster_service` | 4 logs, 2 terms, 1 crash, 1 fault | the service is told exactly the committed log, joins meet, termination at its position, nobody waits |
| `cluster_client` | 2 members, 2 addresses, 2 sessions, 2 terms, 1 move, 1 failure | own session only, one open publication, a panic only after a refusal or an event that does not list its leader |

Every property has a mutant in `PROJECT.json`: a bug in one definition that TLC
must find through that property.

Bounds. The ring has four words and commands of one or two words: it wraps with
and without padding, fills up, and contends. In four terms a publisher can stall
while its partition comes round (three terms), and the stream ends. Two images
are the fewest in which a removal moves another entry, and two publications the
fewest in which one is moved to a place already visited.
Five messages lap a four-unit broadcast buffer more than once. The merge's
window is one position, so it can be inside and outside of it before the end.
Two members and one failure are enough for a redirect, a change of leadership
and a refusal, or an incomplete list of endpoints, in the middle of it; a crash
and two terms for an election after a restart. Elections, asks, faults and messages are bounded by constants
named `Max...`. Symmetry is used where goroutines or members are interchangeable
and no liveness is checked. `CHECK_DEADLOCK FALSE` is set where clients may stop
calling or a bound is used up; the codecs never stop, and deadlock is checked.

Fairness. A goroutine inside a call keeps running (weak fairness of its steps),
the driver's duty cycle and the polling loops run, time passes. Nothing makes
the application call, the driver announce, or a fault happen. `WriteReturns`
holds because the number of commands is bounded: the loop of `claimCapacity` is
lock-free, not wait-free. `CallsReturn` is checked with room in the lingering
channel; see "Divergences". The archive and the cluster are checked for safety
only; `NobodyWaits` states what would keep the service container from going on
as an invariant of the states in which it has nothing left to do.

## Finding

`conductor_close_all` ends in a violation of `CloseClosesAll`. `closeAllResources`
ranges over an array that each `Close` changes (`aeron/clientconductor.go:1172`):
`releasePublication` swaps the last entry into the place of the one it removes.
With two publications the second moves to the place already visited and stays
open. The comment at `aeron/clientconductor.go:260` says that `Close` closes all.

## Divergences

These are in the models as the code has them; no run reports them, and the
properties are stated so that they hold beside them.

Command ring and streams:

* `AddRcvDestination` returns 0 and no error when the ring is full
  (`aeron/driver/proxy.go:298`). `SilentFailureIsRcvAdd`, proved, says that no other
  method does.
* `Offer` computes the returned position from the tail it read before the append
  (`aeron/publication.go:272`). A goroutine that stalls between the two for three
  terms returns a position three terms too low; `OfferReturnsItsPosition`, what
  `aeron/publication_test.go:167` expects, does not hold. `ReturnedPosition`, proved,
  says that this is the only way the result is wrong.
* With two publishers, the one that read the tail of the last term while it
  stood in its first half passes the check against the maximum position, and
  `RotateLog` panics (`aeron/publication.go:275`). `RotatePanicIsARace`, proved, says
  that it takes such a race.
* `TryClaim` does not look at a moved term, so the active term count may lag
  behind the tails by more than one term. The log stays contiguous all the same
  (`LogHasNoGaps`).
* `Publication.Position` reports an offset beyond the end of a full term
  (`aeron/publication.go:166`).
* `BoundedPoll` truncates the distance to its limit to int32
  (`aeron/image_impl.go:124`) and delivers nothing for some distant limits.
* `Image.Position` returns 0 between the two stores of `Close`
  (`aeron/image_impl.go:271`).

Conductor and broadcast receiver:

* An image that arrives while its subscription closes stays in its list
  (`aeron/subscription.go:143`).
* What is released after the conductor has drained the lingering channel is not
  unmapped (`aeron/clientconductor.go:312`).
* With a lingering channel that is full, the send blocks with `adminLock` held
  (`aeron/clientconductor.go:475`), and the conductor, which alone receives, may
  wait for that lock. With `LingeringCap = 1` TLC finds calls that never return.
* Handlers of the application run with `adminLock` held
  (`aeron/clientconductor.go:1000`), so one that calls back blocks.
* `closeAllResources` sets the registry to nil without `adminLock`; a `Close` of the
  application that is about to cut the slice panics (`aeron/clientconductor.go:480`).
* A remove command that fails leaves the resource with the driver, and `Close`
  cannot be called again (`aeron/clientconductor.go:610`).
* When a record is taken for padding, the cursor that `Validate` checks later was
  computed from a length that may have been overwritten
  (`aeron/broadcast/receiver.go:122`, `aeron/broadcast/copyreceiver.go:60`). The check
  may then pass although the receiver was lapped, and a message is skipped or an
  overwritten one delivered.
* A receiver lapped while `NewCopyReceiver` scrolls may start in the middle of a
  record (`aeron/broadcast/copyreceiver.go:38`). The properties of the receiver
  except these two laps (`strayed`), and no others.

Archive:

* `pollForResponse` of the replay merge takes an answer whose code is ERROR for a
  success (`archive/replaymerge/replaymerge.go:481`, whose comment says otherwise).
  The merge's properties are about merges without such an answer.
* `PollForErrorResponse` leaves an error response in the results, which the
  merge's next poll finds. Catching up resets the time of the last progress, so
  a merge that goes back and forth does not time out. An answer to the merge
  that a call reads is lost to the merge.
* `ListRecordingSubscriptions` waits for its timeout when the archive answers
  that there is none (`archive/archive.go:975`).
* A list call fails on an ERROR that answers another call.
* `errorResponseFragmentHandler` calls the error listener twice
  (`archive/control.go:504`).

Cluster:

* The snapshot loader's `err` is never read: a session that fails to load is
  missing, and the service starts.
* Log messages with a template the adapter does not know are not counted in
  `logPosition`, so an ack requested there is given at the next known message.
* `onNewLeaderEvent` closes the ingress publication while the member it belongs to
  keeps it (`cluster/client/aeron_cluster.go:439`). When that member is elected again,
  the closed publication is used and never replaced: `Reconnects`, that a client
  which keeps polling connects again (comment at `:327`), fails.
* `onNewLeaderEvent` sets `ingressPub` to nil and leaves it to the endpoints of the
  event to set it again (`cluster/client/aeron_cluster.go:442`). When they do not
  list the new leader, or the driver refuses its publication, the next `Poll`,
  `Offer` or `Close` dereferences nil. `PanicsOnlyIfCutOff`, proved, says that nothing
  else leads there.
* A recovery whose snapshot image never arrives waits for ever
  (`cluster/clustered_service_agent.go:468`).

## The proofs

Each theorem holds for every value of the constants that the named assumptions
of its module allow.

| Theorem | Module | States |
|---|---|---|
| `Invariance` | `ManyToOneRingBufferProofs` | `Spec => []IInv` |
| `TypeCorrectness` | same | `Spec => []TypeOK` |
| `RingNeverOverrun` | same | `Spec => []NoOverrun` |
| `CommandsInClaimOrder` | same | `Spec => []ConsumedInClaimOrder` |
| `ClaimsAreExclusive` | same | `Spec => []ExclusiveClaims` |
| `OnlyRcvAddFailsSilently` | `DriverProxyProofs` | `ProxySpec => []SilentFailureIsRcvAdd` |
| `ErrorIsNotSent` | same | `ProxySpec => []ErrorMeansNotSent` |
| `ProxyKeepsOrder` | same | `ProxySpec => [](ConsumedInClaimOrder /\ NoOverrun)` |
| `ProxyImplementsQueue` | same | `ProxySpec => ImplementsCommandQueue` |
| `PositionUpToTurns` | `StreamProofs` | `Spec => []ReturnedPosition` |
| `LogInvHolds` | same | `Spec => []LogInv` |
| `LogHasNoGaps` | same | `Spec => []LogIsContiguous` |
| `EndOfStreamIsReported` | same | `Spec => []RotatePanicIsARace` |
| `ClaimsStayInCleanMemory` | `CleanMemoryProofs` | `FewPublishers` implies `Spec => []ClaimsFindCleanMemory` |
| `ClusterInvHolds` | `ClusterClientProofs` | `Spec => []ClusterInv` |
| `ConnectedToItsSession` | same | `Spec => []SessionWasGranted` |
| `PublishesToTheLeader` | same | `Spec => []IngressIsTheLeaders` |
| `PanicNeedsACut` | same | `Spec => []PanicsOnlyIfCutOff` |
| `ConductorInvHolds` | `ConductorProofs` | `Spec => []ConductorInv` |
| `RegistryHolds` | same | `Spec => []RegistryIsExact` |
| `MappedHolds` | same | `Spec => []InUseIsMapped` |

### Command ring

The assumptions of `ManyToOneRingBufferProofs` are those of the module: the capacity
is a positive multiple of the alignment, a command fits in the ring and in
`MaxMsgLength`, and the start positions are aligned. That the capacity is a
power of two is not used.

None of the invariants is inductive. A claim succeeds long after its checks, so
`IInv` says what the checks have established at each `pc` (`CheckedInv`): the head
that was loaded is at most the real one, hence a successful compare-and-set
leaves room, with the padding included because a wrapping record must also fit
before the loaded head's index. In `RecordsInv`, `ChainInv` says that claims lie end
to end and that the driver stands at the first unread one. `HeldInv` makes every
producer's claim an unread record that no other producer has. `FilledInv` and
`StoredInv` say what has been stored, and `FreeInv` that the words still to be
claimed hold no length. The last one is why the driver must zero before it moves
the head. Each conjunct has a lemma per action that can disturb it. The lemmas
on `Index` (positions less than a lap apart have different indexes) carry the
arithmetic.

### Driver proxy and the abstract queue

`ProxyInv` is `IInv` with `IdsInv` (correlation ids are fresh, and each is used by
one call, and those of failed calls were never claimed) and `SilentFailureIsRcvAdd`. Every proxy step is a step of the ring or leaves
the ring alone, so the ring's invariant carries over. For the refinement the
queue's slots are the claims that are not padding; `ProxyImplementsQueue` shows
that the initial states map to the empty queue and that every step claims,
commits or takes one slot, or changes nothing of the queue.

### Streams

`ReturnInv` (types of the tails and tables, and for every call what it knows of its
stale tail) gives `ReturnedPosition`: the partition of the tail that was read has
since come round a whole number of times. `LogInv` adds the frames claimed
(`ClaimsInv`), the latest term and the two before it in the other partitions
(`LastIs`), and for every publisher what it may still do to a term it has seen full
(`TermInv`): a late rotation carries a term that is no longer the latest, so its
compare-and-set of the tail fails. This holds although the active term count may
lag by several terms. Assumed are a positive term length, a window of at most
half a term, and messages of at most half a term.

`EndOfStreamIsReported` adds `PanicInv`: a publisher that found its term full had a
message that did not fit behind the tail it claimed. If that tail is also the one it
had read, it lies in the second half of the term, because a message takes at most
half, and twice its offset is past the maximum position: `newPosition` reports it.

`StreamLimitProofs` and `CleanMemoryProofs` are about flow control. Offer reads the limit, the term count and
the raw tail one after the other, and appends later, so any of them may be stale.
`SpaceInv` is `LogInv` with `ReaderInv` and `CheckInv` (the limit a publisher holds is
at most the real one; the subscriber's position only moves forward) and `LimitInv`:
each publisher that has passed the check owes the log at most one message, and
the end of the log plus what is owed stays below the limit plus one message of
every publisher. Three things make that inductive. The term count is that of the
latest term or of the one before. While it lags, only publishers that read it a
turn ago can append to the latest term, and each does so once. And publishers
whose partition is the one used next are counted before the rotation wakes them.
`StreamLimitProofs` does this for any measure `d` of sets of publishers that grows by
at least a message with each member, and `CleanMemoryProofs` takes for `d` the number
of members times the longest message, so that the lemmas on cardinality are needed
only there.
The theorem assumes `FewPublishers`: one longest message of each fits in a term.
Some bound of this kind is needed, as every publisher may pass the check before
any appends; in the code a message is at most an eighth of a term, so eight
goroutines with the longest messages, and more with shorter ones, satisfy it.
`PollAssumption` gives the constants of `BoundedPoll` their types.

### Cluster client

`ClusterInv` adds to the types: members with an endpoint are known, a publication
exists only to those (`EndpointsKnown`); an answer under way to the latest request
comes from the member that the request went to and grants a session opened for
it (`AnswersAreGranted`, `AwaitsItsMember`); while connected there is one open
publication (`OneOpenPublication`); and a connected client has a nil publication
only after a refusal or an event that did not list its leader (`NilIfCutOff`, which
also needs that a granted session comes through a publication that exists). `ClusterAssumption` keeps the model's names apart and makes the
bounds numbers. The handlers are functions on a record of the client's state; the
lemmas on `CloseMembers` and on the update of endpoints say field by field what
they change.

### Conductor

`ConductorInvariant` defines the invariant, with the lemmas on slices and on most
actions; `ConductorProofs` has the image events, `Add`, `Release` and the theorems.
They hold for any number of goroutines, registrations and images, any
capacity of the lingering channel but none, and any of the faults.
`ConductorAssumption` keeps the conductor apart from the users and types the
bounds. The slices of the registry and the image lists are cut in place while
callers outside the lock still hold older slices, so everything turns on who can
see whose array. `HeapInv` gives each array a purpose (the list of publications,
that of subscriptions, or the image list of one subscription): all slices of an
array belong to its list. `RegistryInv` says that the slices hold what is
registered, except while one goroutine that holds `adminLock` is between moving
the last entry and cutting the slice. `CallInv` and `HandlerInv` say what each
caller and the conductor have established at their `pc`, `UnusedInv` that a
registration nobody has made has left no trace, and `LingerInv` that what was
handed to the lingering channel is out of every list that is open, also while
the conductor is between the halves of `addImage` and `removeImage`.
`RegistryIsExact` and `InUseIsMapped` follow.

### Only model-checked

* Liveness: `ClaimedIsConsumed`, `WriteReturns`, `FullTermIsRotated`,
  `TransmittedIsReceived`, `CallsReturn`, `LingeringIsClosed`. Fairness and ENABLED
  are out of the prover's reach.
* Properties over recursively defined or folded data, which need induction over
  data: the codecs, the messages of a log (`AppliedIsTheLog` and the others of
  `ClusteredService`), the descriptors of a list (`ResultIsOurs`).
* `DeliveredIsTheLog`, `PositionCoversDelivered` and `MessagesAreWhole`, whose
  histories are filtered sequences.
* `NothingIsLost` of the conductor, which counts what is released, the broadcast
  receiver, and the archive.

## Not modelled

The listener adapter is a stateless dispatch between `BroadcastReceiver` and the
driver events of `ClientConductor`. Counters are single words the driver owns;
where one matters, its value is a variable. Flyweights, channel URIs, contexts,
logging and memory mapping are layout, parsing or system calls without a
protocol; atomic buffers are the single steps of the models, and idle strategies
only delay. Of the modelled parts the following is left out: the round of a
subscription's poll over several images, the map of builders by session,
counter handlers, recording events and the recording position counter, the
service's calls back into the cluster, and the mark file. Examples and system
tests are applications of the library.
