# A verification development of docker-spaces

docker-spaces is a reverse proxy that starts docker containers on demand. A request whose
path is `/x:registry:repo:tag:port/...` or `/y:...` names an image and a port; the proxy gets a
container of that image from the *broker*, connects the client to it, and gives it back when
the connection ends. `x:` jobs are queued and run one at a time on a container, `y:` containers
are shared by all their clients, and port 3 asks for a *worker*, a container nobody connects to.

This directory holds TLA+ models of the parts of the program that carry its logic, TLC
configurations that check them on small instances, and proofs that TLAPS checks for all
instances. `PROJECT.json` relates every definition to the lines of code it models.

## 1. Inventory

| part | state | operations | talks to |
|---|---|---|---|
| **broker** `broker.go` | for each source slot (a request) and target slot (a container): state, slot type, since, run/ref info, opposite slot | one endless loop: read a message of every source slot, one of every target slot, link, start, start copies, sweep, sleep | clients and runners, by channels only |
| **slots and channels** `broker.go` | a queue of free source slots; per slot two channels of 3 messages | `GetSourceSlot`, `Send`, `Read`, `send`, `read` | everybody |
| **broker client** `broker-resolver.go` | the slot a connection holds | take a slot, `Acquire`, `Read` the answer, later `Release` | broker; called by the proxy |
| **docker runner** `docker-runner.go` | one port of the docker host, the container on it | register; on `Start`: kill, pull, create, start, wait for the port | broker; docker engine |
| **proxy connection** `proxy.go` | `erred`, `errsig`, the resolved target, two connections | three goroutines: wait for the end, select the target and copy to it, copy back | resolvers; broker client through `Closed` |
| **HTTP reader** `http-resolver.go` | parser state, input and output buffers, bytes of body left | `Read` cuts a stream into messages and rewrites their heads | called by the pipes |
| **resolver chain** `http-resolver.go`, `root-`, `host-`, `docker-`, `monitor-resolver.go`, `cors.go` | none | the first resolver that has a target wins; a wrapper parses the request again and rewrites it | called by the proxy connection |
| **docker engine client** `docker.go` | one HTTP connection, over SSH with an `ssh` process at its other end | connect, one HTTP call after the other, reconnect | called by its runner; docker engine |
| **wiring** `main.go` | options | starts runners, broker, accept loop | |
| **HTTP parser**, **log**, **util** | buffers | text and I/O | |

What is hard in it, and what makes each part correct:

* Broker, clients and runners are concurrent and share nothing but channels. A slot is handed
  back to the queue of free slots *before* the last message to it is sent, channels are bounded,
  and the broker blocks on a full one. Correct means: slots are neither lost nor doubled
  (`SlotAccounted`), every request has one reply (`OneReplyPerRequest`), the broker never blocks
  (`NeverBlocks`), the two sides of a link agree (`LinkSound`), starts and their outcomes match
  (`StartDiscipline`), no nil slot or address is followed (`AddressKnown`).
* Starts fail at any point, containers exit by themselves, `-release` takes targets away. Correct
  means: a client is connected to its own image (`RightImage`), an x-type container has one client
  (`ExclusiveContainer`), a y type has one container (`OneSharedTarget`), nothing is killed or
  called free while a client is on it (`NoKillInUse`, `FreeMeansIdle`), a worker call is never
  connected (`WorkerNeverConnected`), and, as one statement, the program is the service the
  repository's README promises, in which everybody is answered (`ImplementsService`).
* A connection is ended by whichever of three goroutines fails first, through a flag without a
  lock and an unbuffered channel. Correct means: its slot is released exactly once, unless the program ends
  (`GivesBackItsSlot`), at most one chunk is written to the container once the client's connection is closed
  (`OneChunkAfterClose`), and the goroutines end (`GoroutinesEnd`). The slot is given back before that
  connection is closed, and what is written in between has no bound.
* A request is parsed twice, by its resolver and by the wrapper that rewrites it, in code written
  twice. Correct means: they agree (`WrapperAgrees`).
* A start is up to six calls to a docker engine that outlives the program, over a connection that
  may be lost before, during or after each, and most statuses are ignored. Correct means: the
  runner reports the container it was told to start and no other (`ReportsItsOwn`), a start does
  what the rest of the program relies on (`StartsAsModelled`), and it ends (`StartEnds`).
* The reader meets packets cut anywhere. Correct means: what it returns is what was sent, with
  heads rewritten (`Transparent`), it fails between messages only, as far as messages say how long they
  are (`FailsBetween`), and it does not stall (`FirstArrives`).

The full list of hazards, each with its line and the properties aimed at it, is in `PROJECT.json`.

## 2. Modules

| module | models |
|---|---|
| `Slots` | constants, messages and channels, shared by the next three |
| `Broker` | `Broker.Run`, all of it |
| `BrokerResolver` | `ResolveHTTPRequest` and the release at the end of `Start` |
| `DockerRunner` | `DockerRunner.Run` |
| `DockerSpaces` | their composition, and the properties of the program |
| `ContainerService` | abstract: what the program promises its clients, without broker or slots |
| `DockerService` | `DockerSpaces` as an implementation of `ContainerService` |
| `DockerEngine` | one runner's start, call by call: `DockerRunner.start`, its connection (`docker.go`) and the engine |
| `Resolvers` | the five resolvers in their order, and what their wrappers can rewrite |
| `ProxyConnection` | one connection in detail: `Start`, `err`, `pipe`, `proxySelectTargetAndSetupPipe`; uses `Resolvers` |
| `ConnectionLife` | abstract: what the broker relies on of a connection |
| `HTTPReader` | `HTTPRewriteHeaderWrapper.Read` |
| `MCDockerSpaces`, `MCHTTPReader` | values for TLC |
| `SafetyProofs` | theorems about `DockerSpaces`: types, labels and addresses |
| `LinkProofs`, `SlotProofs` | theorems about `DockerSpaces`: targets and links; source slots, replies and full channels |
| `ClientProofs` | theorems about `DockerSpaces` as its clients see it, and its refinement of `ContainerService` |
| `ServiceProofs`, `EngineProofs`, `ProxyProofs`, `ReaderProofs` | theorems about `ContainerService`, `DockerEngine`, `ProxyConnection`, `HTTPReader` |

Three refinements hold the modules together:

    ContainerService            DockerRunner (a part of DockerSpaces)    ConnectionLife
          |  ImplementsService          |  StartsAsModelled                   |  GivesBackItsSlot
    DockerSpaces                DockerEngine                             ProxyConnection

**Broker.** `phase`, `at` and `inner` say which loop of `Run` is at which slot. The slots' fields
are private to the goroutine, so a step runs up to the next channel operation; an action is an
iteration of one of the loops (`HandleRelease`, `HandleError`, `Link`, ...). Where the code does
two operations on channels in a row, giving back a slot and then refusing it (broker.go:382-383, 520-522,
567-569), the model has two steps (`QueueRefused`, `SendRefusal`), since a client may act between
them. `Sweep` does the last two loops at once: no channel is touched in them. Times are ages, as
only differences of times are compared; ages above both thresholds are one (`AgeCap`), and the
literals the code stores in `since` (0, 3, 5, 7) are the ages above that. Where a scan for the
oldest slot meets ages at the cap, which stand for different times, any of them may win, and where
the code ranges over a map, any order is possible.

**BrokerResolver and DockerRunner.** A job is a model value for image, port and environment;
`TypeOf` gives its slot type and `WorkerJobs` those with port 3. Reading a channel with several
readers follows Go: receivers are served in the order they came (`readers`). The docker engine
appears as the outcome of a start: the old container is gone or the call failed, the new one is
there or it failed, it answers or the wait gives up. A container that survives its kill keeps the
port, so that the next launch fails; this is why `StartFails` covers the kill's ignored status.
That these five steps are what the code's calls amount to is what `DockerEngine` shows.

**ContainerService.** A client is idle, waiting, served in a place, or gone; a place has a container of
some type, or none. `Grant` puts a client in a place where its type runs and where nobody is, or
only users of the same shared type; `TurnAway` refuses it. The refinement mapping hides slots, messages
and the broker; `place` is the address a client was told, `image` the container that really runs
there. Served means connected, so a client granted by the broker is served when it reads the reply.
`Grant` allows a place whose container has just ended: the broker learns of an exit only through its
clients.

**DockerEngine.** A call is sent, performed and answered in three steps, and `Lose` may come between any
two: a call may have taken effect although the runner sees an error. `pc` names the call. The client is
modelled over SSH, where there is one connection and a process to start again (`process`). Responses that the
code does not close before the next call (docker-runner.go:91, 230) do not hold that connection: they are logged, the
log level is TRACE (log.go), and printing a response reads its JSON to the end (docker.go:172-231). `Restart` ends the program at any
point: the engine and its containers do not end with it, and the next run starts with whatever has
the port. `port` is the job whose container has the runner's port. `RunnerAt` and `Model` map it to
one target of `DockerRunner`.

**Resolvers.** A request is told apart by what the resolvers look at: what the first element of its path is,
what follows a job's element, and what the Referer of the same host names. `Resolve` is the chain, a case for
each resolver; `Rewrites` is what the wrappers' own parsers accept, and `EndsProgram` the requests with which the
broker's resolver panics (an environment definition without `=`, broker-resolver.go:104).

**ProxyConnection** has a program counter per goroutine, one step per line of `err`, so that the
unlocked test and set of `erred` interleave. `ResolveTarget` takes its target from `Resolvers` for any
request, `Dial` has the wrapper parse it again, and the monitor, whose "connection" is a
buffer both pipes use without a lock, has actions of its own (`DialMonitor`, `BuffersCollide`, ...). `Panics` is where
a parser may panic on what it is given; nobody recovers, so `ProgramEnds`: `crashed` is set and nothing of the
connection goes on. `BrokerResolver` has the same connection as the two
steps `ReadReply` and `Close`. What ties the two is `ConnectionLife`: `ProxyConnection` implements
it under the refinement mapping `Life`, and its `Granted`, `Refused` and `GivesBack` are the two
outcomes of `ReadReply` and `Close`; its `ProgramEnds` has no counterpart there: `DockerSpaces` is one life of
the program, of which every beginning may be all there is, and its liveness is for a life that does not end. In
`DockerSpaces` a connection is over when its slot is given back, in `ProxyConnection` its goroutines then go on for a while.
A chunk is what one read of a connection brings; a wrapper may hand it on in several writes.

**HTTPReader**: one action per call of `Read`, by the state the previous call left. A byte is a
record that says which part of which message it is; the parser's findings (a head is complete, a
chunk's size) are read off it. Heads and chunk lines are two bytes, enough to be cut in two.
`source` is what the other end sends and `got` what the caller has got; a read of the inner connection
returns any non-empty piece of it, up to the buffer's length. Where a chunk's line is due and there is none, as after the
head of a response without a length, the code waits for the end of a line (`ReadNoLine`) until it finds one, which is no
number (`ReadMalformed`), or the connection ends (`ReadEnd`). That such data look like a chunk's line by chance is left out.

### What the surroundings may do: `Env`

A run names what it lets the environment do; what it leaves out is an assumption of that run.

| | when absent | why some runs leave it out |
|---|---|---|
| `LongJobs` | jobs end within `-release` | by design `-release` takes the container of a longer job: the job's client stays connected while the target is free and may be restarted (broker.go:597). `FreeMeansIdle`, `LinkSound`, `ExclusiveContainer` and `NeverBlocks` are for jobs within the limit. `ImplementsService` fails with it, too: the type of the target a waiting client counts on is cleared, and nothing is started for that client again |
| `EarlyClients` | the runners have registered before the first request | their first message is sent when the program starts; a start ordered before it is overwritten by `Free` (broker.go:370). `ImplementsService` fails with it |
| `LateRead` | a client is in `Read` when its answer comes | the window of the finding `reply_stolen`; conservation and `LinkSound` are checked with it |
| `Reconnect` | each connection asks once | only to keep the runs small |
| `StartErrors` | starts succeed, containers do not exit | |
| `Leftovers` | the ports of the docker host are free when the program starts | only to keep the runs small; `queue_prompt` has it |

## 3. Runs

Bounds named in the configurations: `NumSources`, `NumTargets` (slots), `Conns` (connections),
`Jobs`, `ReleaseTimeout` = 1 and `CopyAge` = 0 with `Elapse` = {0, 1} (an iteration passes a
threshold or does not), `SlotBuffer` = 3 as in `NewBroker`; `MaxChunks`; `ReadLen`, `BuffLen` and
`Messages`. Connections are symmetric where no liveness is checked.

| run | distinct states | shows |
|---|---|---|
| `queue_any` | 1,888,935 | two source slots, three clients, one target, an x-type job and a worker job, `LongJobs`, `StartErrors` and `EarlyClients`: `TypeOK`, `AddressKnown`, `SlotAccounted`, `OneReplyPerRequest` |
| `pool` | 980,966 | two targets, an x-type and a y-type image, failures, late reads: `LinkSound`, `OneSharedTarget`, `StartDiscipline` |
| `queue_prompt` | 2,932,633 | one target, whose port may be in use when the program starts, x, worker and y jobs, clients that come back, failures: `ExclusiveContainer`, `RightImage`, `WorkerNeverConnected`, `LinkSound`, `FreeMeansIdle`, `NeverBlocks`, `NoKillInUse` |
| `answered` | 197,769 | one target, x, worker and y jobs, failures, under fairness: `ImplementsService` |
| `engine` | 2,140 | one runner, two jobs and a worker, `-stop` given, everything that may fail: `TypeOK`, `ReportsItsOwn`, `StartsAsModelled`, `StartEnds` |
| `proxy` | 126,572 | every request of `Resolvers`, `-cors`, up to three chunks from each end, panics: `TypeOK`, `OneChunkAfterClose`, `WrapperAgrees`, `GivesBackItsSlot` (refinement of `ConnectionLife`, liveness included), `GoroutinesEnd` |
| `http_reader` | 1,617 | two messages of every framing: `TypeOK`, `Transparent`, `FailsBetween`, `FirstArrives` |

Slots are handed out in turn, so it takes three requests for one of two source slots to be used again: three
connections, or two with `Reconnect`. In `queue_any` the third client takes the first one's slot, and asks, after
it is back in the queue and before its refusal is sent or read (broker.go:382, 520): two clients then wait on one
slot, and are owed two answers. The other windows need two clients that compete, and two targets for copies and for a pool. What
is wrong with the program (below) shows up in instances of this size, with traces of several
iterations of the broker. With two targets of the *same* x type the missing `break` dominates everything,
which is why the runs that check exclusive use have one target, and `pool` has one x type, connections
that ask once, and properties that hold in spite of it. In `proxy`, three chunks from the client are a
head, one read before the end and one after, the least for which more than one could come after the close. In
`engine` a message is read before the next one is sent (`BrokerOrders`), which is what
`StartDiscipline` says of the broker.

Deadlock is checked in all runs of `DockerSpaces` and `DockerEngine`: the broker and the docker host
never stop. A connection and a reader do stop, hence `CHECK_DEADLOCK FALSE` for them. In `http_reader`
bodies are shorter and longer than both buffers, and the buffers shorter than a body; a head or a chunk
line is taken to fit in the caller's buffer, 64 KB in a pipe (`ReaderAssumption`).

**Fairness.** Weak fairness of the broker, of each connection and of each runner: the Go scheduler
runs every goroutine that can run; the docker engine answers or its client returns an error, and
the wait for a container has a deadline; a client that is served is done at some point. Exits
and new connections are not fair: nobody has to come back. In `DockerEngine` the client, the engine
and the runner are fair, the loss of a connection is not. The code itself does not make a call end, as its
`http.Client` has no time limit: that the docker host answers every call, or its connection is lost, is an
assumption. So are that a call takes effect, if at all, before its caller sees the
connection lost, and that the engine's answers are well-formed JSON. Each runner has a client of its own
(main.go:175). In `ProxyConnection` the client leaves
at some point, the target may stay for ever; there is no other time limit in the code. In
`HTTPReader` the pipe calls `Read` until it fails.

### Findings

| run | the code does |
|---|---|
| `exclusive_pool` | the linking loop has no `break`: one request takes every free container of its type, gets as many replies, and the surplus is read by later clients of the slot, who end up on a container that is in use (broker.go:424-439, README.md:46). The surplus replies can also fill the slot's channel, and then the broker blocks for good (broker.go:436) |
| `reply_stolen` | the slot is free before its refusal is sent; a client that is late to read takes the reply of the next one, and a container of another image (broker.go:381-383) |
| `worker_connected` | the slot type ignores the port, so a worker call may be connected to a free container of its image instead of launching a worker (broker-resolver.go:193, README.md:50) |
| `pipelined` | a second request in the same packet is passed on to the first one's container, although the wrapper closes the connection when it comes later (http-resolver.go:111-128) |
| `engine_crash` | when ssh cannot be started, the connection has a command without a process; the next call kills that process and the nil pointer ends the program (docker.go:304, "connect/reconnect if connection is lost", docker.go:440) |

Also seen, and not the subject of a run:

* a goroutine whose signal nobody receives is never ended (proxy.go:146; `GoroutinesEnd` makes the
  exception);
* `-release` and early registration can leave a client unanswered (table above), and clients that keep
  coming for the types that have containers can starve one whose type has none (broker.go:399);
* a refused request, and so every worker call, goes on down the chain to the monitor or the `-root` host
  (http-resolver.go:30), although broker.go:517 says that its connection is terminated;
* the monitor sends the request back to the client after its own page, and its buffer is used by two
  goroutines without a lock (monitor-resolver.go:235; `BuffersCollide`);
* a header line without a colon ends the program, and so does an environment definition without `=`, or a body of a
  negative length: the parsers report an error and go on, or do not look (http-parser.go:21-25, broker-resolver.go:103-104,
  http-resolver.go:313), and no goroutine recovers (`Panics`; `GivesBackItsSlot` makes the exception);
* the slot is given back before the client's connection is closed, so that chunks may still go to a container that is the next
  client's by then (proxy.go:119, 131; `OneChunkAfterClose` says what is bounded);
* responses without a length are read as chunked and cut off behind their head (http-resolver.go:236, 382-391; `FailsBetween`
  says so, and `FirstArrives` makes the exception);
* the broker can wait for a runner when jobs outlast `-release` (broker.go:144): the client of such a job releases its slot
  when the target is already starting for somebody else, and this `Release` frees the target (broker.go:291). The next client is
  then linked to a container that is being prepared, and each such round orders one more start, until the
  channel of a slow runner holds three. TLC has this trace, of more than 150 states, for one target, two source slots,
  clients that come back and `LongJobs`, and finds `NeverBlocks` violated; no document says that it cannot happen, so it
  is no finding. `NeverBlocks` is therefore checked and proved for jobs within the limit;
* with `-release 0` a runner does not wait for its container (docker-runner.go:284; the model has a
  positive timeout).

## 4. Proofs

Four modules, each on top of the one before, are about `DockerSpaces!Spec`: `SafetyProofs`, `LinkProofs`,
`SlotProofs`, `ClientProofs`. They hold for every value of the constants that satisfies
`SlotsAssumption` and `BrokerAssumption`: any number of slots, connections (finite or not), jobs and
types, any timeouts, any `Env`. Further hypotheses are part of a theorem's statement:

| hypothesis | says | why it is needed |
|---|---|---|
| `ShortJobs` | `LongJobs` is not in `Env` | by design `-release` takes targets from longer jobs |
| `Prompt` | `ShortJobs`, and `EarlyClients` is not in `Env` | see the table of `Env`: an early start is overwritten by `Free` |
| `Roomy` | `Prompt`; or `ShortJobs` and `SlotBuffer` at least 2 | with channels of one message, TLC finds the broker waiting for a runner that an early client had started |
| `Orderly` | `Prompt`, and `LateRead` is not in `Env` | the trace of `reply_stolen` |
| `NoTwins` | in no state two free targets have the same label | the trace of `exclusive_pool`: the linking loop links a source to both |
| `WorkersApart` | no worker job has the type of another job | the trace of `worker_connected` |
| `FewWaiters` | no more clients wait on a slot than its channel has places | with late readers, refusals pile up in the channel of a slot that is given to one client after the other |

`NoTwins` and `FewWaiters` are about a behaviour, as `[]NoTwins`, and the corollaries say when nothing need be
assumed about the behaviour: with one target slot or with y types only there are no twins (`NoTwinsFor`), and
with no more connections than `SlotBuffer` few wait (`FewWaitersFor`). The runs `queue_prompt` and `answered` are instances of
these, so their hypotheses are met by states that TLC reaches. With several containers for one x image the code does not
guarantee `NoTwins`; theorems with `[]NoTwins` are then about those behaviours only in which no two containers of
the image are free at once, and say nothing of the others.

**Types, labels, addresses.**

* `SafetyProofs!TypeCorrect`: `Spec => []TypeOK`. `TypeOK` is inductive as it stands: it includes the
  capacities of the channels and that a connection in the middle of its request holds a slot.
  One lemma per component and group of variables; `StartForFacts` and `StartSteps` isolate the two
  loops that start containers. What a waiting slot's job is (the last conjunct of `SrcTypeOK`) is
  needed there: the type given to the target is the type of a real job.
* `SafetyProofs!SharedOnce`: `Spec => []OneSharedTarget`. Labels are only erased, except by a start,
  and a start labels a target with a y type only when no target has it: `StartCopy` skips y types.
* `SafetyProofs!AddressesKnown`: `Spec => []AddressKnown`. It is not inductive: that a linked target
  has an address follows from its label. The invariant adds `RegistrationFirst` (as long as the broker does not know a
  target's address, the runner's registration is the first message in its channel, or not sent),
  `UnknownUnlabelled` (such a target is labelled only while Starting, so nothing can be linked to
  it) and `JobKnown` (a busy slot has a job). The channel's order does the rest: the outcome of a
  start cannot overtake the registration.

**Targets and links** (`LinkProofs`, under `Prompt`): `StartsDisciplined` and `LinksSound`. Neither property is
inductive alone. An outcome that came to a target in use would break a link, and a release that
freed a target still starting would allow a second start; so `LinkInv` has both, and adds
`RegisteredOnce` (a runner registers once, so that `Free` never comes to a target in use), `NothingEarly`
(before all have registered nobody has asked) and `InUseYoung` (a running target that is in use is not older
than `-release`, so that `Sweep` leaves it alone). `DisciplineIs` puts the sum of
`StartDiscipline` into four cases, and `CountAppend` and `CountTail` say what sending and reading do to the count
of a kind of message; all later counts rest on them.

With early clients `StartDiscipline` is false, and `LinkProofs!FewOrders` says what is left of it, under `ShortJobs` only: one
message at most is in a free target's channel. What lets the broker repeat an order is the runner's first message, which
says `Free` of a target that may be starting by then; it may do so once. What can undo a start besides is the end of a
job that was linked to the target before. So `OnTheWay(t)`, the orders sent to t and their outcomes, and `Strays(t)`, the
sources that still run on t although t is not theirs any more, are made of each other: a registration that comes late
or an outcome in the place of another turns an order into a stray, and a stray's `Release` turns into an order when it lets the broker
start t again. `Budget` bounds their sum by one, if t is Starting, and one more, once t has registered; it is the
invariant, together with those of `AddressesKnown` and with `InUseYoung`.

**Source slots** (`SlotProofs`, for every `Env`): `SlotsAccounted`, `RequestsAnsweredOnce`, and `BrokerNeverBlocks` under `Roomy`
and `FewWaiters`. The invariant `Books(s)` relates four accounts of a slot: where it is (`Placed`), the grant that is
on the way, in use, or on its way back while the source runs (`Served`), who waits for what (`Answered`), and
that those who do are finitely many (`FewOn`). `LinkedOnce` is where `NoTwins` comes in: when the linking
loop has linked a source, no other target is left for it. `RefusedFree` covers the gap between giving back
a slot and sending its refusal. That the broker never blocks is then counting: the queue of free
slots has room for one that is not in it (`RoomForOne`), a slot's channel has room when a reply is owed
(`RoomForReply`), and a free target's channel is empty by `StartDiscipline`, or holds one
message by `FewOrders` (`RoomToStart`).

**Clients** (`ClientProofs`). `ClientInv` collects, on top of the above:

* `ClientsPlaced`: a client that is connected, and a grant on its way to one, names the target its
  slot is linked to (`Placement`, with `OwnAddress`: runner t's address is t). `FreeTargetsIdle` and `ContainersInUseStay`
  follow under `Prompt` and `NoTwins`, for late readers too.
* `ImagesTrue`: the order of a start, the job its runner obeys and, once the runner waits or has reported,
  the container on its port if there still is one, are of the type the target is labelled with; and no worker is reported ready.
* `AskInv` (without `LateRead`): the job the broker knows for a slot, in the request, in the source slot or behind a
  grant, is the job of the one client that waits on it. Without `LateRead` clients
  queue up to read before they can be overtaken, so a reply goes to the one it is for.

From these: `OneJobAtATime` (`ExclusiveContainer`, with one container), `OwnImageOnly` (`RightImage`) and `WorkersNotConnected`
(`WorkerNeverConnected`), both under `[]NoTwins`. `ServiceKept` is the refinement: `Orderly`, `WorkersApart` and one container, or y types only, imply that
`Spec` implements `Service!Init /\ [][Service!Next]_(Service!serviceVars)`, which is `ImplementsService` without its fairness.
One step per action of `Next` says which action of `ContainerService` it is: `RequestSlot` is `Ask`, `ReadReply` is `Grant` or
`TurnAway`, `Close` is `Leave`, `Accept` is `Return`, `Launch` is `Replace`, `KillOld` and `ContainerExit` are `Vanish`, all of
the broker is a stutter. `PromiseKept` concludes that what the README promises, `ServedWell` of the
abstract service, holds in every state of the program under the same hypotheses, for any number of slots, clients and jobs. Both rest on
lemmas with `[]NoTwins` in the place of the one container (`ServiceUnlessTwins`, `PromiseUnlessTwins`). None of the hypotheses can be dropped:
`exclusive_pool`, `reply_stolen` and `worker_connected` are behaviours of the code without them.

**The other modules.**

* `ServiceProofs!ServedAsPromised`: the abstract service keeps `ServedWell`, for any number of
  clients, places and types, without any assumption. It says that what the program is shown to implement
  is what a reader of the README expects. Inductive together with `TypeOK`.
* `EngineProofs` (`EngineAssumption`): `EngineTypeCorrect`, `OwnReported` (`ReportsItsOwn`) and
  `StartModelled` (`StartsAsModelled`, all of it, as it has no fairness). The invariant adds to `TypeOK`
  that its channels are empty while it obeys a start (`QuietWhileBusy`) and `OwnContainer`: once the
  engine has answered a start, and all through the wait, the port has the job's container or none. This
  is where the ignored status of the kill is made good: only one container can have the port, so a start
  that succeeds is the proof that the old one is gone. One lemma per action says that it keeps the
  invariant, one that it is a step of `DockerRunner` or none.
* `ProxyProofs` (`ProxyAssumption`, so for every `MaxChunks`): `ProxyTypeCorrect`,
  `AtMostOneAfterClose` (`OneChunkAfterClose`), `WrappersAgree` (`WrapperAgrees`) and `NoReleaseTwice`, the safety
  part of `GivesBackItsSlot`. The invariant relates the program counters of the three goroutines:
  before a target there is no `back` (`BeforeTarget`), the head that waits is one the target's wrapper
  rewrites (`HeadFits`, by the lemmas `SomeAnswer` and `ParsersAgree` about `Resolvers`), a slot
  is released by `Start` only (`ReleasedByStart`), the client's connection is closed after it
  (`AfterStart`), and chunks come from what was sent (`Sent`). `Ended` says that a panic leaves no goroutine. From `AfterStart`: `forward` can read nothing
  more once `Start` is done, so what it writes after that is the chunk it holds.

* `ReaderProofs` (`ReaderAssumption`: sizes are numbers, chunks are not empty, the caller's buffer holds a head and a
  line; so for bodies of any length, any number of chunks and any buffers): `ReaderTypes`, `PassesOnWhatWasSent` (`Transparent`),
  `FailsBetweenMessages` (`FailsBetween`) and `FirstIsComplete`, the safety part of `FirstArrives`. What is sent
  is a tape that never changes, `Stream`, and what the caller is to get another, `ToGet`, that differs in the heads
  only. `OnTape` says that what has been got and is in the output buffer, and what is in the input buffer and not yet read, stand on
  them one behind the other, at the position `Consumed`. `Place` says where that is: between messages
  (`AtHead`), or in message i (`Inside(i)`: in a body with `bodyToRead` bytes to its end, at a chunk's line, in a chunk, upgraded, or in a
  body that is wrongly taken to be chunked), and that the parser's variables agree. No property is inductive without it:
  what `Read` does next depends on the part the next byte belongs to. `Grammar` says what the tape has at
  those positions: heads, lines that are followed by as many bytes as they say and by another line or the end. For a chunked
  body, a fold over its chunks, this is an induction: not one of the library's, which take an operator,
  but by the least element of a set of numbers that would be counterexamples (`SetInduction`, `FlattenChunks`).
  Then one lemma per action.

Only model-checked: liveness (the fairness of `ImplementsService`, `GoroutinesEnd`, `FirstArrives`, `StartEnds`, the
fairness of `GivesBackItsSlot`), which TLAPS does not do here. Every other property of the passing runs is a theorem as
well, under the hypotheses above; the runs show that instances of them meet these hypotheses and reach the interesting states.

## 5. Not modelled

* The text of requests and responses: paths, headers, their rewriting, the headers `cors.go` adds. What
  of it decides the control is in `Resolvers` (which request goes where) and `HTTPReader` (where a head
  ends). `http-parser.go` is modelled as far as that.
* TLS, clusters and command line options (`main.go`), except those named above.
* The docker engine over a socket or TCP: there is no process to start again, and more than one
  connection at a time, so no `DialPanics`. The engine's garbage, containers
  created and never started, has no effect on the program.
* The snapshot the broker gives the monitor. It is read without a lock, for display only, and changes
  nothing.
* Logging (`log.go`, `reader-writer-log.go`) and string helpers (`util.go`): output and text.
* Targets whose connection is not wrapped write their head at once instead of through the first read of
  the pipe (proxy.go:536-547): the monitor is the only one, and has its own actions.
* `DockerRunner.wait` and `Shutdown`, and the methods of `HTTPCORSInject`, are never called, nor is a
  `Release` with kill ever sent; the broker's side of the latter is in the model.

## 6. Plan

Done, in this order: `Slots`, `Broker`, `BrokerResolver`, `DockerRunner`, `DockerSpaces`, type correctness
and two safety theorems; `ProxyConnection` with `ConnectionLife`; `HTTPReader`; `ContainerService` and the
refinement `DockerService`; `DockerEngine` with the refinement of `DockerRunner`; `Resolvers`, the monitor
and `-cors` in `ProxyConnection`; the proofs about these three; the safety properties of `DockerSpaces`, and
its refinement of `ContainerService`; `HTTPReader`'s proofs; `NeverBlocks` with early clients; what the README promises, as a theorem about the program.

Left:

1. Liveness: that every client is answered, for any number of slots. The argument would be a rank of the clients that
   wait for a type, by the age of their slots (`OldestUnserved`), which needs `ENABLED` and so another prover.
2. Exclusive use when targets have the same label, if the linking loop gets the `break` it lacks: the hypothesis
   `NoTwins` would go, and `pool` could have more x types.
3. With `LongJobs`: what remains of the slots' accounts is proved already (`SlotsAccounted` has no hypothesis on `Env`); a
   bound for the starts a runner can have ahead of it would say how large the channels would have to be.
