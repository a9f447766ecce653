# A TLA+ development of rNotify

rNotify tells clients on many machines what happens to the files of a shared
file system. One machine, the file host, owns the inotify instance; its events
are spread over dispatchers, from there over publishers, and reach the clients
that asked for them. This directory holds TLA+ models of that program (the C
sources in `src/src`), and of the messaging patterns the repository keeps beside
it (`src/zmq/C`): Majordomo, the Pirates, Titanic, Binary Star, Clone and
Freelance. TLC configurations check them on small instances, and TLAPS checks
the proofs.

Contents: 1. inventory, 2. modules, 3. what is checked, 4. bounds, 5. fairness,
6. what is proved, 7. disagreements found, 8. what is not modelled, 9. plan.
File names without a directory are in `src/src`, those of section 1.2 and of the
modules of the patterns in `src/zmq/C`.

## 1. Inventory of the system

### 1.1 rNotify

```
                    REQ/REP                      REQ/REP
    publishers  ------------>   registrar   <------------  clients
        ^  |                     |      |                   ^   |
        |  |             PUB/SUB |      | REQ/REP           |   | filters
        |  |                     v      v                   |   |
        |  |     PUSH/PULL  dispatchers proxy  <- inotify   |   |
        |  |     <---------------|---- flush               |   |
        |  +---- XPUB/SUB ---------------------------------+   |
        +------- XSUB/PUB events, filters the other way <------+
```

| Part | Keeps | Does | Hard behaviour | Correct when |
|---|---|---|---|---|
| proxy, event path (`proxy.c:39-94`) | the inotify queue; a buffer per reader thread; pipes | 10 threads `read()` one descriptor and PUSH blocks to the main thread, which PUSHes each to one dispatcher | concurrent reads, full pipes back to the kernel, overflow, dispatchers that die | nothing is lost or doubled behind the kernel's queue; what the kernel drops is marked |
| proxy, subscription thread (`proxy.c:25-37`) | watches | one `inotify_add_watch` per request, answers the wd | refused watches, death of the proxy | ids name paths; every request is answered |
| registrar (`registrar.c:76-164`) | ring and table of publishers | accepts publishers, announces them, answers clients with a wd and the publishers of the file | everybody waits without a timeout; publishers join at any time; empty ring | no null node; a client hears of all publishers of its file |
| dispatcher (`dispatcher.c`) | ring, socket table, mutex table; a block per parser | relays blocks to 10 parser threads; a parser hands each named event to a publisher of its name; the updater adds publishers | tables that change while parsers use them, one mutex slot for all sockets | sockets are used by one thread at a time; frames come in pairs; no null pointer; every event once |
| publisher (`publisher.c`) | two sockets | registers, then forwards events one way and filters the other (`zmq_proxy`) | full pipes, death | a matching filter gets every event once |
| client library (`rnot.h`) | a SUB socket per publisher | `rsubscribe` registers and sets filters; `start_listener` polls and calls the handler | filters that travel after the call returned, prefixes, several sockets | the handler runs once for each event that was promised |
| hash ring (libhashring, external) | nodes and their replicas | add a node, find the node of a key | owners move when nodes are added | a lookup finds a member; growth moves keys to new members only |
| message helpers (`rnot_helper.h`) | nothing | frames, requests, `notify()` | two frames per event on a shared socket | frames of one event stay together |
| benchmark (`application.c`, `tester.c`) | subscriptions, start time; the round and its results | subscribes to directories drawn at random; takes start messages in one thread and events in another; the tester averages the times | late messages, a start time without a lock, draws that repeat | a time counts once, for its round; rounds end |

Calls and messages between them: a client's `rsubscribe` is a REQ to the
registrar, which makes a REQ to the proxy in the middle of serving it; publishers
REQ the registrar once, at start; announcements of publishers go to dispatchers
over PUB/SUB and are never repeated; events go proxy - dispatcher - publisher -
client; filters go client - publisher - dispatcher. Inside the dispatcher the
threads share memory; everywhere else threads and processes only share queues.

### 1.2 The patterns of src/zmq/C

| Part | Keeps | Does | Hard behaviour | Correct when |
|---|---|---|---|---|
| Majordomo broker (`mdbroker.c`) | services, workers, three lists | queues requests by service, hands each to an idle worker, heartbeats, purges | a worker is in three places at once; it expires, leaves or comes again between any two messages; restarts | the lists agree; a request is with one worker |
| Majordomo worker and client (`mdwrkapi.c`, `mdcliapi.c`) | a socket, liveness; retries | registers, answers, reconnects after silence; calls and calls again | a reply that crosses a retry | a call returns its own reply or nothing |
| Pirates (`lp*`, `sp*`, `pp*`) | a list of ready workers; retries | the same without services, with and without heartbeats | heartbeats that cross requests; queues that restart | the list is idle workers, oldest first |
| Titanic (`titanic.c`, `ticlient.c`) | files: requests, replies, the queue | stores a request, calls the service from the disk, keeps the reply until it is fetched | four threads and a crash between any two writes | nothing stored is forgotten; a request is called again only after a fault |
| Binary Star (`bstar.c`, `bstarsrv.c`, `bstarsrv2.c`, `bstarcli.c`) | a state and a deadline per server | exchange states; a client's request triggers the failover | crossing and late states, restarts | never two actives; requests are answered in the end |
| Clone (`clonesrv6.c`, `clone.c`; `clonesrv2.c` to `clonesrv5.c`) | key-value maps, sequence numbers, pending updates | replicate updates to a second server and to clients, by snapshots and a numbered feed | updates that arrive twice in either order, failover, a snapshot that races with the feed, expiry of values | nothing collected is lost; a follower lacks only what is on its way |
| Freelance (`flclient1.c`, `flclient2.c`, `flcliapi.c`, `flserver*.c`) | a list of servers and its deadlines; one request | asks servers in turn, all at once, or through an agent thread | late and repeated answers; pipes between two threads | every call ends, with its own answer |

The programs of a pattern talk by messages only; `flcliapi.c` and `clone.c` have
an agent thread behind a pipe, Titanic has four threads over one directory, and
`clonesrv2.c` has two threads and a pipe. Titanic is a client and a set of
workers of Majordomo; the clone servers run in the reactor of Binary Star.

The hazards all these parts are exposed to are listed in `PROJECT.json`, each with
its line and with the properties that would show it.

## 2. Modules

| Module | Models | State and actions against the code |
|---|---|---|
| `HashRing` | libhashring as the registrar and the dispatcher use it | A ring is the set of addresses added. `ItemsOf` (hashes of the replicas) and `KeyPoint` (hash of a key) are constants: nothing depends on SHA-1. `FindNode` is the next item clockwise. |
| `Dispatcher` | `dispatcher.c` | One label of `pc` per point of `parser_thread` and `notify_random_publisher` where another thread can get in between, one label of `upc` per point of `publisher_updater`; `Relay` is the main thread. |
| `Registrar` | `registrar.c`, `proxy.c:25-37`, `publisher.c:41`, `rnot.h:26-56` | `rpc` is the line the registrar's one thread is at. `requests` is what waits at its REP socket; `asked` and `answer` are the request to the proxy. |
| `Proxy` | `proxy.c:39-94` | The kernel's queue with its overflow mark, readers that take items one at a time, bounded pipes, dispatchers as peers of the PUSH socket. |
| `Delivery` | `publisher.c`, `rnot.h:33-97`, `rnot_helper.h:93-110` | Filters on their way up (`filters`, `routed`, `known`), events on their way down (`wire`, `inbox`), and the poll loop. |
| `Benchmark` | `application.c`, `tester.c` | An application draws directories (`Draw`), then takes start messages and handles events; the tester enters a round, opens the file after three seconds and collects until ten seconds of silence. |
| `RequestReply` | the promise of a request-reply pattern | Abstract: calls, tries, results, and how often a try was served. |
| `Majordomo` | `mdbroker.c`, `mdwrkapi.c`, `mdcliapi.c` | The broker is one record; an action takes one message and changes it by the operators of its handlers (`Registered`, `Paired`, `Delete`). A worker's session and a client's try are identities of sockets. |
| `Pirate` | `lpclient.c` with `lpserver.c`, `spqueue.c` and `spworker.c`, or `ppqueue.c` and `ppworker.c` | `kind` says which of the three runs; the client is common. |
| `Titanic` | `titanic.c`, `ticlient.c` | `req`, `rep` and `queue` are the files. `main.at` is the step of the dispatching loop; `saving`, `reading` and `closing` are steps of the other threads that a crash can cut off. `late` counts calls that were given up and may still run. |
| `BinaryStar` | `bstar.c`, `bstarsrv.c`, `bstarsrv2.c`, `bstarcli.c` | `Move` and `Exception` are the state machine; `kind` tells the proof of concept from the reactor and from the programs of `Clone`. |
| `Clone` | `clonesrv6.c`, `clone.c`, `kvmsg.c`; `clonesrv5.c` to `clonesrv2.c` and their clients | Extends `BinaryStar`: its handlers run in the reactor of the pair, and `StateHandlers` inside the step that changes the state. |
| `Freelance` | `flclient1.c`, `flclient2.c`, `flcliapi.c` and their servers | `kind` is serial, blast or agent. `AgentTurn` is one turn of the agent's loop: a wake, one message of each socket, and the dispatch of the request. |
| `DispatchProofs` (dispatcher and Majordomo), `RegistrarProofs`, `ProxyProofs`, `DeliveryProofs` (and benchmark), `PirateProofs`, `TitanicProofs`, `CloneProofs`, `FreelanceProofs` | theorems | see section 6 |
| `MC...` | small instances | values of the constants, symmetry sets |

How they compose: `Dispatcher` and `Registrar` extend `HashRing`, `Clone` extends
`BinaryStar`; `Majordomo`, `Pirate` and `Freelance` instantiate `RequestReply` as
what they implement, and `Titanic` assumes it of the service below.

Definitions whose comment begins with "Slip:" are what a plausible mistake in the
code would be (a lock not taken, a table not filled). No specification uses them;
replacing the real action by its slip breaks the property it was written for.

### Dispatcher

A parser goes `recv - scan - read_lock - find - lookup - lock - wait - filter -
event - unlock - scan`. Three places deserve an explanation.

*The ring has no lock.* `hash_ring_add_node` is called before the writer lock is
taken (`dispatcher.c:90`), `hash_ring_find_node` under the reader lock (117). The
two can overlap, and the library reallocates and sorts its items meanwhile. This
is undefined behaviour in C; between `AddNodeBegin` and `AddNodeEnd` a lookup
yields any node, old or new, or crashes.

*All mutexes are one.* `GMutex m` is a local of the updater; the table stores its
address for every publisher, and `g_mutex_init` runs on it again for each
(`dispatcher.c:96-98`). The slot refers to a GLib mutex that init creates anew,
so `impl` numbers the instances; `g_mutex_lock` fetches the current instance and
then waits for it (two actions), `g_mutex_unlock` releases the current one. Once
no publisher joins, one instance is left, and it serialises all sockets.

*Two threads in one ZeroMQ socket* may corrupt it: `SendCrash`.

`QuietStart` says that blocks flow only once the publishers are installed. The
code does not enforce this; it is how an operator has to start the system. With
`QuietStart = FALSE` everything may happen in any order, and the properties that
need the premise are not claimed.

### Registrar

The registrar serves one request at a time and blocks on the proxy in the
middle. A publisher is answered (`ReplyPublisher`) before it is announced and
added (`NotifyDispatchers`, `AddPublisher`); a client calls again only when the
previous call has returned. `routed` is the part of `filters` that ZeroMQ has
carried to the XPUB sockets. `PublishersFirst` says that clients start after a
first publisher was accepted; without it a client meets the empty ring and the
registrar crashes (`ReplyCrash`), as nothing in the code prevents.

### Proxy

The kernel's part is external and follows `inotify(7)`: a bounded queue, one
overflow mark while it is full, `read()` calls that take event by event, so that
two threads can alternate. `stamp` and `covered` are history: when an item was
queued, which mark stands for a dropped event.

### Delivery

`Matches` is the prefix match on decimal texts, computed with division.
`HandlerRuns` is the condition that `strlen` of a binary event leaves
(`rnot.h:82`): the first four bytes are the wd in little-endian order. `due` is
history: to whom an event was promised when it was sent, by a filter that had
reached both the publisher and the dispatcher. `overflow` records drops at a
high-water mark.

### Benchmark

`Draw` picks a directory that may be subscribed already, as `rand()` does
(`application.c:60`). The event thread and the start thread of an application
are `Handle` and `TakeStart`; both touch `started`, the round that `start_time` is
from. A start message reaches the applications whose subscription has arrived: one that is
not connected yet misses it (`tester.c:37` publishes at once), and then has no start to time the round
from. `late` counts these misses and the messages that take longer than the
tester waits for them (three seconds before it opens the file, ten of silence after).

### RequestReply

The abstract specification. A client makes its calls in turn, tries each at most
`Retries` times, and gets a reply only when some try of this very call was served,
and each try is served at most once. It gives up after the last try, and then it makes no
further call. `FairSpec` adds that it never hangs.

### Majordomo

`broker` holds what `mdbroker.c` keeps: the registered workers, the list of all
that wait, and per service its waiting workers, its requests and its count. The
handlers of a message are operators from a broker to a broker (`Registered`,
`Paired`, `Delete`), since one message runs several of them: a READY registers,
puts the worker in two lists and may dispatch at once. An identity of a worker is
a pair of worker and session; a reconnect opens the next session, and what was sent
to the last one is lost. `expired` stands for the clock: a deadline passes after
silence, or, counted as a fault, although the peer lives. `s_worker_waiting` renews
the deadline of the worker it appends before `s_service_dispatch` purges, hence the
argument `late` of `Dispatch`: the purge sees the deadlines as they are by then. The broker's
crash and restart is one step that forgets everything and may lose what was on its way.

### Pirate

`kind` is chosen initially: lazy (no queue), simple or paranoid. `routed` and
`returned` are what is between a queue and a worker. `ready` is the list of the
queue. A deadline is kept only as the code uses it, against other deadlines: `older`
says which of two listed workers was heard from earlier (`worker->expiry` of
`ppqueue.c:28`), and `expired` which deadlines have passed.

### Titanic

`rep[u]` is "empty" between `fopen` and the write (`titanic.c:285-287`), and a
reader in between sends a reply without frames. `saving`, `reading` and `closing` are a
thread between two of its steps on the disk: the reply thread sees that a file is there
(117) and opens it afterwards, and when a close has deleted it in between, the assertion in
119 ends the program (`ReplyAsserts`). `main` walks through the queue file
entry by entry (`scan`, `call`, `open`, `save`, `mark`). `Crash` ends all
four threads at any of these points; files stay, pipes do not. The call of the
service is an environment: it succeeds, or fails as a fault. `mdcli_send` gives up after
its timeouts, but the request it has sent may be with the broker or a worker; `late` counts
such requests, and `RunLate` runs one at any later time: before or after the request is
called again, answered and closed, as `RequestReply` allows its `Serve`.

### BinaryStar and Clone

`Move` is the table of `s_execute_fsm` and `bstarsrv.c`. The clock is a flag
(`expired`): it is set after silence, or, counted by `late`, although the peer is
up. `state` "down" is a dead process. One state of the peer is on its way at a time.

`Clone` runs the handlers of `clonesrv6.c` inside this reactor: `NewActive` and
`NewPassive` are part of the step that changes the state, as `bstar.c` calls them
from its handler. Every update is for a key of its own, so that a map says of each
update whether it was never stored, is held or was deleted. A snapshot is a value
with the number it was taken at; a message carries its number and, as history, the
life of the server that published it. A passive server that asks for a snapshot
waits inside its handler (`stuck`) and takes no other step until it has come.
`clonesrv5.c` (kind "single") is the active server without a pair; `clonesrv4.c` and
`clonesrv3.c` are the same without `s_flush_ttl`, that is, with `Ephemeral` empty.
`clonesrv2.c` (kind "feed") has one thread that publishes and another that keeps the map.
Requests for a snapshot that a server has not read are told apart: the peer's, the agent's
first ("agent") and its second ("again"), and each gets a reply of its own.

### Freelance

The agent's loop turn (`AgentTurn`) takes what `zmq_poll` may find ready at once:
a command, a message of a server, the end of the request, then the servers that
were silent are taken off the list and the request is sent to the first of it
(`flcliapi.c:296-352`). A serial client that knows one server tries it three times, one that
knows several tries each once (`flclient1.c:45-72`); the list of attempts is `Order`, which
repeats a single server. `strays` is history: how often an OK was sent when no request was
pending.

## 3. What is checked

| Run | Question | Properties |
|---|---|---|
| `dispatcher_quiet` | with publishers installed first, do three parsers share sockets, tables and one mutex safely, and finish? | `SocketExclusive`, `WellFramed`, `NeverCrashes`, `EveryEventDispatched` |
| `dispatcher_live` | what is left of that with blocks, publishers and lost announcements in any order? | `TablesConsistent`, `InOrderAtMostOnce` |
| `dispatcher_join` | violation, see section 7 | `SocketExclusive` |
| `registrar` | publishers and clients start in any order, a watch is refused, the proxy may die | `RegistrarNeverCrashes`, `IdsNamePaths`, `OnlyJoinersUnheard`, `EveryCallCompletes` |
| `proxy_flow` | reads that alternate, an overflow, full pipes, dispatchers that come and die | `TypeOK`, `EachItemInOnePlace`, `BlocksInKernelOrder`, `QueuedItemsArrive` |
| `delivery` | filters, events, full pipes and deaths in any order; ids that are prefixes | `TypeOK`, `HandledOnceInOrder`, `NoSilentLoss`, `DueAreDealtWith` |
| `benchmark` | start messages, events and results cross over rounds | `RoundConsistent`, `EveryoneCounted`, `Completes` |
| `majordomo` | workers and broker crash, deadlines pass too early, clients retry | `ListsConsistent`, `EachAttemptInOnePlace`, `Healing`, `ImplementsRequestReply` |
| `pirate` | the same for the three pirates | `ListsConsistent`, `ImplementsRequestReply`, `Healing` |
| `titanic` | four threads crash between any two steps on the disk, and calls that were given up still run | `DiskConsistent`, `RunAgainByFault`, `ClosedStaysClosed`, `Completes` |
| `clone` | the pair alone, under the clone servers, and the clone servers without a pair | `StoresConsistent`, `NoSplitBrain`, `PassiveFollows`, `AgentFollows`, `Settles` |
| `freelance` | three clients without a broker; servers die and come back, answers come late and twice | `AnswersConsistent`, `NoCallHangs`, `ImplementsRequestReply` |

Where a property is a conjunction (`ListsConsistent`, `DiskConsistent`,
`StoresConsistent`, `AnswersConsistent`, `RoundConsistent`), its conjuncts are a type invariant
and the named parts just above it in the module, each with its own comment.

*Refinement.* `Majordomo`, `Pirate` and `Freelance` instantiate `RequestReply`.
In the first two its variables are variables of the pattern, so that the mapping
is the identity: broker, lists, sockets and crashes are stutter, a worker that
takes a request is `Serve`, `mdcli_send` or the loop of `lpclient.c` is `Try`,
`Return` and `Abandon`. `Freelance` maps its one client; the kind "agent"
maps to a client that never calls, because its calls break the promise (section
7), and what holds of them is `AnswersConsistent` instead. `Majordomo` is checked against
`RequestReply!FairSpec`, that is, its calls end; the calls of `Freelance` end by
`NoCallHangs`. `Titanic` takes
`RequestReply` for granted of the service it calls.

`CHECK_DEADLOCK FALSE` everywhere: every model stops when its finite supply of
blocks, calls, mutations, rounds or updates is used up, and the dispatcher and the
registrar also stop when they crash.

Read the premises with the results. `SocketExclusive`, `WellFramed` and
`NeverCrashes` hold of a dispatcher whose publishers were installed first, and
only of that one. `RegistrarNeverCrashes` says that a crash needs an empty ring.
`OnlyJoinersUnheard` is deliberately no stronger: nothing tells a client of a
publisher that joins later, so that such publishers take events away from it.
`NoSilentLoss` accounts for losses, it does not exclude them: full pipes, dead
processes and watch descriptors that are a multiple of 256 are in it.
`NoSplitBrain` holds as long as no server is taken for dead that is alive.
`PassiveFollows` and `AgentFollows` speak of servers whose numbers have not gone
astray: `skewed`, `life`, `missed` and `taken` name the ways in which they do, all of which
the code allows (section 7).
`EveryoneCounted` and `TimesOfTheRound` hold while no message is late.

## 4. Bounds

* Dispatcher: 3 parsers, 2 publishers, 3 blocks of one to three events, one of
  them without a name, 2 instances per name, pipes of one block. Two parsers and
  two publishers are what a race on a socket, on the slot or between the ring and
  the tables takes; the third parser waits for the mutex that two others contend
  for. One name has instances that fall on different publishers, so that its
  events may go either way.
* Registrar: 3 publishers, 2 clients (one call and two), 2 paths of which one
  cannot be watched, 2 instances. The ring is laid out so that a key changes its
  owner when the third publisher joins and another wraps around.
* Proxy: 3 mutations and a queue of 1: it overflows, a mark and an event share
  a block, and an event follows the mark. Blocks of 2, pipes of 1, 2 readers, 2
  dispatchers. A dispatcher may come and go without limit.
* Delivery: a client with a socket to each of 2 publishers, 1 dispatcher, 4
  events, ids 2, 25 and 256: prefixes of one another, the last with a zero byte.
  Pipes of 2, which overflow as three of the events go one way.
* Benchmark: 2 applications of 1 and 3 directories out of 3, 3 rounds, up to 2
  late messages. With 3 rounds a time may be reported two rounds after its start.
* Majordomo: 2 workers of one service, a client that calls it and then asks
  `mmi.service` for it, 2 tries per call, 2 sessions per worker and 1 fault: the
  other worker is then the one that must not get the same request.
* Pirate: 2 workers, 2 calls of 2 tries, 2 sessions, 1 fault.
* Titanic: 2 stored requests (the second by the client's retry), 2 faults, each a kill or
  a call that is given up: a crash during the recovery from a crash, two late runs of one
  request. The bound is on these only: an assertion counts as a fault but is always enabled.
* Clone: 2 updates, the first of them with a time to live, 1 restart, 1 late
  deadline, 1 move of the agent. The restart and the late state cover failover,
  return and false failover; two updates are what it takes to be overtaken. An agent
  that goes away and comes back takes more moves: 2 moves were checked apart, with no error
  in 7.5 million states. Three requests to one server need more than that; the third is not
  sent (`clone.c:316`). To
  keep the run small, HUGZ messages are kept only where they change something, one state
  is under way at a time, and with a client that reads no server is started
  again and its subscriptions are up from the start (those of the single servers
  arrive at any time).
* Freelance: 2 servers, 3 calls, 1 message in a socket's queue: the third call is
  the one that gets a stray answer after an ordinary one.

`MaxFaults`, `MaxSessions`, `MaxRestarts`, `MaxLate`, `MaxMoves`, `MaxUuids`,
`MaxUpdates`, `MaxRounds` and `Room` are bounds of the models and not of the code.
No other counter needs a cap: they are bounded by the finite supply of
mutations, publishers, events and calls.

Symmetry (of the parsers) is used in `dispatcher_live` only, which checks
invariants; runs with liveness have none.

## 5. Fairness

* Threads of rNotify: weak fairness of each parser, of the updater, of the relay,
  of each reader, of the main thread, of each listener and of the registrar.
  They are `while (true)` loops over blocking calls, run by a preemptive
  scheduler; weak fairness is enough because an enabled step of a thread stays
  enabled until it is taken, the mutex excepted: a `g_mutex_lock` can be overtaken.
  With finitely many events contenders run out, so that weak fairness suffices
  there too. Publishers are started.
* ZeroMQ delivers filters in the registrar's run: weak fairness of `Network`. In
  `Delivery` nothing is assumed of the network, because `due` only records
  promises made by filters that have arrived.
* Benchmark: weak fairness of the threads, and strong fairness of drawing each
  directory, which is what `rand() % 4` amounts to.
* Majordomo, Pirate, Titanic: weak fairness of the loops of broker, queue,
  workers and clients and of deadlines that pass after silence; heartbeats and
  timers are sent by those loops. None for faults.
* Binary Star: weak fairness of sending and reading states, of serving a request
  and of the client's steps. `Settles` also assumes that both servers stay up in the end.
* Freelance: weak fairness of the client, of its agent and of the deadline of a
  request; none of the servers, which need not answer.
* No fairness anywhere for files changing, processes dying or restarting,
  dispatchers connecting, or announcements being lost.

## 6. What is proved

All theorems hold for every value of the constants that satisfies the named
assumptions `HashRingAssumption`, `DispatcherAssumption`, `RegistrarAssumption`,
`ProxyAssumption`, `DeliveryAssumption`, `BenchmarkAssumption`, `MajordomoAssumption`,
`PirateAssumption`, `TitanicAssumption`, `BinaryStarAssumption`, `CloneAssumption` and
`FreelanceAssumption`.

*Hash ring.* `FindNodeInRing`: a lookup in a non-empty ring finds a member; it
rests on the least element of a non-empty set of naturals. `GrowthKeepsOwners`:
when publishers are added to a ring, a key keeps its owner or moves to one of the
new ones. Both stand in `RegistrarProofs`; the dispatcher needs the first one only,
and `DispatchProofs` has a short form of it.

*Dispatcher.* `TypeCorrect` is inductive with the fact that a parser inside
`notify()` has a socket (`TypeInv`): without it `SendFilter` could append to
nobody's wire. `TablesAlwaysConsistent` needs who may hold what: while the
updater is between its two insertions it holds the writer lock, no parser is then
a reader, and a parser that is between its lookups is a reader (`SharedInv`).
`SocketsExclusive` and `QuietNeverCrashes` are proved under `QuietStart` from one
invariant (`QuietInv`): a parser leaves `recv` only when every announcement was
installed or lost, so that the ring is not empty, ring and tables agree, no
initialisation of the slot is to come, and the mutex a parser waits for or holds
is the current one; then holding it excludes. `SocketsWellFramed` adds what a
socket owes (`FrameInv`): its wire is a sequence of pairs, plus one filter frame
exactly when some parser is between its two frames. `EventsInOrderAtMostOnce` states
`InOrderAtMostOnce` without `QuietStart`. What the wires hold says nothing of what
will be sent: the invariant (`OrderInv`) adds that a block is in one place, with the
main thread, in one inbox or with one parser, and that an event that was sent is
behind the scan of whoever has its block (`Spent`).

*Registrar.* `TypeCorrect`: the inductive part adds that the peer being served
is a publisher on one branch and a client on the other (`TypeInv`).
`SubscriptionsOutliveJoins` states `OnlyJoinersUnheard`; its invariant
(`CoverInv`) says that a client's filters and the rest of its loop cover the
publishers of each of its answers, and `GrowthKeepsOwners` carries this over to
every larger ring. `CrashesOnlyOnEmptyRing` states `RegistrarNeverCrashes`: ring
and table are equal whenever a client is served (`TablesInv`), so that a key of a
non-empty ring has an entry. `RegistrarStaysUp` is proved under
`PublishersFirst`; its invariant (`ServedInv`) says that a publisher that was told
OK is in the ring or is being added. `IdsAlwaysNamePaths` states `IdsNamePaths`: a grant
is compared with other grants only through what the kernel knows, so the invariant
(`IdsInv`) says that watches are numbered without gaps and that the answer on its way
through proxy and registrar is the watch of the path of the client being served.

*Proxy.* `TypeCorrect` includes the bounds of all queues. Its invariant
(`TypeInv`) adds that every overflow mark stands for some dropped event, hence
that marks never outnumber mutations (a surjection between finite sets), that the
one place past the kernel's bound is a mark's, and that a reader begins with an
empty buffer. `BlocksKeepOrder` states `BlocksInKernelOrder`; its invariant
(`OrderInv`) says that what a reader has taken is older than all that is queued,
so that an item it takes next may follow although another thread took some in
between, and that the next stamp exceeds all others, which counts the stamped items.
`NothingLostOrTwice` states `EachItemInOnePlace`: "one place" is kept as the existence
of the only member of a set (`PlacesInv`), so that a step is a map of places to
places, and a new item is one that had none.

*Delivery.* `TypeCorrect` includes the bounds of the pipes and that the listener never
receives from an empty socket. `HandledOnce` and `NothingLostSilently` state
`HandledOnceInOrder` and `NoSilentLoss`, from one invariant (`DeliveryInv`): the wire,
the inbox and the handlers are one line in which the order of sending is kept
(`OrderOK`), an event is only in the pipes of its way (`WaysOK`), and a client that was
promised an event keeps a filter for it unless it or the publisher dies (`HeardOK`).

*Benchmark.* `TimesAreOfTheRound` and `AverageOfAll` state `RoundConsistent` and
`EveryoneCounted`. The invariant (`BenchmarkInv`) says, as long as no message was late
(`InTime`), that what is under way belongs to the round, and that the times under way or
counted are as many as the applications that have reported. It counts over what the
round expects, which is finite by construction, and so needs no bound on the applications.

*Majordomo.* `MajordomoListsConsistent` and `AttemptInOnePlace` state `ListsConsistent` and
`EachAttemptInOnePlace`; `MajordomoImplementsRequestReply` is the safety part of
`ImplementsRequestReply`, that is, `RequestReply!Spec`. One invariant (`MajordomoInv`) carries
all three. The lists are in step with each other (`InStep`): that of a service is what `Only`
keeps of the broker's, whatever is appended, purged or handed out, which a list without
repetitions and its order determine (`OnlyIs`). `InStep` holds also within a handler, where a
request or a worker has just been appended; between handlers each service is `Paced`. That
a waiting worker cannot be listed twice is a fact about its socket (`Fits`): it carries
one job at a time, none before its READY has been taken and none while its worker
waits. `ListsConsistent` alone is not inductive: a REPLY behind a READY would list a worker
twice. "One place" is kept as a relation between attempts and places (`Held`, `OnePlace`), so
that a step moves single attempts; `HeldOK` says that what is somewhere was made by its
client, and was served exactly if it is on its way back. TLC has checked
the invariant on the instance of `majordomo`.

*Pirate.* `PirateImplementsRequestReply` states `ImplementsRequestReply`: every
initial state of the three pirates is one of `RequestReply`, every step is one
of its steps or a stutter. The invariant (`IInv`) has one part per place an attempt
can be in: clients are in a call they have (`ClientsOK`), what was served was
made (`ServedOK`), what waits or is with a worker was made and not served, and is in
one place (`RequestsOK`, `RoutedOK`), and what comes back was served
(`AnswersOK`). Without the last two a duplicate on the way could be served twice,
and a reply could answer a call that nobody served. `ReadyListsHold` states
`ListsConsistent`. For the paranoid queue the invariant (`ListInv`) is that the list
is in the order of the deadlines, that the expired entries are its first ones, and
that nothing but listed entries is ordered or expired. For the simple one, "idle" is not
inductive: an identity is in one place of list, way out and way back, and no
identity is used before its session.

*Titanic.* `DiskKeepsWhatWasTold`, `FaultsPayForRuns` and `ClosedRequestsStayClosed` state
`DiskConsistent`, `RunAgainByFault` and `ClosedStaysClosed`, from one invariant
(`DiskInv`). Its parts: nothing speaks of a uuid that was not drawn (`DrawnOK`), a
uuid belongs to one client (`OwnersOK`) who alone closes it (`ClosersOK`), it is once on
the way to the queue file (`OncePerUuid`), what the main thread knows of
the entry in hand is still so (`MainOK`), and every run there was or may yet be
is paid for (`RunsOK`): the first one by the request itself, every other one by a
fault of its own, where a request that is called or answered now has its run before it.
`ClosedStaysClosed` does not say that a closed request is never run again, which is false: a
call that was given up may run after a later one was answered and the client has closed. It
says that the close stops everything but those: the runs and the late ones together stay as
many, the main thread does not take the request in hand, and no reply comes back. Without
`OncePerUuid` the scan could meet a request a second
time after its reply was stored.

*Binary Star.* `PairNeverSplits` states `NoSplitBrain` of the pair in all programs that
run it. Two states alone do not tell whether the backup may take over: the invariant
(`IInv` of `CloneProofs`) relates them to the state each server has sent and the
other has not read, which may be of an earlier life, and to the deadlines.

*Clone.* `NothingCollectedIsLost` states `StoresConsistent`, for the pair of
`clonesrv6.c` and for the servers that have no peer. Its invariant (`StoreInv`) is
about the messages between two servers. A server without a map of its own holds back
all that it collects (`BlankOK`), so that its first map may be anything. A snapshot, and
the map of a passive server, come with a number and a life of the peer: up to that
number they lack nothing the peer published in that life and that is still on its way
(`Includes`, in `SnapOK` and `MapOK`). Messages of one life have rising numbers, and what
they are about the peer has stored (`FeedOK`), hence a passive server that drops a held
update because the peer's copy has come (`s_was_pending`) has it in its map, at once or by
that message. This needs that an update comes from the collector once, after all that
came before (`SentOK`), that a snapshot is asked for and waited for once (`SnapOK`,
`StuckOK`), and that one state at a time is on its way (`OneNews`). Servers whose number
went astray (`skewed`) are left out, as in the property.

`PassiveServerFollows` states `PassiveFollows`. Its invariant adds `FollowInv` to the
other two. A map that has the number and the life of the active server `Covers` that
server's values (`FollowOK`): a value for which no message is on its way with a number
above the map's is in the map, and the last of those that are does not delete it. What
must not happen is that the peer overtakes a message of its own earlier life: a server
that has come back numbers from what it was given, so that an old message could carry a
number that the new life gives to another update. `OldOK` says why this does no harm: such
a message is about an update that is older than all that the peer has collected since,
and as long as one is on its way to a server that is not active, the peer knows only of
updates that it collected itself (`OwnOnly`); it can thus neither have published that one
again nor have it in a snapshot. `Includes` and `FeedOK` of `StoreInv` give the numbers of the
messages that a new value is published with. TLC has checked `StoreInv` and `FollowInv`
before they were proved, on the instance of `clone` and with two restarts.

`AgentAlwaysFollows` states `AgentFollows`, for the client of the pair, of
`clonesrv5.c` and of `clonesrv2.c`. Its invariant adds `ReadInv` to `StoreInv`: no server
with such a client has restarted, each numbers its updates in the order it sends them, and
above those that the client has read (`NumbersOK`), and the map of a client that has
taken a snapshot lacks, of what the server holds, what is on its way and what went past
the client before it had joined (`AgentMapOK`). A snapshot may have become old on its way.
`RepliesOK` says of one that is not older than the updates read since that it still serves;
the others the client may take, but its map is then not that of this life (`alife`), and
the property does not speak of it. Between two servers a subscription is there
from the start (`HearsAll`); a single server sends its client one snapshot (`OneReply`) and
collects each update once. The thread of `clonesrv2.c` that keeps the map is behind the one
that publishes by what its pipe holds (`LagOK`): its snapshot may lack an update that
was sent before it, which then waits in the client's socket, as the client reads no
update before its snapshot. TLC has checked `ReadInv` with up to four moves
of the client.

*Freelance.* `FreelanceImplementsRequestReply` states `ImplementsRequestReply` for the
serial and the blasting client, `AnswersAlwaysConsistent` states `AnswersConsistent`;
one invariant (`IInv`) carries both, with one half for each sort of client. Without an
agent (`TriesOK`), an attempt that waits at a server was made, waits there once and
was not served, and an answer on its way was served: without the first an attempt could
be served twice, without the last a call could return what no server did. With an agent
(`AgentOK`), the numbers of the messages tell that no PONG of before the first request
passes for an answer, and `OwnOK` keeps the one request and the one answer of the
call at every place they can be in, as long as the agent has sent no OK too many.
`ListOK` says of each server at how many positions it is; it survives a trim because the
expired servers are cut off the head of the list, of which there is a longest part.
The assumption says that no server is connected twice, which the clients do not check.

TLC alone checks what proofs do not reach: the liveness properties
(`EveryEventDispatched`, `EveryCallCompletes`, `QueuedItemsArrive`,
`DueAreDealtWith`, `Healing`, `Settles`, `NoCallHangs`, the `Completes`
properties and the fairness in Majordomo's refinement), as fairness and ENABLED
are outside of the prover; and facts by induction over data, such as what a whole scan of a
block sends.
No module uses a RECURSIVE operator.

## 7. Disagreements between the code and what it says

* `dispatcher_join`: `dispatcher.c:106` says that a socket must be unlocked after
  usage, as it cannot be used otherwise. A publisher that joins re-initialises
  the mutex all sockets share, and two parsers are inside one socket.

Met while modelling, kept in the models as the code does it, and not stated by a
run of their own:

* rNotify. `rnot_helper.h:244` speaks of a watched file that was itself deleted;
  events without a name are dropped at `dispatcher.c:148`. `rnot.h:25` says that the
  call does not return until the registration is complete; it returns while filters
  still travel. Filters match by prefix, so that a client with id 2 handles the
  events of id 25 (`rnot.h:54`). `tester.c` never closes the file it opens.
* Majordomo. `mdbroker.c:239` relies on the list being in the order of deadlines;
  a heartbeat renews a deadline in place. A worker that dies busy is in no list,
  is never purged, and `mmi.service` goes on to answer 200. The broker's branches
  for a second READY and for DISCONNECT are never reached by `mdwrkapi.c`.
* Pirates. In `ppqueue.c:133` a heartbeat that crosses a request lists the busy
  worker again. When `spqueue.c` restarts, its workers wait for ever, and it for them.
* Titanic. The reply file can be read while it is empty (285 against 117). The
  close task "removes any waiting replies" (142) but not one that is about to be
  written. A crash between the save (76) and the append to the queue (212) loses
  the request of a client that then polls for it for ever.
* Binary Star. The primary of `bstarsrv.c` takes requests while the backup is active.
  A backup that is alone never serves. A state that is late makes two actives, and
  the next one aborts (`bstar.c:106`).
* Clone. A passive server waits for its snapshot inside its reactor without a
  timeout (`clonesrv6.c:367`). One that takes over before it has a map follows NULL
  (328). One that flushes a value by its time to live, received as a relative
  number (266), counts its sequence past its peer's, and the delete stays in its
  pending list. The agent asks a server for a snapshot twice at most
  (`clone.c:316`). When it has got two replies it takes the second one only when it comes
  back to that server: after the updates it has read in the meantime its map and its number go
  back to that old snapshot (373), and those updates do not come again. `AgentFollows`
  excepts this (`taken`). The agent gets no HUGZ when it has a subtree, does not clear its map when
  it synchronises again, and silently drops the updates of a server that was
  restarted and counts from zero. Updates between a snapshot and the arrival
  of the subscription reach nobody; in `clonesrv2.c` those between the send (28)
  and the state manager as well. Outside of the model: `kvmsg_dup` sets the size of
  the properties to their number (`kvmsg.c:208`), and GET frees a value that stays
  in the map (`clone.c:285`).
* Freelance. CONNECT puts a server on the list and its first answer puts it
  there again (`flcliapi.c:236, 274`). A late copy of an answer is given out as the
  answer to the next call, or meets the assertion in line 243; this is why the
  agent does not implement `RequestReply`. A PONG answers sequence 0 as long as
  no request was made. The timeout of the poll may be negative (313).

## 8. What is not modelled

* `ip.h`: reads the interface list once; no state of the program.
* `beacon.c`, `if.c`, `hr_test.c`, `tests/`, `scripts/`, `zhelpers.h`,
  `chef-repo/`: trials, load generators, third-party helpers, deployment.
* The registrar's branch for dispatchers (`registrar.c:104-109`): its only caller
  is commented out (`dispatcher.c:45`).
* Of `zmq/C`: the asynchronous Majordomo client (`mdcliapi2.c`, `mdclient2.c`), which
  matches no reply to a request; model one of Clone and `kvsimple.c`, a feed without
  snapshots; frames and properties of `kvmsg.c` and of `zmsg`,
  of which only the key, the number and the time to live are kept; and the other
  examples, mostly one socket pattern each without state (`peering3.c` and
  `interface.c` are simulations and discovery on their own).
* Memory: allocation failure, leaks and double frees; the size of buffers.
* Formatting and logging; contents of an event besides its name, its wd and its
  place in a block.
* A `read()` of inotify that fails (`proxy.c:90-91`: its length of -1 is passed
  on unchecked), and the merging of equal consecutive events by the kernel.
* What ZeroMQ does between a restart of a peer and the reconnection of a SUB socket
  (`clonesrv6.c:99-102`): a clone server hears a restarted peer at once.
* What becomes of a watched file: a path stands for its inode, and the kernel never removes a
  watch (IN_DELETE_SELF, IN_IGNORED), so that a path that is deleted and created again
  keeps its wd.
* The clock: deadlines are flags that pass after silence, or too early as a counted fault.

## 9. Plan

Built, in this order: `HashRing`, `Dispatcher`, `Registrar`, `Proxy`, `Delivery` and
their proofs; `Benchmark`; `RequestReply` and the patterns that implement it
(`Majordomo`, `Pirate`, `Freelance`), `Titanic` over it; `BinaryStar` and `Clone`.

Left:

1. `RNotify`, the composition of registrar, ring, dispatcher and client over the
   same `HashRing`: a client is told the owners of path and NUL, the dispatcher
   asks for the owner of the entry's name (`registrar.c:47`, `dispatcher.c:112-117`).
   The question is whether an event's publisher is one its subscribers listen to.
2. `Notifications`, an abstract specification of the service: an event is handled
   by a subscriber at most once, and only if it was subscribed; `Delivery` is to
   implement it.
