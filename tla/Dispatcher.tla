----------------------------- MODULE Dispatcher -----------------------------
(***************************************************************************)
(* The dispatcher process (src/src/dispatcher.c): the main thread relays   *)
(* blocks of inotify events to parser threads, each parser hands every     *)
(* named event to the PUB socket of one publisher of its hash ring, and    *)
(* the updater thread adds the publishers the registrar announces.         *)
(*                                                                         *)
(* Threads share a hash ring, two tables (sockets, and the mutexes that    *)
(* guard them), a readers-writer lock over the tables, and one GMutex: the *)
(* mutex stored for every publisher is the address of the same stack slot  *)
(* of the updater, initialised anew for every publisher (dispatcher.c:96). *)
(* "impl" is the number of that initialisation: g_mutex_init makes the     *)
(* slot refer to a fresh, unlocked mutex and forgets the previous one.     *)
(***************************************************************************)
EXTENDS HashRing, Sequences

CONSTANTS
  Parsers,     \* the parser threads (THREAD_COUNT of them)
  Blocks,      \* the buffers the proxy flushes, one read() of inotify each
  NoBlock,     \* no buffer
  Content,     \* [Blocks -> Seq(Names \cup {NoName})], the names of the events
  NoName,      \* the name of an event with len = 0
  InboxSize,   \* high-water mark of the inproc pipe of a parser
  QuietStart   \* TRUE when no block arrives before the publishers are installed

ASSUME DispatcherAssumption ==
  /\ NoBlock \notin Blocks
  /\ NoName \notin Names
  /\ Content \in [Blocks -> Seq(Names \cup {NoName})]
  /\ InboxSize \in Nat \ {0}
  /\ QuietStart \in BOOLEAN

\* An event is known by its block and its place in the block.
Events == UNION {{b} \X (1 .. Len(Content[b])) : b \in Blocks}
NamedEvents == {e \in Events : Content[e[1]][e[2]] # NoName}

\* notify() sends two frames per event, the wd as a filter, then the event.
Frames == [part : {"filter", "event"}, of : Events]

VARIABLES
  announced,   \* publishers whose announcement the updater has not read
  pending,     \* blocks the main thread has not relayed
  inbox,       \* [Parsers -> Seq(Blocks)], the pipe of a parser
  pc,          \* [Parsers -> ParserLabels]
  block,       \* [Parsers -> Blocks \cup {NoBlock}], buff
  pos,         \* [Parsers -> Nat], the event at offset i of buff
  node,        \* [Parsers -> Publishers \cup {NoPublisher}], node->name
  sock,        \* [Parsers -> Publishers \cup {NoPublisher}], ret, by its peer
  mutex,       \* [Parsers -> BOOLEAN], mutex is not NULL
  waits,       \* [Parsers -> Nat], the mutex instance being locked or held
  upc,         \* the updater's label
  incoming,    \* publisher_addr
  ring,        \* publisher_ring
  socks,       \* publisher_socks
  locks,       \* publisher_socks_locks
  readers,     \* parsers holding the reader lock
  writing,     \* the updater holds the writer lock
  impl,        \* the mutex instance &m refers to, 0 before the first init
  locked,      \* mutex instances that are locked
  wire,        \* [Publishers -> Seq(Frames)], frames handed to a socket
  crashed      \* the process has been killed by SIGSEGV

parserVars == <<pc, block, pos, node, sock, mutex, waits>>
updaterVars == <<upc, incoming>>
tableVars == <<ring, socks, locks>>
lockVars == <<readers, writing>>
mutexVars == <<impl, locked>>
queueVars == <<announced, pending, inbox>>
vars == <<parserVars, updaterVars, tableVars, lockVars, mutexVars, queueVars,
          wire, crashed>>

ParserLabels == {"recv", "scan", "read_lock", "find", "lookup", "lock", "wait",
                 "filter", "event", "unlock"}
UpdaterLabels == {"recv", "add", "adding", "write_lock", "insert_sock",
                  "init_mutex", "insert_lock", "write_unlock"}

Init ==
  /\ announced = Publishers
  /\ pending = Blocks
  /\ inbox = [t \in Parsers |-> <<>>]
  /\ pc = [t \in Parsers |-> "recv"]
  /\ block = [t \in Parsers |-> NoBlock]
  /\ pos = [t \in Parsers |-> 1]
  /\ node = [t \in Parsers |-> NoPublisher]
  /\ sock = [t \in Parsers |-> NoPublisher]
  /\ mutex = [t \in Parsers |-> FALSE]
  /\ waits = [t \in Parsers |-> 0]
  /\ upc = "recv"
  /\ incoming = NoPublisher
  /\ ring = {} /\ socks = {} /\ locks = {}
  /\ readers = {} /\ writing = FALSE
  /\ impl = 0 /\ locked = {}
  /\ wire = [p \in Publishers |-> <<>>]
  /\ crashed = FALSE

-----------------------------------------------------------------------------
(* Helpers                                                                 *)

Goto(t, from, to) == /\ ~crashed
                     /\ pc[t] = from
                     /\ pc' = [pc EXCEPT ![t] = to]

UpdaterGoto(from, to) == ~crashed /\ upc = from /\ upc' = to

Segfault == crashed' = TRUE

Current(t) == <<block[t], pos[t]>>

CurrentName(t) == Content[block[t]][pos[t]]

\* Every announcement sent was installed or lost, and one was installed.
Settled == announced = {} /\ upc = "recv" /\ ring # {}

\* The threads that are between the frames they owe to the socket of p.
Sending(p) == {t \in Parsers : pc[t] \in {"filter", "event"} /\ sock[t] = p}

-----------------------------------------------------------------------------
(* The main thread, dispatcher.c:53-60                                     *)

\* Blocks go to the parsers whose pipe is not full; with every pipe full the
\* send blocks and the block waits.
Relay(b, t) ==
  /\ ~crashed
  /\ QuietStart => Settled
  /\ b \in pending
  /\ Len(inbox[t]) < InboxSize
  /\ pending' = pending \ {b}
  /\ inbox' = [inbox EXCEPT ![t] = Append(@, b)]
  /\ UNCHANGED <<announced, parserVars, updaterVars, tableVars, lockVars,
                 mutexVars, wire, crashed>>

-----------------------------------------------------------------------------
(* A parser thread, dispatcher.c:107-158                                   *)

RecvBlock(t) ==
  /\ Goto(t, "recv", "scan")
  /\ inbox[t] # <<>>
  /\ block' = [block EXCEPT ![t] = Head(inbox[t])]
  /\ pos' = [pos EXCEPT ![t] = 1]
  /\ inbox' = [inbox EXCEPT ![t] = Tail(@)]
  /\ UNCHANGED <<announced, pending, node, sock, mutex, waits, updaterVars,
                 tableVars, lockVars, mutexVars, wire, crashed>>

EndBlock(t) ==
  /\ Goto(t, "scan", "recv")
  /\ pos[t] > Len(Content[block[t]])
  /\ block' = [block EXCEPT ![t] = NoBlock]
  /\ UNCHANGED <<pos, node, sock, mutex, waits, queueVars, updaterVars,
                 tableVars, lockVars, mutexVars, wire, crashed>>

\* An event without a name is passed over (dispatcher.c:148).
SkipUnnamed(t) ==
  /\ ~crashed
  /\ pc[t] = "scan"
  /\ pos[t] <= Len(Content[block[t]])
  /\ CurrentName(t) = NoName
  /\ pos' = [pos EXCEPT ![t] = @ + 1]
  /\ UNCHANGED <<pc, block, node, sock, mutex, waits, queueVars, updaterVars,
                 tableVars, lockVars, mutexVars, wire, crashed>>

ScanNamed(t) ==
  /\ Goto(t, "scan", "read_lock")
  /\ pos[t] <= Len(Content[block[t]])
  /\ CurrentName(t) # NoName
  /\ UNCHANGED <<block, pos, node, sock, mutex, waits, queueVars, updaterVars,
                 tableVars, lockVars, mutexVars, wire, crashed>>

\* Slip: the lookups take no lock.
ReaderLockMissing(t) ==
  /\ Goto(t, "read_lock", "find")
  /\ UNCHANGED <<block, pos, node, sock, mutex, waits, queueVars, updaterVars,
                 tableVars, lockVars, mutexVars, wire, crashed>>

ReaderLock(t) ==
  /\ Goto(t, "read_lock", "find")
  /\ ~writing
  /\ readers' = readers \cup {t}
  /\ UNCHANGED <<block, pos, node, sock, mutex, waits, queueVars, updaterVars,
                 tableVars, writing, mutexVars, wire, crashed>>

\* hash_ring_find_node for a random instance of the name.  While the updater is
\* inside hash_ring_add_node, which takes no lock, the items are being moved
\* and sorted, and the search may end at any node or at no memory at all.
FoundNodes(t) ==
  IF upc = "adding"
    THEN ring \cup {incoming}
    ELSE {FindNode(ring, Key(CurrentName(t), i, FALSE)) : i \in Instances}

FindPublisher(t) ==
  /\ Goto(t, "find", "lookup")
  /\ \E p \in FoundNodes(t) :
       /\ p # NoPublisher
       /\ node' = [node EXCEPT ![t] = p]
  /\ UNCHANGED <<block, pos, sock, mutex, waits, queueVars, updaterVars,
                 tableVars, lockVars, mutexVars, wire, crashed>>

\* node->name of a NULL node, or a read of freed items.
FindCrash(t) ==
  /\ ~crashed
  /\ pc[t] = "find"
  /\ upc = "adding" \/ ring = {}
  /\ Segfault
  /\ UNCHANGED <<parserVars, queueVars, updaterVars, tableVars, lockVars,
                 mutexVars, wire>>

\* Both lookups and the release of the reader lock.
Lookup(t) ==
  /\ Goto(t, "lookup", "lock")
  /\ sock' = [sock EXCEPT ![t] = IF node[t] \in socks THEN node[t]
                                                      ELSE NoPublisher]
  /\ mutex' = [mutex EXCEPT ![t] = node[t] \in locks]
  /\ readers' = readers \ {t}
  /\ UNCHANGED <<block, pos, node, waits, queueVars, updaterVars, tableVars,
                 writing, mutexVars, wire, crashed>>

\* g_mutex_lock reads the slot when it is called and then locks the instance it
\* found there.
MutexCall(t) ==
  /\ Goto(t, "lock", "wait")
  /\ mutex[t]
  /\ waits' = [waits EXCEPT ![t] = impl]
  /\ UNCHANGED <<block, pos, node, sock, mutex, queueVars, updaterVars,
                 tableVars, lockVars, mutexVars, wire, crashed>>

MutexNull(t) ==
  /\ ~crashed
  /\ pc[t] = "lock"
  /\ ~mutex[t]
  /\ Segfault
  /\ UNCHANGED <<parserVars, queueVars, updaterVars, tableVars, lockVars,
                 mutexVars, wire>>

\* Slip: the socket is used without its mutex.
MutexAcquireMissing(t) ==
  /\ Goto(t, "wait", "filter")
  /\ UNCHANGED <<block, pos, node, sock, mutex, waits, queueVars, updaterVars,
                 tableVars, lockVars, mutexVars, wire, crashed>>

MutexAcquire(t) ==
  /\ Goto(t, "wait", "filter")
  /\ waits[t] \notin locked
  /\ locked' = locked \cup {waits[t]}
  /\ UNCHANGED <<block, pos, node, sock, mutex, waits, queueVars, updaterVars,
                 tableVars, lockVars, impl, wire, crashed>>

SendFrame(t, part) ==
  wire' = [wire EXCEPT ![sock[t]] = Append(@, [part |-> part, of |-> Current(t)])]

\* Slip: the filter frame is forgotten.
SendFilterMissing(t) ==
  /\ Goto(t, "filter", "event")
  /\ UNCHANGED <<block, pos, node, sock, mutex, waits, queueVars, updaterVars,
                 tableVars, lockVars, mutexVars, wire, crashed>>

\* notify(): the filter frame with ZFRAME_MORE, then the event.
SendFilter(t) ==
  /\ Goto(t, "filter", "event")
  /\ SendFrame(t, "filter")
  /\ UNCHANGED <<block, pos, node, sock, mutex, waits, queueVars, updaterVars,
                 tableVars, lockVars, mutexVars, crashed>>

SendEvent(t) ==
  /\ Goto(t, "event", "unlock")
  /\ SendFrame(t, "event")
  /\ UNCHANGED <<block, pos, node, sock, mutex, waits, queueVars, updaterVars,
                 tableVars, lockVars, mutexVars, crashed>>

\* Two threads inside one ZeroMQ socket may also corrupt it.
SendCrash(t) ==
  /\ ~crashed
  /\ t \in Sending(sock[t])
  /\ Sending(sock[t]) # {t}
  /\ Segfault
  /\ UNCHANGED <<parserVars, queueVars, updaterVars, tableVars, lockVars,
                 mutexVars, wire>>

\* Slip: the socket is not unlocked after usage.
MutexUnlockMissing(t) ==
  /\ Goto(t, "unlock", "scan")
  /\ pos' = [pos EXCEPT ![t] = @ + 1]
  /\ UNCHANGED <<block, node, sock, mutex, waits, queueVars, updaterVars,
                 tableVars, lockVars, mutexVars, wire, crashed>>

\* Slip: the scan does not move past the event it has sent.
MutexUnlockStuck(t) ==
  /\ Goto(t, "unlock", "scan")
  /\ locked' = locked \ {impl}
  /\ UNCHANGED <<block, pos, node, sock, mutex, waits, queueVars, updaterVars,
                 tableVars, lockVars, impl, wire, crashed>>

\* g_mutex_unlock releases the instance the slot refers to now, whoever holds
\* it; then the scan moves to the next event (dispatcher.c:154).
MutexUnlock(t) ==
  /\ Goto(t, "unlock", "scan")
  /\ locked' = locked \ {impl}
  /\ pos' = [pos EXCEPT ![t] = @ + 1]
  /\ UNCHANGED <<block, node, sock, mutex, waits, queueVars, updaterVars,
                 tableVars, lockVars, impl, wire, crashed>>

-----------------------------------------------------------------------------
(* The updater thread, dispatcher.c:80-104                                 *)

\* The registrar publishes an announcement once, and a PUB socket drops it when
\* the subscription of this dispatcher has not reached it yet.
LoseAnnouncement(p) ==
  /\ p \in announced
  /\ ~crashed
  /\ announced' = announced \ {p}
  /\ UNCHANGED <<pending, inbox, parserVars, updaterVars, tableVars, lockVars,
                 mutexVars, wire, crashed>>

RecvPublisher(p) ==
  /\ UpdaterGoto("recv", "add")
  /\ p \in announced
  /\ announced' = announced \ {p}
  /\ incoming' = p
  /\ UNCHANGED <<pending, inbox, parserVars, tableVars, lockVars, mutexVars,
                 wire, crashed>>

\* hash_ring_add_node, outside the lock: first the items move...
AddNodeBegin ==
  /\ UpdaterGoto("add", "adding")
  /\ UNCHANGED <<incoming, queueVars, parserVars, tableVars, lockVars,
                 mutexVars, wire, crashed>>

\* ...then the ring holds the publisher.
AddNodeEnd ==
  /\ UpdaterGoto("adding", "write_lock")
  /\ ring' = ring \cup {incoming}
  /\ UNCHANGED <<incoming, queueVars, parserVars, socks, locks, lockVars,
                 mutexVars, wire, crashed>>

WriterLock ==
  /\ UpdaterGoto("write_lock", "insert_sock")
  /\ ~writing
  /\ readers = {}
  /\ writing' = TRUE
  /\ UNCHANGED <<incoming, queueVars, parserVars, tableVars, readers,
                 mutexVars, wire, crashed>>

InsertSock ==
  /\ UpdaterGoto("insert_sock", "init_mutex")
  /\ socks' = socks \cup {incoming}
  /\ UNCHANGED <<incoming, queueVars, parserVars, ring, locks, lockVars,
                 mutexVars, wire, crashed>>

InitMutex ==
  /\ UpdaterGoto("init_mutex", "insert_lock")
  /\ impl' = impl + 1
  /\ UNCHANGED <<incoming, queueVars, parserVars, tableVars, lockVars, locked,
                 wire, crashed>>

\* Slip: the mutex is initialised and not stored.
InsertLockMissing ==
  /\ UpdaterGoto("insert_lock", "write_unlock")
  /\ UNCHANGED <<incoming, queueVars, parserVars, tableVars, lockVars,
                 mutexVars, wire, crashed>>

InsertLock ==
  /\ UpdaterGoto("insert_lock", "write_unlock")
  /\ locks' = locks \cup {incoming}
  /\ UNCHANGED <<incoming, queueVars, parserVars, ring, socks, lockVars,
                 mutexVars, wire, crashed>>

WriterUnlock ==
  /\ UpdaterGoto("write_unlock", "recv")
  /\ writing' = FALSE
  /\ incoming' = NoPublisher
  /\ UNCHANGED <<queueVars, parserVars, tableVars, readers, mutexVars, wire,
                 crashed>>

-----------------------------------------------------------------------------

Parser(t) ==
  \/ RecvBlock(t) \/ EndBlock(t) \/ SkipUnnamed(t) \/ ScanNamed(t)
  \/ ReaderLock(t) \/ FindPublisher(t) \/ FindCrash(t) \/ Lookup(t)
  \/ MutexCall(t) \/ MutexNull(t) \/ MutexAcquire(t)
  \/ SendFilter(t) \/ SendEvent(t) \/ SendCrash(t) \/ MutexUnlock(t)

Updater ==
  \/ \E p \in Publishers : RecvPublisher(p)
  \/ AddNodeBegin \/ AddNodeEnd \/ WriterLock \/ InsertSock \/ InitMutex
  \/ InsertLock \/ WriterUnlock

Main == \E b \in Blocks, t \in Parsers : Relay(b, t)

Next ==
  \/ Main
  \/ \E t \in Parsers : Parser(t)
  \/ Updater
  \/ \E p \in Publishers : LoseAnnouncement(p)

Spec == Init /\ [][Next]_vars

\* Every thread runs on when it can: the scheduler of the host is fair and no
\* thread has a priority.
Fairness ==
  /\ WF_vars(Main)
  /\ WF_vars(Updater)
  /\ \A t \in Parsers : WF_vars(Parser(t))

FairSpec == Spec /\ Fairness

-----------------------------------------------------------------------------
(* Properties                                                              *)

OnWire(p, part, e) == \E k \in 1 .. Len(wire[p]) : wire[p][k] = [part |-> part, of |-> e]

\* Every variable stays in its type.
TypeOK ==
  /\ announced \in SUBSET Publishers
  /\ pending \in SUBSET Blocks
  /\ inbox \in [Parsers -> Seq(Blocks)]
  /\ pc \in [Parsers -> ParserLabels]
  /\ block \in [Parsers -> Blocks \cup {NoBlock}]
  /\ pos \in [Parsers -> Nat \ {0}]
  /\ node \in [Parsers -> Publishers \cup {NoPublisher}]
  /\ sock \in [Parsers -> Publishers \cup {NoPublisher}]
  /\ mutex \in [Parsers -> BOOLEAN]
  /\ waits \in [Parsers -> Nat]
  /\ upc \in UpdaterLabels
  /\ incoming \in Publishers \cup {NoPublisher}
  /\ ring \in SUBSET Publishers
  /\ socks \in SUBSET Publishers
  /\ locks \in SUBSET Publishers
  /\ readers \in SUBSET Parsers
  /\ writing \in BOOLEAN
  /\ impl \in Nat
  /\ locked \in SUBSET Nat
  /\ wire \in [Publishers -> Seq(Frames)]
  /\ crashed \in BOOLEAN

\* The comment on notify_random_publisher (dispatcher.c:106) says that a socket
\* must be unlocked before it can be used again: two parsers are never inside
\* notify() on the socket of the same publisher.
SocketExclusive ==
  \A p \in Publishers : \A s, t \in Sending(p) : s = t

\* What a subscriber of a publisher can parse: the frames on a socket come in
\* pairs, a filter and the event it announces (rnot_helper.h:93-110).
WellFramed ==
  \A p \in Publishers : \A k \in 1 .. Len(wire[p]) :
    IF k % 2 = 1
      THEN wire[p][k].part = "filter"
      ELSE /\ wire[p][k].part = "event"
           /\ wire[p][k].of = wire[p][k-1].of

\* With the publishers installed first, no parser follows a NULL node, socket
\* or mutex (dispatcher.c:118, 127).
NeverCrashes == ~crashed

\* The two tables change under the writer lock (dispatcher.c:92-100): a parser
\* between its lookups sees a publisher in both or in neither, and never goes
\* on with a socket that has no mutex or a mutex that has no socket.
TablesConsistent ==
  \A t \in Parsers :
    /\ pc[t] \in {"find", "lookup"} => socks = locks
    /\ pc[t] = "lock" => (mutex[t] <=> sock[t] # NoPublisher)

\* An event is handed over once at most, to one publisher, and the events of a
\* block reach a socket in the order the kernel wrote them (dispatcher.c:145).
InOrderAtMostOnce ==
  \A p, q \in Publishers :
    \A j \in 1 .. Len(wire[p]), k \in 1 .. Len(wire[q]) :
      LET a == wire[p][j] b == wire[q][k] IN
        a.part = "event" /\ b.part = "event" /\ a.of[1] = b.of[1] =>
          /\ a.of = b.of => p = q /\ j = k
          /\ p = q /\ j < k => a.of[2] < b.of[2]

\* Once the publishers are installed, every named event of every block is
\* handed to a publisher: no parser waits for ever for the lock, the mutex or
\* the pipe.
EveryEventDispatched ==
  \A e \in NamedEvents :
    Settled ~> \E p \in Publishers : OnWire(p, "event", e)

=============================================================================
