-------------------------------- MODULE Proxy -------------------------------
(***************************************************************************)
(* The proxy's way of an event (src/src/proxy.c): PROXY_THREAD_COUNT       *)
(* threads read the one inotify descriptor, each pushes what a read()      *)
(* returned to the main thread, and the main thread flushes these blocks   *)
(* to the dispatchers, one dispatcher a block.                             *)
(*                                                                         *)
(* The kernel queues a bounded number of events; past the bound it drops   *)
(* events and queues one overflow mark.  A read() takes the events one by  *)
(* one, so two threads that read at the same time share out the queue.     *)
(* Every queue on the way is bounded and its sender blocks, except for the *)
(* kernel's: a slow dispatcher makes the kernel drop events.               *)
(***************************************************************************)
EXTENDS Naturals, FiniteSets, Sequences

CONSTANTS
  Mutations,    \* what happens to the watched files, each one once
  Readers,      \* the threads in start_proxy
  Dispatchers,
  MaxQueued,    \* fs.inotify.max_queued_events
  BatchSize,    \* events that fit into BUFF_SIZE
  WorkSize,     \* high-water mark of the pipe from a reader to the flusher
  OutboxSize    \* high-water mark of the pipe to a dispatcher

ASSUME ProxyAssumption ==
  /\ IsFiniteSet(Mutations)
  /\ MaxQueued \in Nat \ {0}
  /\ BatchSize \in Nat \ {0}
  /\ WorkSize \in Nat \ {0}
  /\ OutboxSize \in Nat \ {0}
  /\ Nat \cap Mutations = {}

\* An item of the queue is an event or the number of an overflow mark.
Marks == 1 .. Cardinality(Mutations)
Items == Mutations \cup Marks
Blocks == Seq(Items)

VARIABLES
  queue,      \* the kernel's queue of the inotify instance
  marks,      \* the number of overflow marks queued so far
  covered,    \* [Mutations -> Nat], the mark queued for a dropped event, or 0
  stamp,      \* [Items -> Nat], when the kernel queued an item, or 0
  rpc,        \* [Readers -> {"read", "copy", "send"}]
  buff,       \* [Readers -> Blocks], the buffer of a reader
  work,       \* [Readers -> Seq(Blocks)], the pipe of a reader to the flusher
  flushing,   \* the block the main thread holds, <<>> when it waits
  connected,  \* dispatchers with a pipe
  outbox,     \* [Dispatchers -> Seq(Blocks)]
  received,   \* [Dispatchers -> Seq(Blocks)]
  lost        \* blocks that died in the pipe of a dispatcher

kernelVars == <<queue, marks, covered, stamp>>
readerVars == <<rpc, buff>>
pipeVars == <<connected, outbox, received, lost>>
vars == <<kernelVars, readerVars, work, flushing, pipeVars>>

Init ==
  /\ queue = <<>> /\ marks = 0
  /\ covered = [m \in Mutations |-> 0]
  /\ stamp = [x \in Items |-> 0]
  /\ rpc = [r \in Readers |-> "read"]
  /\ buff = [r \in Readers |-> <<>>]
  /\ work = [r \in Readers |-> <<>>]
  /\ flushing = <<>>
  /\ connected = {}
  /\ outbox = [d \in Dispatchers |-> <<>>]
  /\ received = [d \in Dispatchers |-> <<>>]
  /\ lost = {}

-----------------------------------------------------------------------------
(* The kernel                                                              *)

Happened(m) == stamp[m] # 0 \/ covered[m] # 0

Now == 1 + Cardinality({x \in Items : stamp[x] # 0})

QueuedMarks == {n \in Marks : \E i \in 1 .. Len(queue) : queue[i] = n}

\* The queue has room for the event.
QueueEvent(m) ==
  /\ ~Happened(m)
  /\ Len(queue) < MaxQueued
  /\ queue' = Append(queue, m)
  /\ stamp' = [stamp EXCEPT ![m] = Now]
  /\ UNCHANGED <<marks, covered, readerVars, work, flushing, pipeVars>>

\* The first event past the bound is replaced by the overflow mark...
DropAndMark(m) ==
  /\ ~Happened(m)
  /\ Len(queue) >= MaxQueued
  /\ QueuedMarks = {}
  /\ marks' = marks + 1
  /\ queue' = Append(queue, marks + 1)
  /\ stamp' = [stamp EXCEPT ![marks + 1] = Now]
  /\ covered' = [covered EXCEPT ![m] = marks + 1]
  /\ UNCHANGED <<readerVars, work, flushing, pipeVars>>

\* ...and the mark stands for those that follow while it is queued.
DropMarked(m) ==
  /\ ~Happened(m)
  /\ Len(queue) >= MaxQueued
  /\ QueuedMarks # {}
  /\ covered' = [covered EXCEPT ![m] = marks]
  /\ UNCHANGED <<queue, marks, stamp, readerVars, work, flushing, pipeVars>>

-----------------------------------------------------------------------------
(* A reader thread, proxy.c:83-94                                          *)

Take(r) ==
  /\ queue # <<>>
  /\ buff' = [buff EXCEPT ![r] = Append(@, Head(queue))]
  /\ queue' = Tail(queue)

\* read() blocks until there is an item...
ReadFirst(r) ==
  /\ rpc[r] = "read"
  /\ Take(r)
  /\ rpc' = [rpc EXCEPT ![r] = "copy"]
  /\ UNCHANGED <<marks, covered, stamp, work, flushing, pipeVars>>

\* ...goes on as long as there are items and room...
ReadMore(r) ==
  /\ rpc[r] = "copy"
  /\ Len(buff[r]) < BatchSize
  /\ Take(r)
  /\ UNCHANGED <<rpc, marks, covered, stamp, work, flushing, pipeVars>>

\* Slip: a read() that waits for a full buffer.
ReadReturnsFull(r) ==
  /\ rpc[r] = "copy"
  /\ Len(buff[r]) = BatchSize
  /\ rpc' = [rpc EXCEPT ![r] = "send"]
  /\ UNCHANGED <<buff, kernelVars, work, flushing, pipeVars>>

\* ...and returns.
ReadReturns(r) ==
  /\ rpc[r] = "copy"
  /\ queue = <<>> \/ Len(buff[r]) = BatchSize
  /\ rpc' = [rpc EXCEPT ![r] = "send"]
  /\ UNCHANGED <<buff, kernelVars, work, flushing, pipeVars>>

\* Slip: the buffer is used again for the next read while it is sent.
SendBlockKeeping(r) ==
  /\ rpc[r] = "send"
  /\ Len(work[r]) < WorkSize
  /\ work' = [work EXCEPT ![r] = Append(@, buff[r])]
  /\ rpc' = [rpc EXCEPT ![r] = "read"]
  /\ UNCHANGED <<buff, kernelVars, flushing, pipeVars>>

\* The bytes read are copied into a message; the send blocks on a full pipe.
SendBlock(r) ==
  /\ rpc[r] = "send"
  /\ Len(work[r]) < WorkSize
  /\ work' = [work EXCEPT ![r] = Append(@, buff[r])]
  /\ buff' = [buff EXCEPT ![r] = <<>>]
  /\ rpc' = [rpc EXCEPT ![r] = "read"]
  /\ UNCHANGED <<kernelVars, flushing, pipeVars>>

-----------------------------------------------------------------------------
(* The main thread, proxy.c:66-81                                          *)

\* Slip: blocks that wait in the pipes are batched into one.
FlusherRecvBatching(r) ==
  /\ work[r] # <<>>
  /\ flushing' = flushing \o Head(work[r])
  /\ work' = [work EXCEPT ![r] = Tail(@)]
  /\ UNCHANGED <<kernelVars, readerVars, pipeVars>>

FlusherRecv(r) ==
  /\ flushing = <<>>
  /\ work[r] # <<>>
  /\ flushing' = Head(work[r])
  /\ work' = [work EXCEPT ![r] = Tail(@)]
  /\ UNCHANGED <<kernelVars, readerVars, pipeVars>>

\* Slip: a send that never blocks.
FlushUnbounded(d) ==
  /\ flushing # <<>>
  /\ d \in connected
  /\ outbox' = [outbox EXCEPT ![d] = Append(@, flushing)]
  /\ flushing' = <<>>
  /\ UNCHANGED <<kernelVars, readerVars, work, connected, received, lost>>

\* PUSH: to one dispatcher whose pipe has room; the send blocks without one.
Flush(d) ==
  /\ flushing # <<>>
  /\ d \in connected
  /\ Len(outbox[d]) < OutboxSize
  /\ outbox' = [outbox EXCEPT ![d] = Append(@, flushing)]
  /\ flushing' = <<>>
  /\ UNCHANGED <<kernelVars, readerVars, work, connected, received, lost>>

-----------------------------------------------------------------------------
(* The dispatchers, as the PUSH socket sees them                           *)

DispatcherConnects(d) ==
  /\ d \notin connected
  /\ connected' = connected \cup {d}
  /\ UNCHANGED <<kernelVars, readerVars, work, flushing, outbox, received, lost>>

\* The pipe of a peer that goes away is destroyed with what is in it.
DispatcherDies(d) ==
  /\ d \in connected
  /\ connected' = connected \ {d}
  /\ lost' = lost \cup {outbox[d][k] : k \in 1 .. Len(outbox[d])}
  /\ outbox' = [outbox EXCEPT ![d] = <<>>]
  /\ UNCHANGED <<kernelVars, readerVars, work, flushing, received>>

DispatcherRecv(d) ==
  /\ d \in connected
  /\ outbox[d] # <<>>
  /\ received' = [received EXCEPT ![d] = Append(@, Head(outbox[d]))]
  /\ outbox' = [outbox EXCEPT ![d] = Tail(@)]
  /\ UNCHANGED <<kernelVars, readerVars, work, flushing, connected, lost>>

-----------------------------------------------------------------------------

Kernel == \E m \in Mutations : QueueEvent(m) \/ DropAndMark(m) \/ DropMarked(m)

Reader(r) == ReadFirst(r) \/ ReadMore(r) \/ ReadReturns(r) \/ SendBlock(r)

Main == (\E r \in Readers : FlusherRecv(r)) \/ (\E d \in Dispatchers : Flush(d))

Dispatcher(d) == DispatcherConnects(d) \/ DispatcherDies(d) \/ DispatcherRecv(d)

Next ==
  \/ Kernel
  \/ \E r \in Readers : Reader(r)
  \/ Main
  \/ \E d \in Dispatchers : Dispatcher(d)

Spec == Init /\ [][Next]_vars

\* The threads of the proxy run on and a dispatcher that stays reads on; nothing
\* is assumed of the files, nor of dispatchers coming and going.
Fairness ==
  /\ \A r \in Readers : WF_vars(Reader(r))
  /\ WF_vars(Main)
  /\ \A d \in Dispatchers : WF_vars(DispatcherRecv(d))

FairSpec == Spec /\ Fairness

-----------------------------------------------------------------------------
(* Properties                                                              *)

\* Every variable stays in its type, no queue or buffer exceeds its bound (the
\* kernel's has room for one mark), and a dispatcher that is gone has no pipe.
TypeOK ==
  /\ queue \in Blocks
  /\ marks \in Nat
  /\ covered \in [Mutations -> Nat]
  /\ stamp \in [Items -> Nat]
  /\ rpc \in [Readers -> {"read", "copy", "send"}]
  /\ buff \in [Readers -> Blocks]
  /\ work \in [Readers -> Seq(Blocks)]
  /\ flushing \in Blocks
  /\ connected \in SUBSET Dispatchers
  /\ outbox \in [Dispatchers -> Seq(Blocks)]
  /\ received \in [Dispatchers -> Seq(Blocks)]
  /\ lost \in SUBSET Blocks
  /\ Len(queue) <= MaxQueued + 1
  /\ \A r \in Readers : Len(buff[r]) <= BatchSize /\ Len(work[r]) <= WorkSize
  /\ \A d \in Dispatchers :
       Len(outbox[d]) <= IF d \in connected THEN OutboxSize ELSE 0

\* Where an item is: one tuple for every occurrence.
At(x, part, owner, k, b) == {<<part, owner, k, i>> : i \in {j \in 1 .. Len(b) : b[j] = x}}

AtAny(x, part, owner, bs) == UNION {At(x, part, owner, k, bs[k]) : k \in 1 .. Len(bs)}

Places(x) ==
  At(x, "queue", 0, 0, queue) \cup At(x, "flusher", 0, 0, flushing)
  \cup (UNION {At(x, "buff", r, 0, buff[r]) : r \in Readers})
  \cup (UNION {AtAny(x, "work", r, work[r]) : r \in Readers})
  \cup (UNION {AtAny(x, "outbox", d, outbox[d]) : d \in Dispatchers})
  \cup (UNION {AtAny(x, "received", d, received[d]) : d \in Dispatchers})
  \cup (UNION {At(x, "lost", b, 0, b) : b \in lost})

\* Between the kernel's queue and the dispatchers nothing is lost, duplicated or
\* made up, whatever readers and dispatchers do: an item the kernel queued is in
\* exactly one place, and a block is lost only in the pipe of a dispatcher that
\* went away.
EachItemInOnePlace ==
  \A x \in Items : Cardinality(Places(x)) = IF stamp[x] # 0 THEN 1 ELSE 0

AllBlocks ==
  {buff[r] : r \in Readers} \cup {flushing} \cup lost
  \cup (UNION {{work[r][k] : k \in 1 .. Len(work[r])} : r \in Readers})
  \cup (UNION {{outbox[d][k] : k \in 1 .. Len(outbox[d])} : d \in Dispatchers})
  \cup (UNION {{received[d][k] : k \in 1 .. Len(received[d])} : d \in Dispatchers})

\* A block holds items in the order in which the kernel queued them, also when
\* two read() calls shared out the queue.
BlocksInKernelOrder ==
  \A b \in AllBlocks : \A i, j \in 1 .. Len(b) :
    i < j => stamp[b[i]] < stamp[b[j]]

ReceivedItems ==
  UNION {{b[i] : i \in 1 .. Len(b)} :
    b \in UNION {{received[d][k] : k \in 1 .. Len(received[d])} : d \in Dispatchers}}

\* A dispatcher that stays connected gets the system going: every item the
\* kernel queued reaches a dispatcher, unless a pipe takes it down.
QueuedItemsArrive ==
  \A d \in Dispatchers :
    <>[](d \in connected) /\ [](lost = {}) =>
      \A x \in Items : stamp[x] # 0 ~> x \in ReceivedItems

=============================================================================
