------------------------------- MODULE Pirate -------------------------------
(***************************************************************************)
(* The three Pirate patterns (src/zmq/C).  One client, lpclient.c, calls   *)
(* port 5555 and retries on a new socket; behind the port is a server      *)
(* (lazy: lpserver.c), a queue that keeps a list of ready workers (simple: *)
(* spqueue.c, spworker.c), or one that also exchanges heartbeats with them *)
(* (paranoid: ppqueue.c, ppworker.c).                                      *)
(*                                                                         *)
(* An attempt of a client is a socket of its own, hence an identity; so is *)
(* a session of a worker, which makes a new socket, or draws a new         *)
(* identity, whenever it starts over.                                      *)
(***************************************************************************)
EXTENDS Naturals, Sequences, SequencesExt

CONSTANTS
  Workers,
  Clients,
  Calls,        \* [Clients -> Seq(any)], the requests of each client
  Retries,      \* REQUEST_RETRIES
  MaxSessions,  \* bound: sockets a worker opens
  MaxFaults     \* bound: crashes and deadlines that pass too early

ASSUME PirateAssumption ==
  /\ Calls \in [Clients -> Seq({"request"})]
  /\ Retries \in Nat \ {0} /\ MaxSessions \in Nat \ {0} /\ MaxFaults \in Nat

Ids == Workers \X (1 .. MaxSessions)

Attempts ==
  [client : Clients, call : UNION {DOMAIN Calls[c] : c \in Clients}, try : 1 .. Retries]

\* READY or a heartbeat.
Sign == [client |-> "none"]

VARIABLES
  kind,       \* which of the three runs
  requests,   \* SUBSET Attempts, on their way to port 5555
  replies,    \* SUBSET Attempts, on their way to the clients
  ready,      \* Seq(Ids), the list "workers" of the queue
  expired,    \* SUBSET Ids, entries of the list whose deadline has passed
  older,      \* SUBSET (Ids \X Ids), <<i, j>>: both are listed, the deadline of i is earlier
  routed,     \* SUBSET (Ids \X Attempts), requests on their way to workers
  returned,   \* SUBSET (Ids \X (Attempts \cup {Sign})), messages of workers
  session,    \* [Workers -> Nat], number of the worker's socket
  alive,      \* [Workers -> BOOLEAN]
  call,       \* [Clients -> Nat], the call a client is in
  try,        \* [Clients -> Nat], its attempt, 0 between calls
  results,    \* [Clients -> Seq({"reply", "none"})]
  served,     \* [Attempts -> Nat], how often an attempt was served
  faults

queueVars == <<ready, expired, older>>
workerVars == <<session, alive>>
clientVars == <<call, try, results>>
vars == <<kind, requests, replies, queueVars, routed, returned, workerVars, clientVars,
          served, faults>>

Id(w) == <<w, session[w]>>

\* Messages of one worker have the same effect on the list, so that their order
\* does not matter.  A worker starts by sending READY.
Init ==
  /\ kind \in {"lazy", "simple", "paranoid"}
  /\ requests = {} /\ replies = {}
  /\ ready = <<>> /\ expired = {} /\ older = {}
  /\ routed = {}
  /\ returned = {<<<<w, 1>>, Sign>> : w \in Workers}
  /\ session = [w \in Workers |-> 1]
  /\ alive = [w \in Workers |-> TRUE]
  /\ call = [c \in Clients |-> 1]
  /\ try = [c \in Clients |-> 0]
  /\ results = [c \in Clients |-> <<>>]
  /\ served = [a \in Attempts |-> 0]
  /\ faults = 0

Fault == faults < MaxFaults /\ faults' = faults + 1

-----------------------------------------------------------------------------
(* Lazy: lpserver.c                                                        *)

\* A server under load answers late: the client times out.
LazyServe(a) ==
  /\ kind = "lazy" /\ a \in requests
  /\ requests' = requests \ {a}
  /\ served' = [served EXCEPT ![a] = @ + 1]
  /\ replies' = replies \cup {a}
  /\ UNCHANGED <<kind, queueVars, routed, returned, workerVars, clientVars, faults>>

\* It stops with a request in hand, and others it had received; it is restarted.
LazyCrash(a) ==
  /\ kind = "lazy" /\ a \in requests
  /\ Fault
  /\ \E lost \in SUBSET requests : a \in lost /\ requests' = requests \ lost
  /\ UNCHANGED <<kind, replies, queueVars, routed, returned, workerVars, clientVars, served>>

-----------------------------------------------------------------------------
(* The queues                                                              *)

Listed == ToSet(ready)

\* The entries of D are destroyed, and their deadlines with them.
Forget(D) == {p \in older : p[1] \notin D /\ p[2] \notin D}

\* Slip: an entry that is found is kept where it is.
ReadyInPlace(i) ==
  /\ ready' = IF i \in Listed THEN ready ELSE Append(ready, i)
  /\ older' = Forget({i}) \cup ((Listed \ {i}) \X {i})
  /\ expired' = expired \ {i}

\* s_worker_ready: the entry moves to the end, with a new deadline.
Ready(i) ==
  /\ ready' = Append(RemoveFirst(ready, i), i)
  /\ older' = Forget({i}) \cup ((Listed \ {i}) \X {i})
  /\ expired' = expired \ {i}

\* A message of a worker other than a sign of life goes on to the client.
FromWorker(i, m) ==
  /\ <<i, m>> \in returned
  /\ returned' = returned \ {<<i, m>>}
  /\ replies' = IF m = Sign THEN replies ELSE replies \cup {m}
  /\ UNCHANGED <<kind, requests, routed, workerVars, clientVars, served, faults>>

SimpleBackend(i, m) ==
  /\ kind = "simple"
  /\ FromWorker(i, m)
  /\ ready' = Append(ready, i)
  /\ UNCHANGED <<expired, older>>

ParanoidBackend(i, m) ==
  /\ kind = "paranoid"
  /\ FromWorker(i, m)
  /\ Ready(i)

\* The front end is read only while some worker is ready.
ToWorker(a) ==
  /\ ready # <<>> /\ a \in requests
  /\ requests' = requests \ {a}
  /\ routed' = routed \cup {<<Head(ready), a>>}
  /\ UNCHANGED <<kind, replies, returned, workerVars, clientVars, served, faults>>

SimpleFrontend(a) ==
  /\ kind = "simple"
  /\ ToWorker(a)
  /\ ready' = Tail(ready)
  /\ UNCHANGED <<expired, older>>

\* s_workers_next
ParanoidFrontend(a) ==
  /\ kind = "paranoid"
  /\ ToWorker(a)
  /\ ready' = Tail(ready)
  /\ older' = Forget({Head(ready)})
  /\ expired' = expired \ {Head(ready)}

\* s_workers_purge takes the first n entries and stops at the first one that has not
\* expired.
Overdue(n) ==
  /\ \A k \in 1 .. n : ready[k] \in expired
  /\ n < Len(ready) => ready[n + 1] \notin expired

\* Each round of the loop ends with a purge; what the heartbeats it sends do is in
\* the guard of WorkerTimeout.
ParanoidPurge ==
  /\ kind = "paranoid"
  /\ \E n \in DOMAIN ready :
       /\ Overdue(n)
       /\ ready' = SubSeq(ready, n + 1, Len(ready))
       /\ older' = Forget({ready[k] : k \in 1 .. n})
       /\ expired' = expired \ {ready[k] : k \in 1 .. n}
  /\ UNCHANGED <<kind, requests, replies, routed, returned, workerVars, clientVars,
                 served, faults>>

\* The deadlines pass in the order in which the workers were heard of.
Expire(i) ==
  /\ kind = "paranoid" /\ i \in Listed \ expired
  /\ \A j \in Ids : <<j, i>> \in older => j \in expired
  /\ IF session[i[1]] # i[2] \/ ~alive[i[1]] THEN UNCHANGED faults ELSE Fault
  /\ expired' = expired \cup {i}
  /\ UNCHANGED <<kind, requests, replies, ready, older, routed, returned, workerVars,
                 clientVars, served>>

\* The queue is killed and started again; what was on its way may be lost.
QueueRestarts ==
  /\ kind # "lazy"
  /\ Fault
  /\ ready' = <<>> /\ expired' = {} /\ older' = {}
  /\ \/ UNCHANGED <<requests, replies, routed, returned>>
     \/ requests' = {} /\ replies' = {} /\ routed' = {} /\ returned' = {}
  /\ UNCHANGED <<kind, workerVars, clientVars, served>>

-----------------------------------------------------------------------------
(* The workers                                                             *)

\* A worker answers at once or late; a slow one is a client's timeout.
Serve(w, a) ==
  /\ kind # "lazy" /\ alive[w] /\ <<Id(w), a>> \in routed
  /\ routed' = routed \ {<<Id(w), a>>}
  /\ returned' = returned \cup {<<Id(w), a>>}
  /\ served' = [served EXCEPT ![a] = @ + 1]
  /\ UNCHANGED <<kind, requests, replies, queueVars, workerVars, clientVars, faults>>

\* Slip: only a worker the queue has heard of sends heartbeats.
HeartbeatIfListed(w) ==
  /\ kind = "paranoid" /\ alive[w] /\ Id(w) \in expired
  /\ returned' = returned \cup {<<Id(w), Sign>>}
  /\ UNCHANGED <<kind, requests, replies, queueVars, routed, workerVars, clientVars,
                 served, faults>>

\* The heartbeat of ppworker.c; one that would come too soon adds nothing.
Heartbeat(w) ==
  /\ kind = "paranoid" /\ alive[w]
  /\ Id(w) \notin Listed \ expired
  /\ returned' = returned \cup {<<Id(w), Sign>>}
  /\ UNCHANGED <<kind, requests, replies, queueVars, routed, workerVars, clientVars,
                 served, faults>>

NewSocket(w) ==
  /\ session[w] < MaxSessions
  /\ session' = [session EXCEPT ![w] = @ + 1]
  /\ \E lost \in {{}, {m \in returned : m[1] = Id(w)}} :
       returned' = (returned \ lost) \cup {<<<<w, session[w] + 1>>, Sign>>}
  /\ routed' = {m \in routed : m[1] # Id(w)}

\* No heartbeat of the queue for HEARTBEAT_LIVENESS intervals: they are sent to
\* the workers of the list.
WorkerTimeout(w) ==
  /\ kind = "paranoid" /\ alive[w]
  /\ Fault
  /\ NewSocket(w)
  /\ UNCHANGED <<kind, requests, replies, queueVars, alive, clientVars, served>>

\* The crash that spworker.c and ppworker.c simulate: with a request in hand.
WorkerCrash(w, a) ==
  /\ kind # "lazy" /\ alive[w] /\ <<Id(w), a>> \in routed
  /\ Fault
  /\ routed' = routed \ {<<Id(w), a>>}
  /\ alive' = [alive EXCEPT ![w] = FALSE]
  /\ UNCHANGED <<kind, requests, replies, queueVars, returned, session, clientVars, served>>

WorkerStarts(w) ==
  /\ ~alive[w]
  /\ alive' = [alive EXCEPT ![w] = TRUE]
  /\ NewSocket(w)
  /\ UNCHANGED <<kind, requests, replies, queueVars, clientVars, served, faults>>

-----------------------------------------------------------------------------
(* The client, lpclient.c                                                  *)

Attempt(c) == [client |-> c, call |-> call[c], try |-> try[c]]

ClientSend(c) ==
  /\ try[c] = 0 /\ call[c] <= Len(Calls[c])
  /\ try' = [try EXCEPT ![c] = 1]
  /\ requests' = requests \cup {[Attempt(c) EXCEPT !.try = 1]}
  /\ UNCHANGED <<kind, replies, queueVars, routed, returned, workerVars, call, results,
                 served, faults>>

\* Slip: a reply to an earlier sequence number is taken.
ClientRecvAny(c) ==
  /\ try[c] # 0
  /\ \E a \in replies : a.client = c /\ replies' = replies \ {a}
  /\ results' = [results EXCEPT ![c] = Append(@, "reply")]
  /\ call' = [call EXCEPT ![c] = @ + 1]
  /\ try' = [try EXCEPT ![c] = 0]
  /\ UNCHANGED <<kind, requests, queueVars, routed, returned, workerVars, served, faults>>

ClientRecv(c) ==
  /\ try[c] # 0 /\ Attempt(c) \in replies
  /\ replies' = replies \ {Attempt(c)}
  /\ results' = [results EXCEPT ![c] = Append(@, "reply")]
  /\ call' = [call EXCEPT ![c] = @ + 1]
  /\ try' = [try EXCEPT ![c] = 0]
  /\ UNCHANGED <<kind, requests, queueVars, routed, returned, workerVars, served, faults>>

ClientRetry(c) ==
  /\ try[c] # 0 /\ try[c] < Retries
  /\ try' = [try EXCEPT ![c] = @ + 1]
  /\ \E lost \in {{}, {Attempt(c)}} :
       requests' = (requests \ lost) \cup {[Attempt(c) EXCEPT !.try = @ + 1]}
  /\ UNCHANGED <<kind, replies, queueVars, routed, returned, workerVars, call, results,
                 served, faults>>

ClientAbandon(c) ==
  /\ try[c] = Retries
  /\ results' = [results EXCEPT ![c] = Append(@, "none")]
  /\ call' = [call EXCEPT ![c] = Len(Calls[c]) + 1]
  /\ try' = [try EXCEPT ![c] = 0]
  /\ UNCHANGED <<kind, requests, replies, queueVars, routed, returned, workerVars,
                 served, faults>>

-----------------------------------------------------------------------------

Client(c) == ClientSend(c) \/ ClientRecv(c) \/ ClientRetry(c) \/ ClientAbandon(c)

Backend ==
  \E i \in Ids : \E m \in Attempts \cup {Sign} : SimpleBackend(i, m) \/ ParanoidBackend(i, m)

Next ==
  \/ Backend \/ ParanoidPurge \/ QueueRestarts
  \/ \E a \in requests : \/ LazyServe(a) \/ LazyCrash(a)
                         \/ SimpleFrontend(a) \/ ParanoidFrontend(a)
  \/ \E i \in Ids : Expire(i)
  \/ \E w \in Workers :
       \/ \E a \in Attempts : Serve(w, a) \/ WorkerCrash(w, a)
       \/ Heartbeat(w) \/ WorkerTimeout(w) \/ WorkerStarts(w)
  \/ \E c \in Clients : Client(c)

Spec == Init /\ [][Next]_vars

\* The loops of the queue, the workers and the clients run on, and deadlines pass.
Fairness ==
  /\ WF_vars(Backend) /\ WF_vars(ParanoidPurge)
  /\ \A i \in Ids : WF_vars(Expire(i) /\ faults' = faults)
  /\ \A w \in Workers : WF_vars(Heartbeat(w))
  /\ \A c \in Clients : WF_vars(Client(c))

FairSpec == Spec /\ Fairness

-----------------------------------------------------------------------------
(* Properties                                                              *)

\* The types of the variables.
TypeOK ==
  /\ kind \in {"lazy", "simple", "paranoid"}
  /\ requests \subseteq Attempts /\ replies \subseteq Attempts
  /\ ready \in Seq(Ids) /\ expired \subseteq Listed /\ older \subseteq Listed \X Listed
  /\ routed \subseteq Ids \X Attempts
  /\ returned \subseteq Ids \X (Attempts \cup {Sign})
  /\ session \in [Workers -> 1 .. MaxSessions] /\ alive \in [Workers -> BOOLEAN]
  /\ call \in [Clients -> Nat] /\ try \in [Clients -> 0 .. Retries]
  /\ served \in [Attempts -> Nat] /\ faults \in 0 .. MaxFaults

\* spqueue.c keeps no record of what it gave to whom: a worker stands in its list
\* once and only while no request is with it, because each side waits for the other.
\* (In ppqueue.c a heartbeat that crosses a request lists a busy worker again.)
SimpleListIsIdle ==
  kind = "simple" =>
    \A k \in DOMAIN ready :
      /\ \A j \in DOMAIN ready : ready[j] = ready[k] => j = k
      /\ \A m \in routed \cup returned : m[1] # ready[k]

\* ppqueue.c:80 "We hold workers from oldest to most recent, so we stop at the
\* first alive worker": the list is in the order of the deadlines and names a worker
\* once, whatever is heard, expires or is purged, and no expired worker stands behind a
\* living one, where the purge would not find it.
OldestFirst ==
  kind = "paranoid" =>
    \A j, k \in DOMAIN ready :
      /\ j < k <=> <<ready[j], ready[k]>> \in older
      /\ j < k /\ ready[k] \in expired => ready[j] \in expired

\* The ready lists of both queues (spqueue.c:17, ppqueue.c:110) are what their loops
\* take them for.
ListsConsistent == TypeOK /\ SimpleListIsIdle /\ OldestFirst

\* Every reply a client returns with is to the call it is in, and an attempt is served
\* at most once: each of the three patterns implements the abstract one.
RR == INSTANCE RequestReply
ImplementsRequestReply == RR!Spec

\* Heartbeats heal the paranoid pattern: after the last crash or late heartbeat a
\* worker that runs is in the list of the queue, unless requests keep it busy.
Healing ==
  \A w \in Workers :
    <>[](kind = "paranoid" /\ alive[w]) => <>[](Id(w) \in Listed)
=============================================================================
