------------------------------ MODULE Majordomo -----------------------------
(***************************************************************************)
(* The Majordomo pattern (src/zmq/C): clients call services by name        *)
(* (mdcliapi.c), a broker queues requests and hands each to an idle worker *)
(* (mdbroker.c), and workers answer and keep their session alive with      *)
(* heartbeats (mdwrkapi.c).                                                *)
(*                                                                         *)
(* A peer is known to the broker by the identity of its socket.  A worker  *)
(* that reconnects opens a new socket, hence a session is an identity; a   *)
(* client opens one for every retry, hence an attempt is an identity.      *)
(* Clocks are not modelled: a deadline may pass when the peer is silent,   *)
(* and, as a fault, when it is not.                                        *)
(***************************************************************************)
EXTENDS Naturals, FiniteSets, SequencesExt

CONSTANTS
  Workers,
  Services,
  ServiceOf,    \* [Workers -> Services]
  MMI,          \* the name "mmi.service", answered by the broker itself
  Clients,
  Calls,        \* [Clients -> Seq(Services \cup {MMI})], what a client calls
  Retries,      \* attempts of mdcli_send
  MaxSessions,  \* bound: sockets a worker opens
  MaxFaults     \* bound: crashes and deadlines that pass too early

ASSUME MajordomoAssumption ==
  /\ ServiceOf \in [Workers -> Services]
  /\ MMI \notin Services
  /\ Calls \in [Clients -> Seq(Services \cup {MMI})]
  /\ Retries \in Nat \ {0} /\ MaxSessions \in Nat \ {0} /\ MaxFaults \in Nat

Ids == Workers \X (1 .. MaxSessions)
Service(i) == ServiceOf[i[1]]

Attempts ==
  [client : Clients, call : UNION {DOMAIN Calls[c] : c \in Clients}, try : 1 .. Retries]
Target(a) == Calls[a.client][a.call]

READY == [command |-> "READY"]
HEARTBEAT == [command |-> "HEARTBEAT"]
DISCONNECT == [command |-> "DISCONNECT"]
REQUEST(a) == [command |-> "REQUEST", attempt |-> a]
REPLY(a) == [command |-> "REPLY", attempt |-> a]

VARIABLES
  broker,   \* [workers, waiting, idle, requests, count], see Fresh
  expired,  \* SUBSET Ids, deadlines that have passed
  up, down, \* [Ids -> Seq(messages)], from a worker to the broker and back
  asked,    \* SUBSET Attempts, requests of clients on their way
  answers,  \* SUBSET (Attempts \X STRING), replies on their way
  session,  \* [Workers -> Nat], number of the worker's socket
  wstate,   \* [Workers -> {"recv", "busy", "dead"}]
  job,      \* [Workers -> Attempts], the request a busy worker has (or had)
  call,     \* [Clients -> Nat], the call a client is in
  try,      \* [Clients -> Nat], its attempt, 0 between calls
  results,  \* [Clients -> Seq({"200", "404", "reply", "none"})]
  served,   \* [Attempts -> Nat], how often a worker, or the broker, has answered
  faults

workerVars == <<session, wstate, job, served>>
clientVars == <<call, try, results>>
netVars == <<up, down, asked, answers>>
majordomoVars == <<broker, expired, netVars, workerVars, clientVars, faults>>

\* broker_t: the hash of workers, the list of waiting workers; and its service_t:
\* their own lists of waiting workers, the queues of requests, the numbers of workers.
Fresh == [workers |-> {}, waiting |-> <<>>,
          idle |-> [s \in Services |-> <<>>],
          requests |-> [s \in Services |-> <<>>],
          count |-> [s \in Services |-> 0]]

Id(w) == <<w, session[w]>>

MajordomoInit ==
  /\ broker = Fresh
  /\ expired = {}
  /\ up = [i \in Ids |-> IF i[2] = 1 THEN <<READY>> ELSE <<>>]
  /\ down = [i \in Ids |-> <<>>]
  /\ asked = {} /\ answers = {}
  /\ session = [w \in Workers |-> 1]
  /\ wstate = [w \in Workers |-> "recv"]
  /\ job = [w \in Workers |-> {}]
  /\ call = [c \in Clients |-> 1]
  /\ try = [c \in Clients |-> 0]
  /\ results = [c \in Clients |-> <<>>]
  /\ served = [a \in Attempts |-> 0]
  /\ faults = 0

Fault == faults < MaxFaults /\ faults' = faults + 1

-----------------------------------------------------------------------------
(* The broker's lists                                                      *)

\* The elements of a list that are in S, in their order.
Nth(K, j) == CHOOSE k \in K : Cardinality({l \in K : l <= k}) = j
Only(list, S) ==
  LET K == {k \in DOMAIN list : list[k] \in S}
  IN  [j \in 1 .. Cardinality(K) |-> list[Nth(K, j)]]

Without(list, D) == Only(list, ToSet(list) \ D)

\* s_worker_delete, for each worker of a set.
Delete(b, D) ==
  [workers |-> b.workers \ D,
   waiting |-> Without(b.waiting, D),
   idle |-> [s \in Services |-> Without(b.idle[s], D)],
   requests |-> b.requests,
   count |-> [s \in Services |->
                b.count[s] - Cardinality({i \in D \cap b.workers : Service(i) = s})]]

\* Workers at the head of the list whose deadline has passed; the scan stops at
\* the first other one.
Overdue(b, late) ==
  {b.waiting[k] : k \in {n \in DOMAIN b.waiting :
                           \A j \in 1 .. n : b.waiting[j] \in late}}

Purge(b, late) == Delete(b, Overdue(b, late))

\* s_service_dispatch: pair requests with waiting workers, first come first served.
Pairs(b, s) ==
  LET n == IF Len(b.idle[s]) < Len(b.requests[s])
             THEN Len(b.idle[s]) ELSE Len(b.requests[s])
  IN  [k \in 1 .. n |-> <<b.idle[s][k], b.requests[s][k]>>]

Rest(q, b, s) == SubSeq(q, Len(Pairs(b, s)) + 1, Len(q))
Taken(b, s) == {Pairs(b, s)[k][1] : k \in DOMAIN Pairs(b, s)}

\* Slip: the worker stays in the list of the broker.
PairedKeeping(b, s) ==
  [b EXCEPT !.idle[s] = Rest(@, b, s), !.requests[s] = Rest(@, b, s)]

\* Slip: the request stays in the queue until it is answered.
PairedResending(b, s) ==
  [b EXCEPT !.waiting = Without(@, Taken(b, s)), !.idle[s] = Rest(@, b, s)]

Paired(b, s) ==
  [b EXCEPT !.waiting = Without(@, Taken(b, s)),
            !.idle[s] = Rest(@, b, s), !.requests[s] = Rest(@, b, s)]

\* The broker goes on with b, after dispatching for service s.
Dispatch(b, s, late) ==
  \E p \in {Purge(b, late)} :
    LET to(i) == Only(Pairs(p, s), {i} \X Attempts)
    IN  /\ broker' = Paired(p, s)
        /\ down' = [i \in Ids |-> down[i] \o [k \in DOMAIN to(i) |-> REQUEST(to(i)[k][2])]]

\* s_worker_waiting
Idle(b, i) ==
  [b EXCEPT !.waiting = Append(@, i), !.idle[Service(i)] = Append(@, i)]

-----------------------------------------------------------------------------
(* The broker's handlers, mdbroker.c:120-226                               *)

FromWorker(i, m) ==
  /\ up[i] # <<>> /\ Head(up[i]) = m
  /\ up' = [up EXCEPT ![i] = Tail(@)]
  /\ UNCHANGED <<asked, workerVars, clientVars, faults>>

\* s_worker_require, s_service_require
Registered(i) ==
  [broker EXCEPT !.workers = @ \cup {i}, !.count[Service(i)] = @ + 1]

\* READY of a worker that is known, and DISCONNECT and other commands from a
\* worker, are never sent by mdwrkapi.c.
BrokerReady(i) ==
  /\ FromWorker(i, READY)
  /\ i \notin broker.workers
  /\ expired' = expired \ {i}
  /\ Dispatch(Idle(Registered(i), i), Service(i), expired')
  /\ UNCHANGED answers

BrokerReply(i, a) ==
  /\ FromWorker(i, REPLY(a))
  /\ i \in broker.workers
  /\ answers' = answers \cup {<<a, "reply">>}
  /\ expired' = expired \ {i}
  /\ Dispatch(Idle(broker, i), Service(i), expired')

BrokerHeartbeat(i) ==
  /\ FromWorker(i, HEARTBEAT)
  /\ i \in broker.workers
  /\ expired' = expired \ {i}
  /\ UNCHANGED <<broker, down, answers>>

\* s_worker_require makes an entry, s_worker_delete sends DISCONNECT and removes
\* it; a reply is dropped.
BrokerUnknown(i) ==
  /\ up[i] # <<>> /\ Head(up[i]).command \in {"HEARTBEAT", "REPLY"}
  /\ FromWorker(i, Head(up[i]))
  /\ i \notin broker.workers
  /\ down' = [down EXCEPT ![i] = Append(@, DISCONNECT)]
  /\ UNCHANGED <<broker, expired, answers>>

BrokerRequest(a) ==
  /\ a \in asked /\ Target(a) # MMI
  /\ asked' = asked \ {a}
  /\ Dispatch([broker EXCEPT !.requests[Target(a)] = Append(@, a)], Target(a), expired)
  /\ UNCHANGED <<up, answers, expired, workerVars, clientVars, faults>>

\* mmi.service asks for a service of the test program, mmiecho.c:16.
BrokerMmi(a, s) ==
  /\ a \in asked /\ Target(a) = MMI
  /\ asked' = asked \ {a}
  /\ answers' = answers \cup {<<a, IF broker.count[s] # 0 THEN "200" ELSE "404">>}
  /\ served' = [served EXCEPT ![a] = @ + 1]
  /\ UNCHANGED <<up, down, broker, expired, session, wstate, job, clientVars, faults>>

\* The timer of the main loop.  It also sends a heartbeat to every waiting worker:
\* what these do is in the guard of WorkerTimeout.
BrokerTimer ==
  /\ Overdue(broker, expired) # {}
  /\ broker' = Purge(broker, expired)
  /\ UNCHANGED <<expired, netVars, workerVars, clientVars, faults>>

\* A worker that the broker does not hear of.
Silent(i) == up[i] = <<>> /\ (session[i[1]] # i[2] \/ wstate[i[1]] = "dead")

\* HEARTBEAT_EXPIRY has passed.
Expire(i) ==
  /\ Contains(broker.waiting, i) /\ i \notin expired
  /\ IF Silent(i) THEN UNCHANGED faults ELSE Fault
  /\ expired' = expired \cup {i}
  /\ UNCHANGED <<broker, netVars, workerVars, clientVars>>

\* The broker is killed and started again; what was on its way may be lost.
BrokerRestarts ==
  /\ Fault
  /\ broker' = Fresh /\ expired' = {}
  /\ \/ UNCHANGED netVars
     \/ /\ up' = [i \in Ids |-> <<>>] /\ down' = [i \in Ids |-> <<>>]
        /\ asked' = {} /\ answers' = {}
  /\ UNCHANGED <<workerVars, clientVars>>

-----------------------------------------------------------------------------
(* A worker, mdwrkapi.c                                                    *)

\* Slip: the new socket does not register.
ConnectUnregistered(w) ==
  /\ session[w] < MaxSessions
  /\ session' = [session EXCEPT ![w] = @ + 1]
  /\ up' = up
  /\ down' = [down EXCEPT ![Id(w)] = <<>>]

\* s_mdwrk_connect_to_broker: what was queued at the old socket may be lost.
Connect(w) ==
  /\ session[w] < MaxSessions
  /\ session' = [session EXCEPT ![w] = @ + 1]
  /\ \E kept \in {up[Id(w)], <<>>} :
       up' = [up EXCEPT ![Id(w)] = kept, ![<<w, session[w] + 1>>] = <<READY>>]
  /\ down' = [down EXCEPT ![Id(w)] = <<>>]

WorkerGets(w, m) ==
  /\ wstate[w] = "recv"
  /\ down[Id(w)] # <<>> /\ Head(down[Id(w)]) = m

WorkerRequest(w) ==
  \E a \in Attempts :
    /\ WorkerGets(w, REQUEST(a))
    /\ down' = [down EXCEPT ![Id(w)] = Tail(@)]
    /\ wstate' = [wstate EXCEPT ![w] = "busy"]
    /\ job' = [job EXCEPT ![w] = a]
    /\ UNCHANGED <<broker, expired, up, asked, answers, session, served, clientVars,
                   faults>>

WorkerDisconnect(w) ==
  /\ WorkerGets(w, DISCONNECT)
  /\ Connect(w)
  /\ UNCHANGED <<broker, expired, asked, answers, wstate, job, served, clientVars,
                 faults>>

\* Nothing was heard for HEARTBEAT_LIVENESS intervals: the broker does not know
\* this worker, or its heartbeats are late.
WorkerTimeout(w) ==
  /\ wstate[w] = "recv" /\ down[Id(w)] = <<>>
  /\ IF Id(w) \notin broker.workers /\ up[Id(w)] = <<>> THEN UNCHANGED faults ELSE Fault
  /\ Connect(w)
  /\ UNCHANGED <<broker, expired, asked, answers, wstate, job, served, clientVars>>

\* A heartbeat adds nothing that finds another, or the answer to it, on its way.
WorkerSendHeartbeat(w) ==
  /\ wstate[w] = "recv" /\ up[Id(w)] = <<>> /\ down[Id(w)] = <<>>
  /\ Id(w) \in expired \/ Id(w) \notin broker.workers
  /\ up' = [up EXCEPT ![Id(w)] = <<HEARTBEAT>>]
  /\ UNCHANGED <<broker, expired, down, asked, answers, workerVars, clientVars, faults>>

\* The application hands its reply to the next mdwrk_recv.
WorkerReply(w) ==
  /\ wstate[w] = "busy"
  /\ up' = [up EXCEPT ![Id(w)] = Append(@, REPLY(job[w]))]
  /\ wstate' = [wstate EXCEPT ![w] = "recv"]
  /\ served' = [served EXCEPT ![job[w]] = @ + 1]
  /\ UNCHANGED <<broker, expired, down, asked, answers, session, job, clientVars,
                 faults>>

WorkerDies(w) ==
  /\ wstate[w] # "dead"
  /\ Fault
  /\ wstate' = [wstate EXCEPT ![w] = "dead"]
  /\ UNCHANGED <<broker, expired, netVars, session, job, served, clientVars>>

WorkerStarts(w) ==
  /\ wstate[w] = "dead"
  /\ wstate' = [wstate EXCEPT ![w] = "recv"]
  /\ Connect(w)
  /\ UNCHANGED <<broker, expired, asked, answers, job, served, clientVars, faults>>

-----------------------------------------------------------------------------
(* A client, mdcliapi.c:94-164                                             *)

Attempt(c) == [client |-> c, call |-> call[c], try |-> try[c]]

ClientSend(c) ==
  /\ try[c] = 0 /\ call[c] <= Len(Calls[c])
  /\ try' = [try EXCEPT ![c] = 1]
  /\ asked' = asked \cup {[client |-> c, call |-> call[c], try |-> 1]}
  /\ UNCHANGED <<broker, expired, up, down, answers, workerVars, call, results, faults>>

\* After NULL the programs stop (mdclient.c, titanic.c); the socket would still
\* expect the reply to this call.
Return(c, r) ==
  /\ results' = [results EXCEPT ![c] = Append(@, r)]
  /\ call' = [call EXCEPT ![c] = IF r = "none" THEN Len(Calls[c]) + 1 ELSE @ + 1]
  /\ try' = [try EXCEPT ![c] = 0]

\* Slip: the reply to an earlier attempt is taken.
ClientRecvAny(c, r) ==
  /\ try[c] # 0
  /\ \E x \in answers : x[1].client = c /\ x[2] = r /\ answers' = answers \ {x}
  /\ Return(c, r)
  /\ UNCHANGED <<broker, expired, up, down, asked, workerVars, faults>>

ClientRecv(c, r) ==
  /\ try[c] # 0
  /\ <<Attempt(c), r>> \in answers
  /\ answers' = answers \ {<<Attempt(c), r>>}
  /\ Return(c, r)
  /\ UNCHANGED <<broker, expired, up, down, asked, workerVars, faults>>

\* No reply in time: a new socket and another attempt, or NULL to the caller.  A
\* request that did not leave the old socket is lost.
ClientTimeout(c) ==
  /\ try[c] # 0
  /\ \E kept \in {asked, asked \ {Attempt(c)}} :
       IF try[c] < Retries
         THEN /\ try' = [try EXCEPT ![c] = @ + 1]
              /\ asked' = kept \cup {[Attempt(c) EXCEPT !.try = @ + 1]}
              /\ UNCHANGED <<call, results>>
         ELSE Return(c, "none") /\ asked' = kept
  /\ answers' = {x \in answers : x[1] # Attempt(c)}
  /\ UNCHANGED <<broker, expired, up, down, workerVars, faults>>

-----------------------------------------------------------------------------

Broker ==
  \/ \E i \in Ids : BrokerReady(i) \/ BrokerHeartbeat(i)
                    \/ BrokerUnknown(i)
  \/ \E i \in Ids : \E a \in Attempts : BrokerReply(i, a)
  \/ \E a \in asked : BrokerRequest(a)
  \/ \E a \in asked, s \in Services : BrokerMmi(a, s)

Worker(w) ==
  \/ WorkerRequest(w) \/ WorkerDisconnect(w)
  \/ WorkerSendHeartbeat(w) \/ WorkerReply(w)

Client(c) ==
  \/ ClientSend(c) \/ ClientTimeout(c)
  \/ \E r \in {"200", "404", "reply"} : ClientRecv(c, r)

MajordomoNext ==
  \/ Broker \/ BrokerTimer \/ BrokerRestarts
  \/ \E i \in Ids : Expire(i)
  \/ \E w \in Workers : Worker(w) \/ WorkerTimeout(w) \/ WorkerDies(w) \/ WorkerStarts(w)
  \/ \E c \in Clients : Client(c)

MajordomoSpec == MajordomoInit /\ [][MajordomoNext]_majordomoVars

\* The loops of the broker, the workers and the clients run on, and deadlines pass.
MajordomoFairness ==
  /\ WF_majordomoVars(Broker) /\ WF_majordomoVars(BrokerTimer)
  /\ \A i \in Ids : WF_majordomoVars(Expire(i) /\ faults' = faults)
  /\ \A w \in Workers : /\ WF_majordomoVars(Worker(w))
                         /\ WF_majordomoVars(WorkerTimeout(w) /\ faults' = faults)
  /\ \A c \in Clients : WF_majordomoVars(Client(c))

FairMajordomoSpec == MajordomoSpec /\ MajordomoFairness

-----------------------------------------------------------------------------
(* Properties                                                              *)

Messages == {READY, HEARTBEAT, DISCONNECT}
              \cup {REQUEST(a) : a \in Attempts} \cup {REPLY(a) : a \in Attempts}

\* The types of the variables; the number of workers of a service, an unsigned
\* size in the code, never goes below zero.
MajordomoTypeOK ==
  /\ broker \in [workers : SUBSET Ids, waiting : Seq(Ids), idle : [Services -> Seq(Ids)],
                 requests : [Services -> Seq(Attempts)], count : [Services -> Nat]]
  /\ expired \subseteq Ids
  /\ up \in [Ids -> Seq(Messages)] /\ down \in [Ids -> Seq(Messages)]
  /\ asked \subseteq Attempts /\ served \in [Attempts -> Nat]
  /\ answers \subseteq Attempts \X {"200", "404", "reply"}
  /\ session \in [Workers -> 1 .. MaxSessions]
  /\ wstate \in [Workers -> {"recv", "busy", "dead"}]
  /\ \A w \in Workers : wstate[w] = "busy" => job[w] \in Attempts
  /\ call \in [Clients -> Nat] /\ try \in [Clients -> 0 .. Retries]
  /\ results \in [Clients -> Seq({"200", "404", "reply", "none"})]
  /\ faults \in 0 .. MaxFaults

\* The broker keeps a waiting worker in three places, and each handler changes
\* them on its own: a waiting worker is registered and stands once in the list of
\* the broker and once, in the same order, in that of its service, the count of a
\* service is the number of its registered workers, and no request waits while a
\* worker of its service does.
ListsAgree ==
  /\ ToSet(broker.waiting) \subseteq broker.workers
  /\ Cardinality(ToSet(broker.waiting)) = Len(broker.waiting)
  /\ \A s \in Services :
       /\ broker.idle[s] = Only(broker.waiting, {i \in Ids : Service(i) = s})
       /\ broker.count[s] = Cardinality({i \in broker.workers : Service(i) = s})
       /\ broker.requests[s] = <<>> \/ broker.idle[s] = <<>>

\* Where request a is, or its reply: one element for each copy.
Places(a) ==
  {<<"asked">> : x \in asked \cap {a}}
  \cup {<<"answered", x[2]>> : x \in {r \in answers : r[1] = a}}
  \cup (UNION {{<<"queued", s, k>> : k \in {n \in DOMAIN broker.requests[s] :
                                         broker.requests[s][n] = a}} : s \in Services})
  \cup (UNION {{<<"up", i, k>> : k \in {n \in DOMAIN up[i] : up[i][n] = REPLY(a)}}
                : i \in Ids})
  \cup (UNION {{<<"down", i, k>> : k \in {n \in DOMAIN down[i] : down[i][n] = REQUEST(a)}}
                : i \in Ids})
  \cup {<<"job", w>> : w \in {v \in Workers : wstate[v] = "busy" /\ job[v] = a}}

\* An attempt of a client is handed to one worker only, whatever workers expire,
\* reconnect or die and however often the broker restarts: only the client's
\* own retry makes another copy.
EachAttemptInOnePlace ==
  \A a \in Attempts : Cardinality(Places(a)) <= 1

\* A worker that waits at the broker has nothing to do: no request is on its way
\* to it, it serves none and no reply of it is on its way, so that it cannot be
\* queued a second time.
WaitingHaveNoJob ==
  \A i \in ToSet(broker.waiting) :
    /\ \A k \in DOMAIN down[i] : down[i][k].command # "REQUEST"
    /\ \A k \in DOMAIN up[i] : up[i][k].command # "REPLY"
    /\ session[i[1]] = i[2] => wstate[i[1]] # "busy"

\* The lists of the broker (mdbroker.c:22-24, 47-48) agree with one another and with the
\* workers, whoever registers, expires, leaves or is given work in between.
ListsConsistent == MajordomoTypeOK /\ ListsAgree /\ WaitingHaveNoJob

\* mdcli_send returns the reply to the call it was given, never a late reply to an
\* earlier one, each attempt is served at most once, and no call hangs: together,
\* the pattern implements the abstract one.
RR == INSTANCE RequestReply
ImplementsRequestReply == RR!FairSpec

\* Heartbeats heal the pattern: after the last crash or late heartbeat, of the
\* broker or of workers, every worker that runs is registered for good.
Healing ==
  \A w \in Workers :
    <>[](wstate[w] # "dead") => <>[](wstate[w] # "dead" /\ Id(w) \in broker.workers)
=============================================================================
