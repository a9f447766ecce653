------------------------------- MODULE Clone -------------------------------
(***************************************************************************)
(* The replicated key-value store of the guide's last clone example: two   *)
(* servers under the Binary Star reactor (clonesrv6.c over bstar.c), the   *)
(* agent of a reading client (clone.c), and a writing client that sends    *)
(* every update to both servers.  The store with one server that collects  *)
(* updates (clonesrv5.c; clonesrv4.c and clonesrv3.c, which know no time   *)
(* to live) is kind "single", the one that makes them itself (clonesrv2.c) *)
(* kind "feed", both with a client that reads.  The two echo services,     *)
(* which run under the reactor, are the other kinds.                       *)
(*                                                                         *)
(* Every update is for a key of its own, so a key-value map is what it     *)
(* says of each update: never stored, held, or deleted since ("gone" is an *)
(* entry the hash does not have, kept to tell the history).                *)
(***************************************************************************)
EXTENDS BinaryStar, Sequences, SequencesExt

CONSTANTS
  MaxUpdates,  \* bound: updates the writer sends
  MaxMoves,    \* bound: how often the agent gives a server up
  Ephemeral    \* updates with a time to live

ASSUME CloneAssumption == MaxUpdates \in Nat /\ MaxMoves \in Nat /\ Ephemeral \subseteq 1 .. MaxUpdates

Updates == 1 .. MaxUpdates
Empty == [u \in Updates |-> "none"]
Store(map, m) == [map EXCEPT ![m.u] = IF m.del THEN "gone" ELSE "held"]
Held(map) == {u \in Updates : map[u] = "held"}

\* What the messages at the positions I of a list make of a map: of those about one
\* update the last decides.
Apply(map, ms, I) ==
  [u \in Updates |->
     LET about == {i \in I : ms[i].u = u} IN
     IF about = {} THEN map[u] ELSE IF ms[Max(about)].del THEN "gone" ELSE "held"]

VARIABLES
  sets,       \* updates the writer has sent
  collector,  \* [Servers -> Seq(Updates)], updates not yet collected
  mapped,     \* servers whose kvmap is not NULL
  kvmap,      \* [Servers -> [Updates -> {"none", "held", "gone"}]]
  sequence,   \* [Servers -> Nat]
  pending,    \* [Servers -> Seq([u, del])]
  feed,       \* [Servers -> Seq(message)], published by the peer; u = 0 is HUGZ
  asks,       \* [Servers -> SUBSET Askers], snapshot requests not yet read
  snap,       \* [Servers -> SUBSET snapshot], the reply to a server's request
  mode, at,   \* the agent's state and cur_server
  moves,
  requests,   \* [Servers -> 0 .. 2]
  replies,    \* [Servers -> Seq(snapshot)], in the agent's snapshot sockets
  afeed,      \* [Servers -> Seq(message)], in the agent's subscriber sockets
  joined,     \* servers that know the agent's subscription
  asequence, akvmap,
  got,        \* history: the updates a server has collected in this life
  from,       \* history: the life of the peer that gave a server its snapshot
  missed,     \* history: [Servers -> SUBSET Updates], published before the agent joined
  skewed,     \* history: servers whose sequence no longer is the peer's
  alife,      \* history: the life of the server the agent follows, 0 after something stale
  taken       \* history: [Servers -> Nat], the last number read from a server's updates

storeVars == <<mapped, kvmap, sequence, pending, got, from, skewed>>
netVars == <<sets, collector, feed, asks, snap>>
agentVars == <<mode, at, moves, requests, asequence, akvmap, alife, taken>>
news == <<afeed, missed>>
sockVars == <<replies, joined, news>>
cloneVars == <<storeVars, netVars, agentVars, sockVars>>
allVars == <<vars, cloneVars>>

Readers == {"reader"} \cup Singles

\* Who may have asked a server: its peer, and the agent once or, bound, twice.
Askers == {"peer", "agent", "again"}

ToServers(x) == [s \in Servers |-> x]

CloneInit ==
  /\ Init
  /\ sets = 0 /\ collector = ToServers(<<>>)
  /\ mapped = {"p"} /\ kvmap = ToServers(Empty) /\ sequence = ToServers(0)
  /\ pending = ToServers(<<>>) /\ feed = ToServers(<<>>)
  /\ asks = ToServers({}) /\ snap = ToServers({})
  /\ mode = "INITIAL" /\ at = "p" /\ moves = 0 /\ requests = ToServers(0)
  /\ replies = ToServers(<<>>) /\ afeed = ToServers(<<>>)
  /\ joined = (IF kind = "reader" THEN Servers ELSE {}) /\ missed = ToServers({})
  /\ asequence = 0 /\ akvmap = Empty
  /\ got = ToServers({}) /\ from = ToServers(0) /\ skewed = {} /\ alife = 0
  /\ taken = ToServers(0)

-----------------------------------------------------------------------------
(* What the handlers of a server do                                        *)

Message(s, n, p) == [n |-> n, u |-> p.u, del |-> p.del, life |-> life[s]]

\* To the clients.  A subscription that has not reached the publisher gets nothing.
Broadcast(s, ms) ==
  IF s \in joined
  THEN afeed' = [afeed EXCEPT ![s] = @ \o ms] /\ UNCHANGED missed
  ELSE /\ missed' = IF kind \in Readers
                    THEN [missed EXCEPT ![s] = @ \cup {m.u : m \in ToSet(ms)}] ELSE missed
       /\ UNCHANGED afeed

\* An active server has stopped reading its subscriber for good.  A server that runs gets
\* everything: its SUB socket, which reconnects in the background, is taken to be back
\* before a restarted peer publishes (clonesrv6.c:99-102).
Publish(s, ms) ==
  /\ feed' = [feed EXCEPT ![Peer(s)] =
                IF Up(Peer(s)) /\ state[Peer(s)] # "ACTIVE" THEN @ \o ms ELSE @]
  /\ Broadcast(s, ms)

\* What is left when the process of s has ended; p starts with an empty map.
Gone(s) ==
  /\ mapped' = IF s = "p" THEN mapped \cup {s} ELSE mapped \ {s}
  /\ kvmap' = [kvmap EXCEPT ![s] = Empty]
  /\ sequence' = [sequence EXCEPT ![s] = 0]
  /\ pending' = [pending EXCEPT ![s] = <<>>]
  /\ got' = [got EXCEPT ![s] = {}]
  /\ from' = [from EXCEPT ![s] = 0]
  /\ skewed' = skewed \ {s}
  /\ collector' = [collector EXCEPT ![s] = <<>>]
  /\ feed' = [feed EXCEPT ![s] = <<>>]
  /\ asks' = [asks EXCEPT ![s] = {}, ![Peer(s)] = @ \ {"peer"}]
  /\ snap' = [snap EXCEPT ![s] = {}]
  /\ joined' = joined \ {s}
  /\ missed' = [missed EXCEPT ![s] = {}]
  /\ UNCHANGED <<sets, replies, afeed>>

\* Slip: the pending updates are dropped at the failover.
NewActiveClearing(s) ==
  /\ pending' = [pending EXCEPT ![s] = <<>>]
  /\ feed' = [feed EXCEPT ![s] = <<>>]
  /\ UNCHANGED <<mapped, kvmap, sequence, news, got, from, skewed>>

\* Every pending update gets the next sequence number, is published and stored.
NewActive(s) ==
  LET ms == [i \in DOMAIN pending[s] |-> Message(s, sequence[s] + i, pending[s][i])] IN
  /\ sequence' = [sequence EXCEPT ![s] = @ + Len(pending[s])]
  /\ kvmap' = [kvmap EXCEPT ![s] = Apply(@, pending[s], DOMAIN pending[s])]
  /\ pending' = [pending EXCEPT ![s] = <<>>]
  /\ feed' = [feed EXCEPT ![s] = <<>>,
                          ![Peer(s)] = IF Up(Peer(s)) THEN @ \o ms ELSE @]
  /\ Broadcast(s, ms)
  /\ UNCHANGED <<mapped, got, from, skewed>>

NewPassive(s) ==
  /\ mapped' = mapped \ {s}
  /\ kvmap' = [kvmap EXCEPT ![s] = Empty]
  /\ UNCHANGED <<sequence, pending, feed, news, got, from, skewed>>

\* The state change handlers run where the state machine changes the state.
StateHandlers(s) ==
  IF state'[s] = state[s] THEN UNCHANGED <<storeVars, feed, news>>
  ELSE IF state'[s] = "ACTIVE" THEN NewActive(s) ELSE NewPassive(s)

\* s_was_pending: the first held update with that uuid is removed, else this one is held.
With(list, p) ==
  IF \E q \in ToSet(list) : q.u = p.u
  THEN RemoveFirstMatch(list, LAMBDA q : q.u = p.u)
  ELSE Append(list, p)

-----------------------------------------------------------------------------
(* The reactor of the pair under the clone servers                         *)

CloneSendState(s) == SendState(s) /\ UNCHANGED cloneVars
CloneExpire(s) == Expire(s) /\ UNCHANGED cloneVars
CloneCrash(s) == Crash(s) /\ Gone(s) /\ UNCHANGED agentVars
CloneRestart(s) == Restart(s) /\ UNCHANGED cloneVars

\* A call on a NULL kvmap fails an assertion of the hash: the walk for a snapshot
\* (clonesrv6.c:184), the store of an update (239) and of the pending ones (328), all of a
\* server that became active before it was given a map, or after s_new_passive (339).
Abort(s) ==
  /\ Die(s) /\ Gone(s)
  /\ UNCHANGED <<kind, expired, clientVars, life, late, agentVars>>

CloneRecvState(s) ==
  /\ Runs(s)
  /\ \E event \in inbox[s] :
       IF Exception(state[s], event, FALSE)
       THEN RecvState(s) /\ Gone(s) /\ UNCHANGED agentVars
       ELSE IF Heard(s, event) = "ACTIVE" /\ s \notin mapped /\ pending[s] # <<>>
            THEN Abort(s)
            ELSE /\ RecvState(s) /\ StateHandlers(s)
                 /\ UNCHANGED <<sets, collector, asks, snap, agentVars, replies, joined>>

\* s_voter_ready and s_snapshots
Snapshots(s, who) ==
  /\ who \in asks[s] /\ Runs(s)
  /\ IF Accepts(s) /\ s \notin mapped THEN Abort(s)
     ELSE LET shot == [kv |-> kvmap'[s], n |-> sequence'[s], life |-> life[s]] IN
          /\ Vote(s) /\ StateHandlers(s)
          /\ asks' = [asks EXCEPT ![s] = @ \ {who}]
          /\ snap' = IF Accepts(s) /\ who = "peer" THEN [snap EXCEPT ![Peer(s)] = {shot}]
                     ELSE snap
          /\ replies' = IF Accepts(s) /\ who # "peer"
                        THEN [replies EXCEPT ![s] = Append(@, shot)] ELSE replies
          /\ UNCHANGED <<clientVars, sets, collector, agentVars, joined>>

-----------------------------------------------------------------------------
(* The handlers of the clone server                                        *)

Collector(s) ==
  /\ Runs(s) /\ collector[s] # <<>>
  /\ LET m == [u |-> Head(collector[s]), del |-> FALSE] IN
     IF state[s] = "ACTIVE" /\ s \notin mapped THEN Abort(s)
     ELSE /\ collector' = [collector EXCEPT ![s] = Tail(@)]
          /\ got' = [got EXCEPT ![s] = @ \cup {m.u}]
          /\ IF state[s] = "ACTIVE"
             THEN /\ sequence' = [sequence EXCEPT ![s] = @ + 1]
                  /\ Publish(s, <<Message(s, sequence[s] + 1, m)>>)
                  /\ kvmap' = [kvmap EXCEPT ![s] = Store(@, m)]
                  /\ UNCHANGED pending
             ELSE /\ pending' = [pending EXCEPT ![s] = With(@, m)]
                  /\ UNCHANGED <<sequence, kvmap, feed, news>>
          /\ UNCHANGED <<vars, mapped, from, skewed, sets, asks, snap, agentVars, replies, joined>>

\* s_flush_ttl.  A passive server has stored the time to live as it came, relative, which
\* is always overdue, and it flushes, too.
FlushTtl(s) ==
  \E u \in Held(kvmap[s]) \cap Ephemeral :
    LET m == [u |-> u, del |-> TRUE] IN
    /\ Runs(s) /\ s \in mapped
    /\ sequence' = [sequence EXCEPT ![s] = @ + 1]
    /\ Publish(s, <<Message(s, sequence[s] + 1, m)>>)
    /\ kvmap' = [kvmap EXCEPT ![s] = Store(@, m)]
    /\ skewed' = IF state[s] = "PASSIVE" THEN skewed \cup {s} ELSE skewed
    /\ UNCHANGED <<vars, mapped, pending, got, from, sets, collector, asks, snap,
                   agentVars, replies, joined>>

\* Bound: only a HUGZ that can make the peer ask for a snapshot is kept.
SendHugz(s) ==
  /\ Runs(s) /\ Up(Peer(s))
  /\ state[Peer(s)] # "ACTIVE" /\ feed[Peer(s)] = <<>>
  /\ Peer(s) \notin mapped \/ state[Peer(s)] = "PRIMARY"
  /\ feed' = [feed EXCEPT ![Peer(s)] =
                <<Message(s, sequence[s], [u |-> 0, del |-> FALSE])>>]
  /\ UNCHANGED <<vars, storeVars, sets, collector, asks, snap, agentVars, sockVars>>

\* Slip: the passive server counts the messages itself.
SubscribeCounting(s, map, n, src) ==
  LET m == Head(feed[s])
      p == [u |-> m.u, del |-> m.del]
      fresh == m.u # 0 /\ m.n > n
  IN /\ feed' = [feed EXCEPT ![s] = Tail(@)]
     /\ pending' = [pending EXCEPT ![s] = IF m.u = 0 THEN @ ELSE With(@, p)]
     /\ kvmap' = [kvmap EXCEPT ![s] = IF fresh THEN Store(map, p) ELSE map]
     /\ sequence' = [sequence EXCEPT ![s] = IF m.u # 0 THEN n + 1 ELSE n]
     /\ skewed' = IF m.u # 0 /\ m.life # src THEN skewed \cup {s} ELSE skewed
     /\ from' = [from EXCEPT ![s] = src]
     /\ UNCHANGED <<mapped, got, sets, collector, asks, agentVars, sockVars>>

\* One message of the peer, on top of the map and the sequence number given.
Subscribe(s, map, n, src) ==
  LET m == Head(feed[s])
      p == [u |-> m.u, del |-> m.del]
      fresh == m.u # 0 /\ m.n > n
  IN /\ feed' = [feed EXCEPT ![s] = Tail(@)]
     /\ pending' = [pending EXCEPT ![s] = IF m.u = 0 THEN @ ELSE With(@, p)]
     /\ kvmap' = [kvmap EXCEPT ![s] = IF fresh THEN Store(map, p) ELSE map]
     /\ sequence' = [sequence EXCEPT ![s] = IF fresh THEN m.n ELSE n]
     /\ skewed' = IF m.u # 0 /\ m.life # src THEN skewed \cup {s} ELSE skewed
     /\ from' = [from EXCEPT ![s] = src]
     /\ UNCHANGED <<mapped, got, sets, collector, asks, agentVars, sockVars>>

\* s_subscriber: without a map the server first asks its peer for a snapshot, and waits.
AskSnapshot(s) ==
  /\ Runs(s) /\ state[s] = "PASSIVE" /\ feed[s] # <<>> /\ s \notin mapped
  /\ mapped' = mapped \cup {s}
  /\ stuck' = stuck \cup {s}
  /\ asks' = [asks EXCEPT ![Peer(s)] = @ \cup {"peer"}]
  /\ UNCHANGED <<kind, state, inbox, expired, clientVars, life, late, kvmap, sequence,
                 pending, got, from, skewed, sets, collector, feed, snap, agentVars, sockVars>>

SnapshotArrives(s) ==
  \E shot \in snap[s] :
    /\ s \in stuck
    /\ stuck' = stuck \ {s}
    /\ snap' = [snap EXCEPT ![s] = {}]
    /\ Subscribe(s, shot.kv, shot.n, shot.life)
    /\ UNCHANGED <<kind, state, inbox, expired, clientVars, life, late>>

Subscriber(s) ==
  /\ Runs(s) /\ state[s] = "PASSIVE" /\ feed[s] # <<>> /\ s \in mapped
  /\ Subscribe(s, kvmap[s], sequence[s], from[s])
  /\ UNCHANGED <<vars, snap>>

-----------------------------------------------------------------------------
(* The clients                                                             *)

\* clone_set, at the writer: both servers get the update, a dead one never does.
Set ==
  /\ sets < MaxUpdates
  /\ sets' = sets + 1
  /\ collector' = [s \in Servers |-> IF Up(s) THEN Append(collector[s], sets + 1)
                                     ELSE collector[s]]
  /\ UNCHANGED <<vars, storeVars, feed, asks, snap, agentVars, sockVars>>

\* A request to a server that is down waits until it is back.  Two that are not yet read
\* are told apart; there is no third (clone.c:316).
Ask(s) ==
  /\ at' = s /\ mode' = "SYNCING"
  /\ IF requests[s] < 2
     THEN /\ asks' = [asks EXCEPT ![s] = @ \cup {IF "agent" \in @ THEN "again" ELSE "agent"}]
          /\ requests' = [requests EXCEPT ![s] = @ + 1]
     ELSE UNCHANGED <<asks, requests>>
  /\ UNCHANGED <<vars, storeVars, sets, collector, feed, snap, asequence, akvmap, alife, taken,
                 sockVars>>

\* The connection of a subscriber is made in the background (bound: with two servers it is
\* there from the start).
AgentJoins(s) ==
  /\ kind \in Singles /\ Up(s) /\ s \notin joined
  /\ joined' = joined \cup {s}
  /\ UNCHANGED <<vars, storeVars, netVars, agentVars, replies, news>>

AgentConnect == mode = "INITIAL" /\ Ask(at) /\ UNCHANGED moves

\* Slip: the agent keeps its own sequence number.
AgentSnapshotUnnumbered ==
  /\ mode = "SYNCING" /\ replies[at] # <<>>
  /\ LET shot == Head(replies[at]) IN
     /\ akvmap' = [u \in Updates |-> IF u \in Held(shot.kv) THEN "held" ELSE akvmap[u]]
     /\ alife' = shot.life
  /\ mode' = "ACTIVE"
  /\ requests' = [requests EXCEPT ![at] = 0]
  /\ replies' = [replies EXCEPT ![at] = Tail(@)]
  /\ UNCHANGED <<vars, storeVars, netVars, at, moves, taken, asequence, afeed, joined, missed>>

AgentSnapshot ==
  /\ mode = "SYNCING" /\ replies[at] # <<>>
  /\ LET shot == Head(replies[at]) IN
     /\ akvmap' = [u \in Updates |-> IF u \in Held(shot.kv) THEN "held" ELSE akvmap[u]]
     /\ asequence' = shot.n
     /\ alife' = IF shot.n < taken[at] THEN 0 ELSE shot.life
     /\ missed' = [missed EXCEPT ![at] = {u \in @ : shot.kv[u] = "none"}]
  /\ mode' = "ACTIVE"
  /\ requests' = [requests EXCEPT ![at] = 0]
  /\ replies' = [replies EXCEPT ![at] = Tail(@)]
  /\ UNCHANGED <<vars, storeVars, netVars, at, moves, taken, afeed, joined>>

AgentUpdate ==
  /\ mode = "ACTIVE" /\ afeed[at] # <<>>
  /\ LET m == Head(afeed[at]) IN
     IF m.n > asequence
     THEN /\ asequence' = m.n
          /\ akvmap' = Store(akvmap, m)
          /\ alife' = IF m.life = alife THEN alife ELSE 0
     ELSE UNCHANGED <<asequence, akvmap, alife>>
  /\ taken' = [taken EXCEPT ![at] = Head(afeed[at]).n]
  /\ afeed' = [afeed EXCEPT ![at] = Tail(@)]
  /\ UNCHANGED <<vars, storeVars, netVars, mode, at, moves, requests, replies, joined,
                 missed>>

\* Nothing came in time (a subtree keeps HUGZ out, so this can be any server): the
\* agent asks the other one.
AgentFailover ==
  /\ \/ mode = "SYNCING" /\ replies[at] = <<>>
     \/ mode = "ACTIVE" /\ afeed[at] = <<>>
  /\ moves < MaxMoves /\ moves' = moves + 1
  /\ Ask(Peer(at))

-----------------------------------------------------------------------------

ServerStep(s) ==
  \/ CloneSendState(s) \/ CloneRecvState(s) \/ CloneExpire(s)
  \/ CloneCrash(s) \/ CloneRestart(s)
  \/ \E who \in Askers : Snapshots(s, who)
  \/ Collector(s) \/ FlushTtl(s) \/ SendHugz(s)
  \/ AskSnapshot(s) \/ SnapshotArrives(s) \/ Subscriber(s)

AgentStep == AgentConnect \/ AgentSnapshot \/ AgentUpdate \/ AgentFailover

\* The handlers of the single server are those of an active one.
Snapshots5 == Snapshots("p", "agent")
Collector5 == Collector("p")
FlushTtl5 == FlushTtl("p")

\* clonesrv4.c, and clonesrv3.c but for the subtree: no value has a time to live.
Clonesrv4 == Snapshots5 \/ Collector5
Clonesrv5 == Clonesrv4 \/ FlushTtl5

\* clonesrv2.c makes its updates itself: it publishes each one and passes it on, in a
\* pipe, to the thread that keeps the map.
Distribute ==
  /\ sets < MaxUpdates
  /\ sets' = sets + 1
  /\ Broadcast("p", <<Message("p", sets + 1, [u |-> sets + 1, del |-> FALSE])>>)
  /\ collector' = [collector EXCEPT !["p"] = Append(@, sets + 1)]
  /\ UNCHANGED <<vars, storeVars, feed, asks, snap, agentVars, replies, joined>>

\* The thread numbers its map by the last update it has taken.
StateManager ==
  \/ Snapshots("p", "agent")
  \/ /\ collector["p"] # <<>>
     /\ LET u == Head(collector["p"]) IN
        /\ kvmap' = [kvmap EXCEPT !["p"] = Store(@, [u |-> u, del |-> FALSE])]
        /\ sequence' = [sequence EXCEPT !["p"] = u]
        /\ got' = [got EXCEPT !["p"] = @ \cup {u}]
     /\ collector' = [collector EXCEPT !["p"] = Tail(@)]
     /\ UNCHANGED <<vars, mapped, pending, from, skewed, sets, feed, asks, snap, agentVars,
                    sockVars>>

\* The client of both asks once, and then stays with the updates; from clonecli3.c on it
\* makes them, too.
Clonecli2 == AgentConnect \/ AgentSnapshot \/ AgentUpdate
Clonecli4 == Clonecli2 \/ Set
Clonecli5 == Clonecli4

Next ==
  \/ PairNext /\ UNCHANGED cloneVars
  \/ kind \in {"clone", "reader"} /\ (Set \/ \E s \in Servers : ServerStep(s))
  \/ kind = "reader" /\ AgentStep
  \/ kind = "single" /\ (Clonesrv5 \/ Clonecli5)
  \/ kind = "feed" /\ (Distribute \/ StateManager \/ Clonecli2)
  \/ \E s \in Servers : AgentJoins(s)

Spec == CloneInit /\ [][Next]_allVars /\ PairFairness

-----------------------------------------------------------------------------
(* Properties *)

Messages == [n : Nat, u : 0 .. MaxUpdates, del : BOOLEAN, life : Nat]
Maps == [Updates -> {"none", "held", "gone"}]
Shots == [kv : Maps, n : Nat, life : Nat]

\* Every variable keeps its type, only a passive server waits for a snapshot, the one it
\* waits for is on its way at most once, and no map says that an update of the future is
\* held (clonesrv6.c:29, clone.c:193).
TypeOK ==
  /\ kind \in Kinds /\ state \in [Servers -> States \cup {"down"}]
  /\ inbox \in [Servers -> SUBSET States] /\ expired \in [Servers -> BOOLEAN]
  /\ cur \in Servers /\ asked \subseteq Servers /\ answered \in BOOLEAN
  /\ life \in [Servers -> 1 .. MaxRestarts + 1] /\ late \in 0 .. MaxLate
  /\ \A s \in stuck : state[s] = "PASSIVE" /\ s \in mapped
  /\ sets \in 0 .. MaxUpdates /\ mapped \subseteq Servers
  /\ collector \in [Servers -> Seq(Updates)] /\ sequence \in [Servers -> Nat]
  /\ kvmap \in [Servers -> Maps] /\ akvmap \in Maps /\ asequence \in Nat
  /\ \A s \in Servers :
       /\ pending[s] \in Seq([u : Updates, del : BOOLEAN])
       /\ feed[s] \in Seq(Messages) /\ afeed[s] \in Seq(Messages)
       /\ asks[s] \subseteq Askers /\ replies[s] \in Seq(Shots)
       /\ IsFiniteSet(snap[s]) /\ snap[s] \subseteq Shots /\ requests[s] \in 0 .. 2
       /\ Cardinality(snap[s]) + Cardinality(asks[Peer(s)] \cap {"peer"}) <= 1
       /\ Held(kvmap[s]) \subseteq 1 .. sets /\ got[s] \subseteq 1 .. sets
  /\ mode \in {"INITIAL", "SYNCING", "ACTIVE"} /\ at \in Servers
  /\ \A s \in joined : Up(s)
  /\ missed \in [Servers -> SUBSET (1 .. sets)]

\* clonesrv6.c:310, "we apply our pending list so that our kvmap is up-to-date": whatever
\* a server has collected is in its map, was deleted there, or is pending until it
\* takes over, in every interleaving of the clients' copies with the peer's, unless
\* its sequence number went astray (a flush at a passive server, a restarted peer).
NothingLost ==
  \A s \in Servers \ (skewed \cup stuck) : \A u \in got[s] :
    kvmap[s][u] # "none" \/ \E p \in ToSet(pending[s]) : p.u = u

\* The maps, lists and sequence numbers of the servers (clonesrv6.c:26-40) belong together.
StoresConsistent == TypeOK /\ NothingLost

\* What the messages on their way make of a map, given the sequence number.
After(map, n, ms) == Apply(map, ms, {i \in DOMAIN ms : ms[i].n > n})

\* A passive server that has its snapshot from the active one, neither having restarted
\* since, and that has flushed nothing lacks no value of the active server's map but
\* those on their way to it (clonesrv6.c:380-398).
PassiveFollows ==
  \A s \in Servers \ (skewed \cup stuck) :
    state[s] = "PASSIVE" /\ s \in mapped
    /\ state[Peer(s)] = "ACTIVE" /\ from[s] = life[Peer(s)]
    => Held(kvmap[Peer(s)]) \subseteq Held(After(kvmap[s], sequence[s], feed[s]))

\* An agent in STATE_ACTIVE at a server that has not restarted since the snapshot, and
\* that has taken no update of an earlier life and no snapshot older than the updates it
\* has read (the reply to a second request waits until the agent comes back, clone.c:316),
\* lacks no value of that server but those on their way to it and those published after
\* its snapshot was taken and before its subscription arrived (clone.c:364-399,
\* clonecli5.c:26-62, clonesrv2.c:28).
AgentFollows ==
  mode = "ACTIVE" /\ Up(at) /\ alife = life[at]
    => Held(kvmap[at]) \ missed[at] \subseteq Held(After(akvmap, asequence, afeed[at]))
=============================================================================
