----------------------------- MODULE CloneProofs -----------------------------
(***************************************************************************)
(* Four things are proved for every number of updates, moves, restarts and *)
(* late deadlines, in each of the programs that run the pair: it never     *)
(* splits, a server loses nothing that it has collected, a passive server  *)
(* has what the active one has published, and so has a client that reads.  *)
(*                                                                         *)
(* Two states alone do not say that the pair is whole: whether the backup  *)
(* may take over also depends on what the primary has on its way, and on   *)
(* whether that was sent in an earlier life.  IInv ties the three          *)
(* together.  That nothing is lost depends on the messages between the     *)
(* two: what the peer has published and a snapshot includes, what is still *)
(* on its way, and what the server holds back.  StoreInv ties those.       *)
(* That a server follows depends on the numbers too: which of the messages *)
(* that are on their way its map is too new for, and in which life of the  *)
(* peer each was published.  FollowInv adds those to the other two.        *)
(* A client that reads has one more source: snapshots that have become old *)
(* while they were on their way.  ReadInv says what they still lack.       *)
(***************************************************************************)
EXTENDS Clone, SequenceTheorems, FiniteSetTheorems, WellFoundedInduction, TLAPS

\* The states that a server sends in its life, up to the one that it is in.  A dead
\* server may have sent any of them.
Was(s) ==
  CASE state[s] = Start(s) -> {Start(s)}
    [] state[s] = "PASSIVE" -> {Start(s), "PASSIVE"}
    [] OTHER -> {Start(s), "PASSIVE", "ACTIVE"}

PairTypes ==
  /\ kind \in Kinds /\ late \in Nat
  /\ state \in [Servers -> States \cup {"down"}]
  /\ inbox \in [Servers -> SUBSET States]
  /\ expired \in [Servers -> BOOLEAN]

\* What a dead server has not read is lost, and no server ends as the other begins.
DeadOK(s) ==
  /\ state[s] \in {Start(s), "PASSIVE", "ACTIVE", "down"}
  /\ state[s] = "down" => inbox[s] = {}

\* A server hears of this life of its peer, or of the last one.
NewsOK(s) == inbox[s] \subseteq Was(Peer(s))

\* A server gives way to its peer for as long as that one is active, ...
PassiveOK(s) ==
  state[s] = "PASSIVE" =>
    /\ state[Peer(s)] # "PASSIVE"
    /\ state[Peer(s)] = "ACTIVE" => inbox[s] \subseteq {"ACTIVE"} /\ ~expired[s]

\* ... and has told a peer that starts again nothing else.
RestartedOK(s) ==
  state[s] = Start(s) /\ state[Peer(s)] = "PASSIVE" =>
    /\ inbox[s] \subseteq {"PASSIVE"}
    /\ kind # "poc" => ~expired[s]

\* A primary that starts again beside an active backup does not become active.
PrimaryOK ==
  state["p"] = "PRIMARY" /\ state["b"] = "ACTIVE" =>
    /\ "BACKUP" \notin inbox["p"]
    /\ kind # "poc" => ~expired["p"]

Sound ==
  /\ \A s \in Servers : NewsOK(s) /\ PassiveOK(s) /\ RestartedOK(s)
  /\ PrimaryOK
  /\ \E s \in Servers : state[s] # "ACTIVE"

\* Once a deadline was late the pair may be split.
IInv == PairTypes /\ (\A s \in Servers : DeadOK(s)) /\ (late = 0 => Sound)

\* The two servers.
LEMMA PeerFacts ==
  /\ Servers = {"p", "b"}
  /\ Peer("p") = "b" /\ Peer("b") = "p" /\ Start("p") = "PRIMARY" /\ Start("b") = "BACKUP"
  BY DEF Servers, Peer, Start

LEMMA PairInit == CloneInit => IInv
  <1> SUFFICES ASSUME CloneInit PROVE IInv
    OBVIOUS
  <1> USE PeerFacts DEF CloneInit, Init, First, Singles, Pairs, Kinds, States
  <1>1. PairTypes
    BY DEF PairTypes, Unheard
  <1>2. \A s \in Servers : DeadOK(s)
    BY DEF DeadOK
  <1>3. Sound
    BY DEF Sound, NewsOK, PassiveOK, RestartedOK, PrimaryOK
  <1> QED BY <1>1, <1>2, <1>3 DEF IInv

LEMMA SendKeeps ==
  ASSUME IInv, NEW s \in Servers, SendState(s)
  PROVE  IInv'
  <1> USE PeerFacts DEF IInv, SendState, Runs, Up, DeadOK, PairTypes, States
  <1>1. PairTypes'
    OBVIOUS
  <1>2. (\A r \in Servers : DeadOK(r))'
    OBVIOUS
  <1>3. ASSUME late' = 0 PROVE Sound'
    BY <1>3 DEF Sound, NewsOK, PassiveOK, RestartedOK, PrimaryOK, Was
  <1> QED BY <1>1, <1>2, <1>3

LEMMA RecvKeeps ==
  ASSUME IInv, NEW s \in Servers, RecvState(s)
  PROVE  IInv'
  <1> USE PeerFacts DEF IInv, RecvState, Runs, Up, DeadOK, PairTypes, States, Die, Heard,
          Move, Exception
  <1>1. PairTypes'
    <2>1. PICK event \in inbox[s] :
            /\ IF Exception(state[s], event, FALSE)
               THEN Die(s) /\ UNCHANGED expired
               ELSE /\ inbox' = [inbox EXCEPT ![s] = {}]
                    /\ state' = [state EXCEPT ![s] = Move(state[s], event, FALSE)]
                    /\ expired' = [expired EXCEPT ![s] = FALSE]
            /\ UNCHANGED <<kind, late>>
      OBVIOUS
    <2>2. CASE Exception(state[s], event, FALSE)
      BY <2>1, <2>2
    <2>3. CASE ~Exception(state[s], event, FALSE)
      <3>1. Move(state[s], event, FALSE) \in States \cup {"down"}
        OBVIOUS
      <3> HIDE DEF Move, Exception, RecvState
      <3>2. state' \in [Servers -> States \cup {"down"}]
        BY <2>1, <2>3, <3>1
      <3>3. inbox' \in [Servers -> SUBSET States]
        BY <2>1, <2>3
      <3>4. expired' \in [Servers -> BOOLEAN]
        BY <2>1, <2>3
      <3> QED BY <2>1, <3>2, <3>3, <3>4
    <2> QED BY <2>2, <2>3
  <1>2. (\A r \in Servers : DeadOK(r))'
    OBVIOUS
  <1>3. ASSUME late' = 0 PROVE Sound'
    BY <1>3 DEF Sound, NewsOK, PassiveOK, RestartedOK, PrimaryOK, Was
  <1> QED BY <1>1, <1>2, <1>3

LEMMA VoteKeeps ==
  ASSUME IInv, NEW s \in Servers, Vote(s)
  PROVE  IInv'
  <1> USE PeerFacts DEF IInv, Vote, Runs, Up, DeadOK, PairTypes, States, Move
  <1>1. PairTypes'
    OBVIOUS
  <1>2. (\A r \in Servers : DeadOK(r))'
    OBVIOUS
  <1>3. ASSUME late' = 0 PROVE Sound'
    BY <1>3 DEF Sound, NewsOK, PassiveOK, RestartedOK, PrimaryOK, Was
  <1> QED BY <1>1, <1>2, <1>3

LEMMA ExpireKeeps ==
  ASSUME IInv, NEW s \in Servers, Expire(s)
  PROVE  IInv'
  <1> USE PeerFacts DEF IInv, Expire, Up, DeadOK, PairTypes, States
  <1>1. PairTypes'
    OBVIOUS
  <1>2. (\A r \in Servers : DeadOK(r))'
    OBVIOUS
  <1>3. ASSUME late' = 0 PROVE Sound'
    BY <1>3 DEF Sound, NewsOK, PassiveOK, RestartedOK, PrimaryOK, Was
  <1> QED BY <1>1, <1>2, <1>3

LEMMA DieKeeps ==
  ASSUME IInv, NEW s \in Servers, Die(s), UNCHANGED <<kind, expired, late>>
  PROVE  IInv'
  <1> USE PeerFacts DEF IInv, Die, DeadOK, PairTypes, States
  <1>1. PairTypes'
    OBVIOUS
  <1>2. (\A r \in Servers : DeadOK(r))'
    OBVIOUS
  <1>3. ASSUME late' = 0 PROVE Sound'
    <2>1. late = 0 /\ Sound
      BY <1>3
    <2>2. state'[s] = "down" /\ inbox'[s] = {} /\ state'[Peer(s)] = state[Peer(s)]
          /\ inbox'[Peer(s)] = inbox[Peer(s)]
      OBVIOUS
    <2>3. ASSUME NEW r \in Servers PROVE NewsOK(r)'
      BY <2>1, <2>2 DEF Sound, NewsOK, Was
    <2>4. ASSUME NEW r \in Servers PROVE PassiveOK(r)' /\ RestartedOK(r)'
      BY <2>1, <2>2 DEF Sound, PassiveOK, RestartedOK
    <2>5. PrimaryOK' /\ \E r \in Servers : state'[r] # "ACTIVE"
      BY <2>1, <2>2 DEF PrimaryOK
    <2> QED BY <2>3, <2>4, <2>5 DEF Sound
  <1> QED BY <1>1, <1>2, <1>3

LEMMA RestartKeeps ==
  ASSUME IInv, NEW s \in Servers, Restart(s)
  PROVE  IInv'
  <1> USE PeerFacts DEF IInv, Restart, Up, DeadOK, PairTypes, States, Unheard
  <1>1. PairTypes'
    OBVIOUS
  <1>2. (\A r \in Servers : DeadOK(r))'
    OBVIOUS
  <1>3. ASSUME late' = 0 PROVE Sound'
    <2>1. late = 0 /\ Sound /\ inbox[Peer(s)] = {} /\ inbox[s] = {}
      BY <1>3
    <2>2. state'[s] = Start(s) /\ expired'[s] = (kind = "poc") /\ inbox' = inbox
          /\ state'[Peer(s)] = state[Peer(s)] /\ expired'[Peer(s)] = expired[Peer(s)]
      OBVIOUS
    <2>3. ASSUME NEW r \in Servers PROVE NewsOK(r)'
      BY <2>1, <2>2 DEF Sound, NewsOK, Was
    <2>4. ASSUME NEW r \in Servers PROVE PassiveOK(r)' /\ RestartedOK(r)'
      <3>1. PassiveOK(r)'
        BY <2>1, <2>2 DEF Sound, PassiveOK, RestartedOK
      <3>2. RestartedOK(r)'
        <4>1. CASE r = s
          BY <2>1, <2>2, <4>1 DEF RestartedOK
        <4>2. CASE r # s
          BY <2>1, <2>2, <4>2 DEF RestartedOK
        <4> QED
          BY <4>1, <4>2
      <3> QED BY <3>1, <3>2
    <2>5. PrimaryOK' /\ \E r \in Servers : state'[r] # "ACTIVE"
      BY <2>1, <2>2 DEF PrimaryOK
    <2> QED BY <2>3, <2>4, <2>5 DEF Sound
  <1> QED BY <1>1, <1>2, <1>3

\* The rest of the program leaves the pair as it is.
Beside == UNCHANGED <<kind, state, inbox, expired, late>>

LEMMA BesideKeeps == IInv /\ Beside => IInv'
  BY DEF Beside, IInv, PairTypes, DeadOK, Sound, NewsOK, PassiveOK, RestartedOK, PrimaryOK, Was

\* Every step of every program is one of the pair, or beside it.
PairStep(s) ==
  \/ SendState(s) \/ RecvState(s) \/ Vote(s) \/ Expire(s) \/ Restart(s)
  \/ Die(s) /\ UNCHANGED <<kind, expired, late>>

LEMMA PairNextSteps == PairNext => Beside \/ \E s \in Servers : PairStep(s)
  BY DEF PairNext, PairStep, Beside, Crash, ServerRequest, ClientSend, ClientFailover

LEMMA ServerSteps ==
  ASSUME NEW s \in Servers, ServerStep(s)
  PROVE  Beside \/ PairStep(s)
  <1> USE DEF PairStep, Beside, vars
  <1>1. CASE CloneSendState(s) \/ CloneExpire(s) \/ CloneRestart(s) \/ CloneCrash(s)
    BY <1>1 DEF CloneSendState, CloneExpire, CloneRestart, CloneCrash, Crash
  <1>2. CASE CloneRecvState(s)
    BY <1>2 DEF CloneRecvState, Abort
  <1>3. CASE \E who \in Askers : Snapshots(s, who)
    BY <1>3 DEF Snapshots, Abort
  <1>4. CASE Collector(s)
    BY <1>4 DEF Collector, Abort
  <1>5. CASE FlushTtl(s) \/ SendHugz(s) \/ AskSnapshot(s)
    BY <1>5 DEF FlushTtl, SendHugz, AskSnapshot
  <1>6. CASE SnapshotArrives(s) \/ Subscriber(s)
    BY <1>6 DEF SnapshotArrives, Subscriber
  <1> QED BY <1>1, <1>2, <1>3, <1>4, <1>5, <1>6 DEF ServerStep

LEMMA AgentSteps == AgentStep => Beside
  BY DEF AgentStep, AgentConnect, AgentSnapshot, AgentUpdate, AgentFailover, Ask, Beside, vars

LEMMA Steps == [Next]_allVars => Beside \/ \E s \in Servers : PairStep(s)
  <1> SUFFICES ASSUME [Next]_allVars PROVE Beside \/ \E s \in Servers : PairStep(s)
    OBVIOUS
  <1> USE DEF Beside, vars
  <1>1. CASE PairNext
    BY <1>1, PairNextSteps
  <1>2. CASE \E s \in Servers : ServerStep(s)
    BY <1>2, ServerSteps
  <1>3. CASE Set \/ Distribute \/ \E s \in Servers : AgentJoins(s)
    BY <1>3 DEF Set, Distribute, AgentJoins
  <1>4. CASE AgentStep \/ Clonecli2
    BY <1>4, AgentSteps DEF AgentStep, Clonecli2
  <1>5. CASE Clonesrv5
    <2>1. ServerStep("p")
      BY <1>5 DEF Clonesrv5, Clonesrv4, Snapshots5, Collector5, FlushTtl5, ServerStep, Askers
    <2> QED BY <2>1, ServerSteps, PeerFacts
  <1>6. CASE StateManager
    <2>1. CASE Snapshots("p", "agent")
      <3>1. ServerStep("p")
        BY <2>1 DEF ServerStep, Askers
      <3> QED BY <3>1, ServerSteps, PeerFacts
    <2> QED BY <1>6, <2>1 DEF StateManager
  <1>7. CASE UNCHANGED allVars
    BY <1>7 DEF allVars
  <1> QED BY <1>1, <1>2, <1>3, <1>4, <1>5, <1>6, <1>7 DEF Next, Clonecli5, Clonecli4

LEMMA NextKeeps == IInv /\ [Next]_allVars => IInv'
  <1> SUFFICES ASSUME IInv, [Next]_allVars PROVE IInv'
    OBVIOUS
  <1>1. CASE Beside
    BY <1>1, BesideKeeps
  <1>2. ASSUME NEW s \in Servers, PairStep(s) PROVE IInv'
    BY <1>2, SendKeeps, RecvKeeps, VoteKeeps, ExpireKeeps, DieKeeps, RestartKeeps DEF PairStep
  <1> QED BY <1>1, <1>2, Steps

\* With the reactor a passive or starting server takes a request only after its peer has
\* been silent, and an active peer has not.
LEMMA SoundIsWhole == IInv => NoSplitBrain
  <1> SUFFICES ASSUME IInv, late = 0 PROVE NoSplitBrain
    BY DEF NoSplitBrain
  <1> USE PeerFacts DEF IInv, Sound, PairTypes, DeadOK
  <1>1. \E s \in Servers : state[s] # "ACTIVE"
    OBVIOUS
  <1>2. ASSUME kind # "poc" PROVE \E s \in Servers : ~Up(s) \/ ~Accepts(s)
    BY <1>2 DEF Up, Accepts, Exception, PassiveOK, RestartedOK, PrimaryOK
  <1> QED BY <1>1, <1>2 DEF NoSplitBrain

\* bstar.c:106 and bstar.c:155: as long as a server that is up is heard in time, the two are
\* never active at once, and under the reactor they never both take a request.
THEOREM PairNeverSplits == Spec => []NoSplitBrain
  BY PairInit, NextKeeps, SoundIsWhole, PTL DEF Spec

-----------------------------------------------------------------------------
(* The stores                                                              *)

Pendings == [u : Updates, del : BOOLEAN]

CloneTypes ==
  /\ cur \in Servers /\ asked \subseteq Servers /\ answered \in BOOLEAN
  /\ late \in 0 .. MaxLate
  /\ life \in [Servers -> Nat \ {0}] /\ life["p"] + life["b"] <= 2 + MaxRestarts
  /\ sets \in 0 .. MaxUpdates
  /\ stuck \subseteq Servers /\ mapped \subseteq Servers /\ joined \subseteq Servers
  /\ collector \in [Servers -> Seq(Updates)]
  /\ kvmap \in [Servers -> Maps] /\ sequence \in [Servers -> Nat]
  /\ pending \in [Servers -> Seq(Pendings)]
  /\ feed \in [Servers -> Seq(Messages)]
  /\ snap \in [Servers -> SUBSET Shots]
  /\ asks \in [Servers -> SUBSET Askers]
  /\ got \in [Servers -> SUBSET Updates] /\ from \in [Servers -> Nat]
  /\ skewed \subseteq Servers

AgentTypes ==
  /\ mode \in {"INITIAL", "SYNCING", "ACTIVE"} /\ at \in Servers
  /\ requests \in [Servers -> 0 .. 2]
  /\ replies \in [Servers -> Seq(Shots)] /\ afeed \in [Servers -> Seq(Messages)]
  /\ asequence \in Nat /\ akvmap \in Maps
  /\ missed \in [Servers -> SUBSET Updates]
  /\ \A s \in Servers : \A u \in missed[s] : u <= sets
  /\ \A s \in joined : Up(s)

\* The updates a list is about.
About(ms) == {m.u : m \in ToSet(ms)}

\* A server without a map of its own: it has not become active or had its snapshot.
Blank(s) == state[s] \in {"PRIMARY", "BACKUP", "down"} \/ s \notin mapped \/ s \in stuck

\* The pair alone, and servers without a peer.
OthersOK ==
  /\ kind \in Pairs =>
       /\ joined = {} /\ stuck = {} /\ skewed = {}
       /\ \A s \in Servers : /\ feed[s] = <<>> /\ pending[s] = <<>> /\ collector[s] = <<>>
                             /\ kvmap[s] = Empty /\ sequence[s] = 0 /\ got[s] = {}
                             /\ asks[s] = {} /\ snap[s] = {} /\ from[s] = 0
  /\ kind \in Singles => state = [s \in Servers |-> First(s)] /\ "p" \in mapped

\* Nothing speaks of an update that has not been sent, and the collector brings the
\* updates in the order in which they were.
SentOK(s) ==
  /\ \A i \in 1 .. Len(collector[s]) : collector[s][i] <= sets
  /\ \A i, j \in 1 .. Len(collector[s]) : i < j => collector[s][i] < collector[s][j]
  /\ \A u \in got[s], i \in 1 .. Len(collector[s]) : u < collector[s][i]
  /\ \A u \in got[s] \cup About(pending[s]) \cup About(feed[s]) : u <= sets
  /\ \A u \in Updates : kvmap[s][u] # "none" => u <= sets

StuckOK(s) == s \in stuck => state[s] = "PASSIVE" /\ s \in mapped /\ feed[s] # <<>>

\* Without a map of its own a server keeps what it collects.
BlankOK(s) ==
  /\ Blank(s) => kvmap[s] = Empty /\ sequence[s] = 0 /\ About(pending[s]) = got[s]
  /\ state[s] = "down" => feed[s] = <<>> /\ got[s] = {} /\ collector[s] = <<>> /\ s \notin skewed

\* What a server has published in this life it has stored, under numbers that rise.
FeedOK(s) ==
  LET q == Peer(s) f == feed[s] IN
  /\ \A i \in 1 .. Len(f) :
       /\ f[i].life <= life[q]
       /\ f[i].u # 0 /\ f[i].life = life[q] /\ Up(q)
            => f[i].n <= sequence[q] /\ kvmap[q][f[i].u] # "none"
  /\ \A i, j \in 1 .. Len(f) :
       i < j /\ f[i].u # 0 /\ f[j].u # 0 /\ f[i].life = f[j].life => f[i].n < f[j].n

\* A map with a number, taken from life L of the peer: it lacks nothing that the peer
\* has published up to that number and that is still on its way.
Includes(s, map, n, L) ==
  /\ L <= life[Peer(s)]
  /\ L = life[Peer(s)] /\ Up(Peer(s)) => n <= sequence[Peer(s)]
  /\ \A i \in 1 .. Len(feed[s]) :
       feed[s][i].u # 0 /\ feed[s][i].life = L /\ feed[s][i].n <= n
         => map[feed[s][i].u] # "none"

\* The snapshot is asked for once, and waited for.
SnapOK(s) ==
  /\ "peer" \in asks[Peer(s)] => s \in stuck /\ snap[s] = {}
  /\ \A x, y \in snap[s] : x = y
  /\ \A shot \in snap[s] :
       /\ s \in stuck
       /\ Includes(s, shot.kv, shot.n, shot.life)
       /\ \A u \in Updates : shot.kv[u] # "none" => u <= sets

MapOK(s) ==
  ~Blank(s) /\ s \notin skewed =>
    /\ \A u \in got[s] : kvmap[s][u] # "none" \/ u \in About(pending[s])
    /\ \A u \in About(pending[s]) \ got[s] : kvmap[s][u] # "none"
    /\ state[s] = "PASSIVE" => Includes(s, kvmap[s], sequence[s], from[s])

OwnOK(s) == SentOK(s) /\ StuckOK(s) /\ BlankOK(s) /\ MapOK(s)

Stores == \A s \in Servers : OwnOK(s) /\ FeedOK(s) /\ SnapOK(s)

\* One state at a time is on its way.
OneNews == \A s \in Servers : \A x, y \in inbox[s] : x = y

StoreInv == IInv /\ OneNews /\ CloneTypes /\ AgentTypes /\ OthersOK /\ Stores

-----------------------------------------------------------------------------
(* Lists of updates                                                        *)

\* A list and the set of its elements.
LEMMA Elements ==
  ASSUME NEW S, NEW q \in Seq(S), NEW n, n = Len(q)
  PROVE  ToSet(q) = {q[k] : k \in 1 .. n}
  BY DEF ToSet

\* What is left when the first message is taken.
LEMMA AboutTail ==
  ASSUME NEW S, NEW q \in Seq(S), q # <<>>
  PROVE  /\ About(Tail(q)) \subseteq About(q)
         /\ Head(q) \in S /\ Tail(q) \in Seq(S) /\ Head(q).u \in About(q)
         /\ About(q) \subseteq About(Tail(q)) \cup {Head(q).u}
  <1> PICK n \in Nat : n = Len(q)
    OBVIOUS
  <1>0. PICK r : r = Tail(q)
    OBVIOUS
  <1>1. /\ r \in Seq(S) /\ Len(r) = n - 1 /\ \A k \in 1 .. n - 1 : r[k] = q[k + 1]
        /\ Head(q) = q[1] /\ 1 \in 1 .. n /\ \A k \in 1 .. n : q[k] \in S
    BY <1>0
  <1>2. ToSet(r) = {r[k] : k \in 1 .. n - 1} /\ ToSet(q) = {q[k] : k \in 1 .. n}
    BY <1>1, Elements
  <1>3. ToSet(r) \subseteq ToSet(q)
    BY <1>1, <1>2
  <1>4. ToSet(q) \subseteq ToSet(r) \cup {q[1]}
    <2>1. ASSUME NEW k \in 1 .. n PROVE q[k] \in ToSet(r) \cup {q[1]}
      <3>1. CASE k = 1
        BY <3>1
      <3>2. CASE k # 1
        <4>1. k - 1 \in 1 .. n - 1 /\ r[k - 1] = q[k]
          BY <1>1, <3>2
        <4> QED
          BY <1>2, <4>1
      <3> QED
        BY <3>1, <3>2
    <2> QED
      BY <1>2, <2>1
  <1>5. Head(q) \in ToSet(q)
    BY <1>1, <1>2
  <1> QED
    BY <1>0, <1>1, <1>3, <1>4, <1>5 DEF About

\* What is there when one is added.
LEMMA AboutAppend ==
  ASSUME NEW S, NEW q \in Seq(S), NEW m
  PROVE  About(Append(q, m)) = About(q) \cup {m.u}
  <1> PICK n \in Nat : n = Len(q)
    OBVIOUS
  <1> PICK r : r = Append(q, m)
    OBVIOUS
  <1>1. Len(r) = n + 1 /\ r[n + 1] = m /\ \A k \in 1 .. n : r[k] = q[k]
    OBVIOUS
  <1>2. ToSet(r) = {r[k] : k \in 1 .. n + 1} /\ ToSet(q) = {q[k] : k \in 1 .. n}
    BY <1>1 DEF ToSet
  <1>3. ToSet(r) = ToSet(q) \cup {m}
    BY <1>1, <1>2
  <1> QED
    BY <1>3 DEF About

\* What a list that goes on with another one holds.
LEMMA Joined ==
  ASSUME NEW S, NEW q \in Seq(S), NEW ms \in Seq(S)
  PROVE  /\ q \o ms \in Seq(S) /\ Len(q \o ms) = Len(q) + Len(ms)
         /\ \A i \in 1 .. Len(q) : (q \o ms)[i] = q[i]
         /\ \A i \in 1 .. Len(ms) : (q \o ms)[Len(q) + i] = ms[i]
         /\ \A i \in 1 .. Len(q) + Len(ms) : i \notin 1 .. Len(q) => i - Len(q) \in 1 .. Len(ms)
         /\ About(q \o ms) = About(q) \cup About(ms)
  <1> PICK n \in Nat : n = Len(q)
    OBVIOUS
  <1> PICK m \in Nat : m = Len(ms)
    OBVIOUS
  <1>0. PICK r : r = q \o ms
    OBVIOUS
  <1>1. /\ r \in Seq(S) /\ Len(r) = n + m
        /\ \A i \in 1 .. n + m : r[i] = IF i <= n THEN q[i] ELSE ms[i - n]
    BY <1>0, ConcatProperties
  <1>2. \A i \in 1 .. n : r[i] = q[i]
    BY <1>1
  <1>3. \A i \in 1 .. m : r[n + i] = ms[i]
    <2> SUFFICES ASSUME NEW i \in 1 .. m PROVE r[n + i] = ms[i]
      OBVIOUS
    <2>1. n + i \in 1 .. n + m /\ ~(n + i <= n) /\ (n + i) - n = i
      OBVIOUS
    <2> QED
      BY <1>1, <2>1
  <1>4. \A i \in 1 .. n + m : i \notin 1 .. n => i - n \in 1 .. m
    OBVIOUS
  <1>5. ToSet(r) = ToSet(q) \cup ToSet(ms)
    <2>1. /\ ToSet(r) = {r[k] : k \in 1 .. n + m} /\ ToSet(q) = {q[k] : k \in 1 .. n}
          /\ ToSet(ms) = {ms[k] : k \in 1 .. m}
      <3>1. ToSet(r) = {r[k] : k \in 1 .. n + m}
        <4>1. r \in Seq(S) /\ n + m = Len(r)
          BY <1>1
        <4> QED
          BY <4>1, Elements
      <3>2. ToSet(q) = {q[k] : k \in 1 .. n}
        BY Elements
      <3>3. ToSet(ms) = {ms[k] : k \in 1 .. m}
        BY Elements
      <3> QED
        BY <3>1, <3>2, <3>3
    <2>2. ASSUME NEW i \in 1 .. n + m PROVE r[i] \in ToSet(q) \cup ToSet(ms)
      <3>1. CASE i <= n
        BY <1>2, <2>1, <3>1
      <3>2. CASE ~(i <= n)
        <4>1. i - n \in 1 .. m /\ r[i] = ms[i - n]
          BY <1>1, <3>2
        <4> QED
          BY <2>1, <4>1
      <3> QED
        BY <3>1, <3>2
    <2>3. ASSUME NEW i \in 1 .. n PROVE q[i] \in ToSet(r)
      <3>1. i \in 1 .. n + m /\ r[i] = q[i]
        BY <1>2
      <3> QED
        BY <2>1, <3>1
    <2>4. ASSUME NEW i \in 1 .. m PROVE ms[i] \in ToSet(r)
      <3>1. n + i \in 1 .. n + m /\ r[n + i] = ms[i]
        BY <1>3
      <3> QED
        BY <2>1, <3>1
    <2>5. ToSet(r) \subseteq ToSet(q) \cup ToSet(ms)
      BY <2>1, <2>2
    <2>6. ToSet(q) \subseteq ToSet(r)
      BY <2>1, <2>3
    <2>7. ToSet(ms) \subseteq ToSet(r)
      BY <2>1, <2>4
    <2> QED
      BY <2>5, <2>6, <2>7
  <1>6. About(r) = About(q) \cup About(ms)
    BY <1>5 DEF About
  <1> QED
    BY <1>0, <1>1, <1>2, <1>3, <1>4, <1>6

LEMMA AboutOne ==
  ASSUME NEW m
  PROVE  About(<<m>>) = {m.u} /\ Len(<<m>>) = 1 /\ <<m>>[1] = m /\ About(<<>>) = {}
  BY DEF About, ToSet

\* s_was_pending: only the entry that is found goes, and only when there is none does
\* the new one come.
LEMMA WithFacts ==
  ASSUME NEW q \in Seq(Pendings), NEW p \in Pendings
  PROVE  /\ With(q, p) \in Seq(Pendings)
         /\ About(With(q, p)) \subseteq About(q) \cup {p.u}
         /\ About(q) \ {p.u} \subseteq About(With(q, p))
         /\ p.u \notin About(q) => About(With(q, p)) = About(q) \cup {p.u}
  <1> PICK n \in Nat : n = Len(q)
    OBVIOUS
  <1>1. ToSet(q) = {q[k] : k \in 1 .. n} /\ \A k \in 1 .. n : q[k] \in Pendings
    BY DEF ToSet
  <1>2. CASE p.u \notin About(q)
    <2>1. With(q, p) = Append(q, p)
      BY <1>2 DEF With, About
    <2> QED
      BY <2>1, AboutAppend
  <1>3. CASE p.u \in About(q)
    <2>1. PICK k0 \in 1 .. n : q[k0].u = p.u
      BY <1>1, <1>3 DEF About
    <2> DEFINE I == {k \in 1 .. n : q[k].u = p.u}
    <2>2. PICK w \in 1 .. n : q[w].u = p.u /\ \A k \in 1 .. n : q[k].u = p.u => w <= k
      <3>1. IsWellFoundedOn(OpToRel(<, Nat), Nat)
        BY NatLessThanWellFounded
      <3>2. PICK x \in I : \A y \in I : ~(<<y, x>> \in OpToRel(<, Nat))
        <4>1. I \subseteq Nat /\ I # {}
          BY <2>1
        <4> HIDE DEF I
        <4> QED
          BY <3>1, <4>1, WFMin
      <3>3. \A y \in I : ~(y < x)
        <4>1. \A c, d \in Nat : c < d => <<c, d>> \in OpToRel(<, Nat)
          BY DEF OpToRel
        <4>2. I \subseteq Nat
          OBVIOUS
        <4> HIDE DEF I
        <4> QED
          BY <3>2, <4>1, <4>2
      <3>4. \A y \in I : x <= y
        BY <3>3
      <3> QED
        BY <3>4
    <2>3. SelectInSeq(q, LAMBDA x : x.u = p.u) = w
      BY <2>2 DEF SelectInSeq, Min
    <2>4. With(q, p) = SubSeq(q, 1, w - 1) \o SubSeq(q, w + 1, n)
      BY <1>1, <1>3, <2>2, <2>3 DEF With, RemoveFirstMatch, RemoveAt, About
    <2>0. PICK a, b, r : /\ a = SubSeq(q, 1, w - 1) /\ b = SubSeq(q, w + 1, n)
                         /\ r = With(q, p)
      OBVIOUS
    <2>5. /\ a \in Seq(Pendings) /\ Len(a) = w - 1 /\ \A k \in 1 .. w - 1 : a[k] = q[k]
          /\ b \in Seq(Pendings) /\ Len(b) = n - w /\ \A k \in 1 .. n - w : b[k] = q[w + k]
      BY <2>0, <2>2
    <2>6. r \in Seq(Pendings) /\ About(r) = About(a) \cup About(b)
      <3>1. r = a \o b
        BY <2>0, <2>4
      <3> QED
        BY <2>5, <3>1, Joined
    <2>7. /\ ToSet(a) = {a[k] : k \in 1 .. w - 1} /\ ToSet(b) = {b[k] : k \in 1 .. n - w}
      <3>1. w - 1 = Len(a) /\ a \in Seq(Pendings)
        BY <2>5
      <3>2. ToSet(a) = {a[k] : k \in 1 .. w - 1}
        BY <3>1, Elements
      <3>3. n - w = Len(b) /\ b \in Seq(Pendings)
        BY <2>5
      <3>4. ToSet(b) = {b[k] : k \in 1 .. n - w}
        BY <3>3, Elements
      <3> QED
        BY <3>2, <3>4
    <2>8. ToSet(a) \subseteq ToSet(q) /\ ToSet(b) \subseteq ToSet(q)
      BY <1>1, <2>5, <2>7
    <2>9. ToSet(q) \subseteq ToSet(a) \cup ToSet(b) \cup {q[w]}
      <3>1. ASSUME NEW k \in 1 .. n PROVE q[k] \in ToSet(a) \cup ToSet(b) \cup {q[w]}
        <4>1. CASE k < w
          <5>1. k \in 1 .. w - 1
            BY <4>1
          <5> QED
            BY <2>5, <2>7, <5>1
        <4>2. CASE k > w
          <5>1. k - w \in 1 .. n - w /\ b[k - w] = q[k]
            BY <2>5, <4>2
          <5> QED
            BY <2>7, <5>1
        <4> QED
          BY <4>1, <4>2
      <3> QED
        BY <1>1, <3>1
    <2>10. About(a) \subseteq About(q) /\ About(b) \subseteq About(q)
           /\ About(q) \subseteq About(a) \cup About(b) \cup {p.u}
      BY <2>2, <2>8, <2>9 DEF About
    <2> QED
      BY <1>3, <2>0, <2>6, <2>10
  <1> QED
    BY <1>2, <1>3

\* Storing an update changes the entry of that update alone, and never to none.
LEMMA StoreFacts ==
  ASSUME NEW map \in Maps, NEW m, m.del \in BOOLEAN
  PROVE  /\ Store(map, m) \in Maps
         /\ \A u \in Updates : u = m.u \/ map[u] # "none" => Store(map, m)[u] # "none"
         /\ \A u \in Updates : u # m.u => Store(map, m)[u] = map[u]
  BY DEF Store, Maps

\* A map that takes a list has what it had and what the list is about.
LEMMA ApplyFacts ==
  ASSUME NEW map \in Maps, NEW ms
  PROVE  /\ Apply(map, ms, DOMAIN ms) \in Maps
         /\ \A u \in Updates : map[u] # "none" \/ u \in About(ms)
                                 <=> Apply(map, ms, DOMAIN ms)[u] # "none"
  <1> PICK r : r = Apply(map, ms, DOMAIN ms)
    OBVIOUS
  <1>1. r \in Maps
    BY DEF Apply, Maps
  <1>2. ASSUME NEW u \in Updates PROVE map[u] # "none" \/ u \in About(ms) <=> r[u] # "none"
    <2>1. {i \in DOMAIN ms : ms[i].u = u} = {} <=> u \notin About(ms)
      BY DEF About, ToSet
    <2>2. u \in About(ms) => r[u] \in {"gone", "held"}
      BY <2>1 DEF Apply
    <2>3. u \notin About(ms) => r[u] = map[u]
      BY <2>1 DEF Apply
    <2> QED
      BY <2>2, <2>3
  <1> QED
    BY <1>1, <1>2

LEMMA EmptyFacts == Empty \in Maps /\ \A u \in Updates : Empty[u] = "none"
  BY DEF Empty, Maps

-----------------------------------------------------------------------------
(* What is on its way between the servers                                  *)

\* A server goes on in its life without forgetting, or begins another one, or ends.
Grows(q) ==
  /\ life'[q] >= life[q]
  /\ Up(q)' /\ life'[q] = life[q] =>
       /\ Up(q) /\ sequence'[q] >= sequence[q]
       /\ \A u \in Updates : kvmap[q][u] # "none" => kvmap'[q][u] # "none"

MessageFields(m) == m.n \in Nat /\ m.u \in 0 .. MaxUpdates /\ m.del \in BOOLEAN /\ m.life \in Nat

LEMMA FeedTyped ==
  ASSUME CloneTypes, NEW s \in Servers
  PROVE  /\ feed[s] \in Seq(Messages) /\ Len(feed[s]) \in Nat
         /\ \A i \in 1 .. Len(feed[s]) : feed[s][i] \in Messages /\ MessageFields(feed[s][i])
         /\ Peer(s) \in Servers /\ Peer(s) # s
         /\ life[Peer(s)] \in Nat /\ sequence[Peer(s)] \in Nat
  <1>1. feed[s] \in Seq(Messages)
    BY DEF CloneTypes
  <1>2. \A m \in Messages : MessageFields(m)
    BY DEF Messages, MessageFields
  <1>3. Peer(s) \in Servers /\ Peer(s) # s
    BY PeerFacts
  <1>4. \A i \in 1 .. Len(feed[s]) : feed[s][i] \in Messages
    BY <1>1
  <1>5. life[Peer(s)] \in Nat /\ sequence[Peer(s)] \in Nat
    BY <1>3 DEF CloneTypes
  <1> QED
    BY <1>1, <1>2, <1>3, <1>4, <1>5

\* The receiver reads a message, or ends.
LEMMA FeedTaken ==
  ASSUME CloneTypes, CloneTypes', NEW s \in Servers, FeedOK(s), Grows(Peer(s)),
         \/ feed'[s] = feed[s] \/ feed'[s] = <<>>
         \/ feed[s] # <<>> /\ feed'[s] = Tail(feed[s])
  PROVE  /\ FeedOK(s)'
         /\ \A map \in Maps, n \in Nat, L \in Nat :
              Includes(s, map, n, L) => Includes(s, map, n, L)'
  <1>0. PICK q, f, g : q = Peer(s) /\ f = feed[s] /\ g = feed'[s]
    OBVIOUS
  <1>1. /\ f \in Seq(Messages) /\ g \in Seq(Messages) /\ Len(f) \in Nat /\ Len(g) \in Nat
        /\ \A i \in 1 .. Len(f) : MessageFields(f[i])
        /\ q \in Servers /\ life[q] \in Nat /\ life'[q] \in Nat
        /\ sequence[q] \in Nat /\ sequence'[q] \in Nat
    <2>1. feed'[s] \in Seq(Messages) /\ life' \in [Servers -> Nat] /\ sequence' \in [Servers -> Nat]
      BY DEF CloneTypes
    <2>2. g \in Seq(Messages) /\ life'[q] \in Nat /\ sequence'[q] \in Nat
      BY <1>0, <2>1, FeedTyped
    <2> QED
      BY <1>0, <2>2, FeedTyped
  <1>2. PICK d \in Nat : \A k \in 1 .. Len(g) : k + d \in 1 .. Len(f) /\ g[k] = f[k + d]
    <2>1. CASE g = f
      <3>1. \A k \in 1 .. Len(g) : k + 0 \in 1 .. Len(f) /\ g[k] = f[k + 0]
        BY <1>1, <2>1
      <3> QED
        BY <3>1
    <2>2. CASE g = <<>>
      BY <2>2
    <2>3. CASE f # <<>> /\ g = Tail(f)
      <3>1. \A k \in 1 .. Len(g) : k + 1 \in 1 .. Len(f) /\ g[k] = f[k + 1]
        BY <1>1, <2>3
      <3> QED
        BY <3>1
    <2> QED
      BY <1>0, <2>1, <2>2, <2>3
  <1>3. /\ \A i \in 1 .. Len(f) :
             /\ f[i].life <= life[q]
             /\ f[i].u # 0 /\ f[i].life = life[q] /\ Up(q)
                  => f[i].n <= sequence[q] /\ kvmap[q][f[i].u] # "none"
        /\ \A i, j \in 1 .. Len(f) :
             i < j /\ f[i].u # 0 /\ f[j].u # 0 /\ f[i].life = f[j].life => f[i].n < f[j].n
    BY <1>0 DEF FeedOK
  <1>4. /\ life'[q] >= life[q]
        /\ Up(q)' /\ life'[q] = life[q] =>
             /\ Up(q) /\ sequence'[q] >= sequence[q]
             /\ \A u \in Updates : kvmap[q][u] # "none" => kvmap'[q][u] # "none"
    BY <1>0 DEF Grows
  <1>5. ASSUME NEW k \in 1 .. Len(g)
        PROVE  /\ g[k].life <= life'[q]
               /\ g[k].u # 0 /\ g[k].life = life'[q] /\ Up(q)'
                    => g[k].n <= sequence'[q] /\ kvmap'[q][g[k].u] # "none"
    <2>1. k + d \in 1 .. Len(f) /\ g[k] = f[k + d] /\ MessageFields(f[k + d])
      BY <1>1, <1>2
    <2>2. PICK m : m = f[k + d]
      OBVIOUS
    <2>3. /\ m.life <= life[q] /\ m.life \in Nat /\ m.n \in Nat /\ m.u \in 0 .. MaxUpdates
          /\ m.u # 0 /\ m.life = life[q] /\ Up(q)
               => m.n <= sequence[q] /\ kvmap[q][m.u] # "none"
      BY <1>3, <2>1, <2>2 DEF MessageFields
    <2>4. m.u # 0 => m.u \in Updates
      BY <2>3 DEF Updates
    <2>5. g[k] = m
      BY <2>1, <2>2
    <2>6. m.life <= life'[q]
      BY <1>1, <1>4, <2>3
    <2>7. ASSUME m.u # 0, m.life = life'[q], Up(q)'
          PROVE  m.n <= sequence'[q] /\ kvmap'[q][m.u] # "none"
      <3>1. life'[q] = life[q] /\ Up(q) /\ sequence'[q] >= sequence[q]
        BY <1>1, <1>4, <2>3, <2>7
      <3>2. m.n <= sequence[q] /\ kvmap[q][m.u] # "none" /\ m.u \in Updates
        BY <2>3, <2>4, <2>7, <3>1
      <3> QED
        BY <1>1, <1>4, <2>3, <2>7, <3>1, <3>2
    <2> QED
      BY <2>5, <2>6, <2>7
  <1>6. ASSUME NEW i \in 1 .. Len(g), NEW j \in 1 .. Len(g), i < j, g[i].u # 0, g[j].u # 0,
               g[i].life = g[j].life
        PROVE  g[i].n < g[j].n
    <2>1. /\ i + d \in 1 .. Len(f) /\ g[i] = f[i + d] /\ j + d \in 1 .. Len(f)
          /\ g[j] = f[j + d] /\ i + d < j + d
      <3>1. i + d < j + d
        BY <1>1, <1>6
      <3> QED
        BY <1>2, <3>1
    <2> QED
      BY <1>3, <1>6, <2>1
  <1>7. FeedOK(s)'
    BY <1>0, <1>5, <1>6 DEF FeedOK
  <1>8. ASSUME NEW map \in Maps, NEW n \in Nat, NEW L \in Nat, Includes(s, map, n, L)
        PROVE  Includes(s, map, n, L)'
    <2>1. /\ L <= life[q] /\ (L = life[q] /\ Up(q) => n <= sequence[q])
          /\ \A i \in 1 .. Len(f) : f[i].u # 0 /\ f[i].life = L /\ f[i].n <= n
                                      => map[f[i].u] # "none"
      BY <1>0, <1>8 DEF Includes
    <2>2. L <= life'[q] /\ (L = life'[q] /\ Up(q)' => n <= sequence'[q])
      BY <1>1, <1>4, <2>1
    <2>3. \A i \in 1 .. Len(g) : g[i].u # 0 /\ g[i].life = L /\ g[i].n <= n
                                   => map[g[i].u] # "none"
      BY <1>2, <2>1
    <2> QED
      BY <1>0, <2>2, <2>3 DEF Includes
  <1> QED
    BY <1>7, <1>8

\* The sender has stored what it publishes, under the next numbers.
Publishes(q, ms) ==
  /\ Up(q) /\ Up(q)' /\ life'[q] = life[q] /\ sequence'[q] = sequence[q] + Len(ms)
  /\ \A i \in 1 .. Len(ms) : /\ ms[i].n = sequence[q] + i /\ ms[i].life = life[q]
                             /\ ms[i].u \in Updates /\ kvmap'[q][ms[i].u] # "none"
  /\ \A u \in Updates : kvmap[q][u] # "none" => kvmap'[q][u] # "none"

LEMMA FeedGrows ==
  ASSUME CloneTypes, CloneTypes', NEW s \in Servers, FeedOK(s),
         NEW ms \in Seq(Messages), Publishes(Peer(s), ms), feed'[s] = feed[s] \o ms
  PROVE  /\ FeedOK(s)'
         /\ \A map \in Maps, n \in Nat, L \in Nat :
              Includes(s, map, n, L) => Includes(s, map, n, L)'
  <1>0. PICK q, f, g : q = Peer(s) /\ f = feed[s] /\ g = feed'[s]
    OBVIOUS
  <1>1. /\ f \in Seq(Messages) /\ Len(f) \in Nat
        /\ \A i \in 1 .. Len(f) : MessageFields(f[i])
        /\ q \in Servers /\ life[q] \in Nat /\ sequence[q] \in Nat
    BY <1>0, FeedTyped
  <1>2. PICK l \in Nat : l = Len(ms)
    OBVIOUS
  <1>3. PICK k \in Nat : k = Len(f)
    BY <1>1
  <1>4. /\ Len(g) = k + l /\ \A i \in 1 .. k : g[i] = f[i]
        /\ \A i \in 1 .. l : g[k + i] = ms[i]
        /\ \A i \in 1 .. k + l : i \notin 1 .. k => i - k \in 1 .. l /\ g[i] = ms[i - k]
    <2>1. g = f \o ms
      BY <1>0
    <2>2. /\ Len(g) = k + l /\ \A i \in 1 .. k : g[i] = f[i]
          /\ \A i \in 1 .. l : g[k + i] = ms[i]
          /\ \A i \in 1 .. k + l : i \notin 1 .. k => i - k \in 1 .. l
      BY <1>1, <1>2, <1>3, <2>1, Joined
    <2>3. ASSUME NEW i \in 1 .. k + l, i \notin 1 .. k PROVE g[i] = ms[i - k]
      <3>1. i - k \in 1 .. l /\ k + (i - k) = i
        BY <2>2, <2>3
      <3> QED
        BY <2>2, <3>1
    <2> QED
      BY <2>2, <2>3
  <1>5. /\ \A i \in 1 .. k :
             /\ f[i].life <= life[q]
             /\ f[i].u # 0 /\ f[i].life = life[q] /\ Up(q)
                  => f[i].n <= sequence[q] /\ kvmap[q][f[i].u] # "none"
        /\ \A i, j \in 1 .. k :
             i < j /\ f[i].u # 0 /\ f[j].u # 0 /\ f[i].life = f[j].life => f[i].n < f[j].n
    BY <1>0, <1>3 DEF FeedOK
  <1>6. /\ Up(q) /\ Up(q)' /\ life'[q] = life[q] /\ sequence'[q] = sequence[q] + l
        /\ \A i \in 1 .. l : /\ ms[i].n = sequence[q] + i /\ ms[i].life = life[q]
                             /\ ms[i].u \in Updates /\ kvmap'[q][ms[i].u] # "none"
        /\ \A u \in Updates : kvmap[q][u] # "none" => kvmap'[q][u] # "none"
    BY <1>0, <1>2 DEF Publishes
  <1>7. ASSUME NEW i \in 1 .. k + l
        PROVE  /\ g[i].life <= life[q]
               /\ g[i].u # 0 /\ g[i].life = life[q]
                    => g[i].n <= sequence'[q] /\ kvmap'[q][g[i].u] # "none"
    <2>1. CASE i \in 1 .. k
      <3>1. g[i] = f[i] /\ MessageFields(f[i])
        BY <1>1, <1>3, <1>4, <2>1
      <3>2. PICK m : m = f[i]
        OBVIOUS
      <3>3. /\ m.life <= life[q] /\ m.n \in Nat /\ m.u \in 0 .. MaxUpdates
            /\ m.u # 0 /\ m.life = life[q] => m.n <= sequence[q] /\ kvmap[q][m.u] # "none"
        BY <1>5, <1>6, <2>1, <3>1, <3>2 DEF MessageFields
      <3>4. m.u # 0 => m.u \in Updates
        BY <3>3 DEF Updates
      <3> QED
        BY <1>1, <1>6, <3>1, <3>2, <3>3, <3>4
    <2>2. CASE i \notin 1 .. k
      <3>1. i - k \in 1 .. l /\ g[i] = ms[i - k]
        BY <1>4, <2>2
      <3>2. PICK j \in 1 .. l : j = i - k
        BY <3>1
      <3>3. g[i] = ms[j] /\ sequence[q] + j <= sequence[q] + l
        BY <1>1, <3>1, <3>2
      <3> QED
        BY <1>1, <1>6, <3>3
    <2> QED
      BY <2>1, <2>2
  <1>8. ASSUME NEW i \in 1 .. k + l, NEW j \in 1 .. k + l, i < j, g[i].u # 0, g[j].u # 0,
               g[i].life = g[j].life
        PROVE  g[i].n < g[j].n
    <2>1. CASE j \in 1 .. k
      <3>1. i \in 1 .. k /\ g[i] = f[i] /\ g[j] = f[j]
        BY <1>4, <1>8, <2>1
      <3> QED
        BY <1>5, <1>8, <2>1, <3>1
    <2>2. CASE j \notin 1 .. k
      <3>1. PICK b \in 1 .. l : b = j - k /\ g[j] = ms[b]
        BY <1>4, <2>2
      <3>2. g[j].life = life[q] /\ g[j].n = sequence[q] + b
        BY <1>6, <3>1
      <3>3. CASE i \in 1 .. k
        <4>1. g[i] = f[i] /\ MessageFields(f[i])
          BY <1>1, <1>3, <1>4, <3>3
        <4>2. f[i].n <= sequence[q] /\ f[i].n \in Nat
          BY <1>5, <1>6, <1>8, <3>2, <3>3, <4>1 DEF MessageFields
        <4> QED
          BY <1>1, <3>2, <4>1, <4>2
      <3>4. CASE i \notin 1 .. k
        <4>1. PICK a \in 1 .. l : a = i - k /\ g[i] = ms[a]
          BY <1>4, <3>4
        <4>2. a < b /\ g[i].n = sequence[q] + a
          BY <1>6, <1>8, <3>1, <4>1
        <4> QED
          BY <1>1, <3>2, <4>2
      <3> QED
        BY <3>3, <3>4
    <2> QED
      BY <2>1, <2>2
  <1>9. FeedOK(s)'
    BY <1>0, <1>4, <1>6, <1>7, <1>8 DEF FeedOK
  <1>10. ASSUME NEW map \in Maps, NEW n \in Nat, NEW L \in Nat, Includes(s, map, n, L)
         PROVE  Includes(s, map, n, L)'
    <2>1. /\ L <= life[q] /\ (L = life[q] => n <= sequence[q])
          /\ \A i \in 1 .. k : f[i].u # 0 /\ f[i].life = L /\ f[i].n <= n
                                 => map[f[i].u] # "none"
      BY <1>0, <1>3, <1>6, <1>10 DEF Includes
    <2>2. L <= life'[q] /\ (L = life'[q] => n <= sequence'[q])
      BY <1>1, <1>2, <1>6, <2>1
    <2>3. ASSUME NEW i \in 1 .. k + l, g[i].u # 0, g[i].life = L, g[i].n <= n
          PROVE  map[g[i].u] # "none"
      <3>1. CASE i \in 1 .. k
        BY <1>4, <2>1, <2>3, <3>1
      <3>2. CASE i \notin 1 .. k
        <4>1. PICK b \in 1 .. l : g[i] = ms[b]
          BY <1>4, <3>2
        <4>2. g[i].life = life[q] /\ g[i].n = sequence[q] + b /\ b > 0
          BY <1>6, <4>1
        <4> QED
          BY <1>1, <2>1, <2>3, <4>2
      <3> QED
        BY <3>1, <3>2
    <2> QED
      BY <1>0, <1>4, <2>2, <2>3 DEF Includes
  <1> QED
    BY <1>9, <1>10

-----------------------------------------------------------------------------
(* The types                                                               *)

\* The peer of the peer.
LEMMA PeerPeer == \A s \in Servers : Peer(s) \in Servers /\ Peer(s) # s /\ Peer(Peer(s)) = s
  BY PeerFacts

\* A message carries the update, the number and the life it is made of.
LEMMA MessageTyped ==
  ASSUME CloneTypes, NEW s \in Servers, NEW n \in Nat, NEW p,
         p.u \in 0 .. MaxUpdates, p.del \in BOOLEAN
  PROVE  /\ Message(s, n, p) \in Messages
         /\ Message(s, n, p).n = n /\ Message(s, n, p).u = p.u
         /\ Message(s, n, p).del = p.del /\ Message(s, n, p).life = life[s]
  BY DEF Message, Messages, CloneTypes

LEMMA UpdatesAreNumbers == CloneAssumption => Updates \subseteq 0 .. MaxUpdates /\ 0 \notin Updates
  BY DEF Updates

\* The updates that were pending, as messages.
LEMMA PendingMessages ==
  ASSUME CloneTypes, NEW s \in Servers, NEW q \in Seq(Pendings), NEW ms,
         ms = [i \in DOMAIN q |-> Message(s, sequence[s] + i, q[i])]
  PROVE  /\ ms \in Seq(Messages) /\ Len(ms) = Len(q) /\ Len(ms) \in Nat
         /\ About(ms) = About(q)
         /\ \A i \in 1 .. Len(ms) : /\ ms[i].n = sequence[s] + i /\ ms[i].life = life[s]
                                    /\ ms[i].u \in Updates /\ ms[i].u \in About(q)
  <1>0. PICK n \in Nat : n = Len(q)
    OBVIOUS
  <1>1. DOMAIN q = 1 .. n /\ \A i \in 1 .. n : q[i] \in Pendings
    BY <1>0
  <1>2. \A i \in 1 .. n : q[i].u \in Updates /\ q[i].del \in BOOLEAN
    BY <1>1 DEF Pendings
  <1>3. sequence[s] \in Nat
    BY DEF CloneTypes
  <1>4. ASSUME NEW i \in 1 .. n
        PROVE  /\ ms[i] \in Messages /\ ms[i].n = sequence[s] + i /\ ms[i].life = life[s]
               /\ ms[i].u = q[i].u
    <2>1. PICK p, k : p = q[i] /\ k = sequence[s] + i
      OBVIOUS
    <2>2. k \in Nat /\ p.u \in 0 .. MaxUpdates /\ p.del \in BOOLEAN
      BY <1>2, <1>3, <2>1, UpdatesAreNumbers, CloneAssumption
    <2>3. ms[i] = Message(s, k, p)
      BY <1>1, <2>1
    <2> QED
      BY <2>1, <2>2, <2>3, MessageTyped
  <1>5. ms \in Seq(Messages) /\ Len(ms) = n /\ DOMAIN ms = 1 .. n
    <2>1. DOMAIN ms = 1 .. n /\ ms = [i \in 1 .. n |-> ms[i]]
      BY <1>1
    <2>2. ms \in [1 .. n -> Messages]
      BY <1>4, <2>1
    <2> QED
      BY <1>0, <2>2
  <1>6. Len(ms) = n /\ \A i \in 1 .. n : ms[i].u = q[i].u
    BY <1>4, <1>5
  <1>7. About(ms) = About(q) /\ \A i \in 1 .. n : q[i].u \in About(q)
    <2>1. PICK r : r = ms
      OBVIOUS
    <2>2. r \in Seq(Messages) /\ Len(r) = n /\ \A i \in 1 .. n : r[i].u = q[i].u
      BY <1>5, <1>6, <2>1
    <2>3. About(r) = About(q) /\ \A i \in 1 .. n : q[i].u \in About(q)
      <3>1. ToSet(q) = {q[i] : i \in 1 .. n}
        BY <1>0, Elements
      <3>2. ToSet(r) = {r[i] : i \in 1 .. n}
        BY <2>2, Elements
      <3>3. About(q) \subseteq About(r) /\ About(r) \subseteq About(q)
        BY <2>2, <3>1, <3>2 DEF About
      <3> QED
        BY <3>1, <3>3 DEF About
    <2> QED
      BY <2>1, <2>3
  <1> QED
    BY <1>0, <1>2, <1>4, <1>5, <1>7

\* The parts of CloneTypes that the clone servers change.
StoreTypes ==
  /\ mapped \subseteq Servers /\ skewed \subseteq Servers
  /\ kvmap \in [Servers -> Maps] /\ sequence \in [Servers -> Nat]
  /\ pending \in [Servers -> Seq(Pendings)]
  /\ got \in [Servers -> SUBSET Updates] /\ from \in [Servers -> Nat]
  /\ feed \in [Servers -> Seq(Messages)]

NetTypes ==
  /\ sets \in 0 .. MaxUpdates
  /\ collector \in [Servers -> Seq(Updates)]
  /\ snap \in [Servers -> SUBSET Shots]
  /\ asks \in [Servers -> SUBSET Askers]

RestTypes ==
  /\ cur \in Servers /\ asked \subseteq Servers /\ answered \in BOOLEAN
  /\ late \in 0 .. MaxLate
  /\ life \in [Servers -> Nat \ {0}] /\ life["p"] + life["b"] <= 2 + MaxRestarts
  /\ stuck \subseteq Servers /\ joined \subseteq Servers

LEMMA TypeParts ==
  /\ CloneTypes <=> StoreTypes /\ NetTypes /\ RestTypes
  /\ CloneTypes' <=> StoreTypes' /\ NetTypes' /\ RestTypes'
  BY DEF CloneTypes, StoreTypes, NetTypes, RestTypes

\* The types, when the process of a server ends.
LEMMA GoneTypes ==
  ASSUME CloneTypes, NEW s \in Servers, Gone(s)
  PROVE  StoreTypes' /\ NetTypes' /\ joined' \subseteq Servers
  <1>1. StoreTypes'
    <2>1. mapped' \subseteq Servers /\ skewed' \subseteq Servers
      BY DEF Gone, CloneTypes
    <2>2. kvmap' \in [Servers -> Maps] /\ sequence' \in [Servers -> Nat]
      BY EmptyFacts DEF Gone, CloneTypes
    <2>3. pending' \in [Servers -> Seq(Pendings)]
      BY DEF Gone, CloneTypes
    <2>4. feed' \in [Servers -> Seq(Messages)]
      BY DEF Gone, CloneTypes
    <2>5. got' \in [Servers -> SUBSET Updates] /\ from' \in [Servers -> Nat]
      BY DEF Gone, CloneTypes
    <2> QED
      BY <2>1, <2>2, <2>3, <2>4, <2>5 DEF StoreTypes
  <1>2. NetTypes'
    <2>1. sets' \in 0 .. MaxUpdates /\ snap' \in [Servers -> SUBSET Shots]
      BY DEF Gone, CloneTypes
    <2>2. collector' \in [Servers -> Seq(Updates)]
      BY DEF Gone, CloneTypes
    <2>3. asks' \in [Servers -> SUBSET Askers]
      BY PeerPeer DEF Gone, CloneTypes
    <2> QED
      BY <2>1, <2>2, <2>3 DEF NetTypes
  <1> QED
    BY <1>1, <1>2 DEF Gone, CloneTypes

\* The updates it had held go out, the messages it has not read are dropped.
Taking(s, ms) ==
  /\ sequence' = [sequence EXCEPT ![s] = @ + Len(ms)]
  /\ kvmap' = [kvmap EXCEPT ![s] = Apply(kvmap[s], pending[s], DOMAIN pending[s])]
  /\ pending' = [pending EXCEPT ![s] = <<>>]
  /\ feed' = [feed EXCEPT ![s] = <<>>,
                          ![Peer(s)] = IF Up(Peer(s)) THEN feed[Peer(s)] \o ms ELSE @]
  /\ Broadcast(s, ms)
  /\ UNCHANGED <<mapped, got, from, skewed>>

LEMMA NewActiveTypes ==
  ASSUME CloneTypes, NEW s \in Servers, NewActive(s)
  PROVE  /\ StoreTypes'
         /\ \E ms \in Seq(Messages) :
              /\ Taking(s, ms) /\ About(ms) = About(pending[s]) /\ Len(ms) \in Nat
              /\ \A i \in 1 .. Len(ms) : /\ ms[i].n = sequence[s] + i /\ ms[i].life = life[s]
                                         /\ ms[i].u \in Updates /\ ms[i].u \in About(pending[s])
  <1>0. PICK ms : ms = [i \in DOMAIN pending[s] |-> Message(s, sequence[s] + i, pending[s][i])]
    OBVIOUS
  <1>1. /\ pending[s] \in Seq(Pendings) /\ kvmap[s] \in Maps /\ sequence[s] \in Nat
        /\ mapped \subseteq Servers /\ skewed \subseteq Servers
        /\ feed \in [Servers -> Seq(Messages)] /\ pending \in [Servers -> Seq(Pendings)]
        /\ kvmap \in [Servers -> Maps] /\ sequence \in [Servers -> Nat]
        /\ got \in [Servers -> SUBSET Updates] /\ from \in [Servers -> Nat]
    BY DEF CloneTypes
  <1>2. /\ ms \in Seq(Messages) /\ Len(ms) = Len(pending[s]) /\ Len(ms) \in Nat
        /\ About(ms) = About(pending[s])
        /\ \A i \in 1 .. Len(ms) : /\ ms[i].n = sequence[s] + i /\ ms[i].life = life[s]
                                   /\ ms[i].u \in Updates /\ ms[i].u \in About(pending[s])
    BY <1>0, <1>1, PendingMessages
  <1>3. /\ sequence' = [sequence EXCEPT ![s] = @ + Len(pending[s])]
        /\ kvmap' = [kvmap EXCEPT ![s] = Apply(@, pending[s], DOMAIN pending[s])]
        /\ pending' = [pending EXCEPT ![s] = <<>>]
        /\ feed' = [feed EXCEPT ![s] = <<>>,
                                ![Peer(s)] = IF Up(Peer(s)) THEN @ \o ms ELSE @]
        /\ Broadcast(s, ms)
        /\ UNCHANGED <<mapped, got, from, skewed>>
    BY <1>0 DEF NewActive
  <1>4. Taking(s, ms)
    <2>1. kvmap' = [kvmap EXCEPT ![s] = Apply(kvmap[s], pending[s], DOMAIN pending[s])]
      BY <1>1, <1>3
    <2>2. feed' = [feed EXCEPT ![s] = <<>>,
                               ![Peer(s)] = IF Up(Peer(s)) THEN feed[Peer(s)] \o ms ELSE @]
      BY <1>1, <1>3, PeerFacts
    <2>3. sequence' = [sequence EXCEPT ![s] = @ + Len(ms)]
      BY <1>2, <1>3
    <2> QED
      BY <1>3, <2>1, <2>2, <2>3 DEF Taking
  <1>5. PICK map, list, l : /\ map = Apply(kvmap[s], pending[s], DOMAIN pending[s])
                            /\ list = feed[Peer(s)] \o ms /\ l = Len(ms)
    OBVIOUS
  <1>6. map \in Maps /\ list \in Seq(Messages) /\ l \in Nat
    <2>1. map \in Maps
      BY <1>1, <1>5, ApplyFacts
    <2>2. feed[Peer(s)] \in Seq(Messages)
      BY <1>1, PeerFacts
    <2>3. list \in Seq(Messages)
      BY <1>2, <1>5, <2>2, Joined
    <2> QED
      BY <1>2, <1>5, <2>1, <2>3
  <1>7. /\ sequence' = [sequence EXCEPT ![s] = @ + l] /\ kvmap' = [kvmap EXCEPT ![s] = map]
        /\ pending' = [pending EXCEPT ![s] = <<>>]
        /\ feed' = [feed EXCEPT ![s] = <<>>, ![Peer(s)] = IF Up(Peer(s)) THEN list ELSE @]
        /\ UNCHANGED <<mapped, got, from, skewed>>
    BY <1>4, <1>5 DEF Taking
  <1>8. feed' \in [Servers -> Seq(Messages)]
    <2>1. PICK old, q : old = feed /\ q = Peer(s)
      OBVIOUS
    <2>2. PICK g : g = IF Up(q) THEN list ELSE old[q]
      OBVIOUS
    <2>3. old \in [Servers -> Seq(Messages)] /\ q \in Servers /\ g \in Seq(Messages)
      BY <1>1, <1>6, <2>1, <2>2, PeerPeer
    <2>4. PICK e : e = <<>>
      OBVIOUS
    <2>5. feed' = [old EXCEPT ![s] = e, ![q] = g] /\ e \in Seq(Messages)
      BY <1>1, <1>7, <2>1, <2>2, <2>4, PeerPeer
    <2>6. [old EXCEPT ![s] = e, ![q] = g] \in [Servers -> Seq(Messages)]
      BY <2>3, <2>5, Zenon
    <2> QED
      BY <2>5, <2>6
  <1>9. kvmap' \in [Servers -> Maps] /\ sequence' \in [Servers -> Nat]
        /\ pending' \in [Servers -> Seq(Pendings)]
    BY <1>1, <1>6, <1>7
  <1>10. StoreTypes'
    BY <1>1, <1>7, <1>8, <1>9 DEF StoreTypes
  <1> QED
    BY <1>2, <1>4, <1>10

LEMMA HandlersTypes ==
  ASSUME CloneTypes, NEW s \in Servers, StateHandlers(s)
  PROVE  StoreTypes'
  <1>1. CASE UNCHANGED <<storeVars, feed, news>>
    BY <1>1 DEF StoreTypes, CloneTypes, storeVars
  <1>2. CASE NewActive(s)
    BY <1>2, NewActiveTypes
  <1>3. CASE NewPassive(s)
    BY <1>3, EmptyFacts DEF NewPassive, StoreTypes, CloneTypes
  <1> QED
    BY <1>1, <1>2, <1>3 DEF StateHandlers

\* One message of a server to its peer.
LEMMA PublishTypes ==
  ASSUME CloneTypes, NEW s \in Servers, NEW m \in Messages, Publish(s, <<m>>)
  PROVE  /\ feed' = [feed EXCEPT ![Peer(s)] =
                       IF Up(Peer(s)) /\ state[Peer(s)] # "ACTIVE" THEN @ \o <<m>> ELSE @]
         /\ feed' \in [Servers -> Seq(Messages)]
  <1>1. feed[Peer(s)] \o <<m>> \in Seq(Messages)
    <2>1. <<m>> \in Seq(Messages) /\ feed[Peer(s)] \in Seq(Messages)
      BY SMTT(40), PeerFacts DEF CloneTypes
    <2> QED
      BY <2>1, Joined
  <1> QED
    BY <1>1, PeerFacts DEF Publish, CloneTypes

LEMMA SubscribeTypes ==
  ASSUME CloneTypes, NEW s \in Servers, feed[s] # <<>>,
         NEW map \in Maps, NEW n \in Nat, NEW L \in Nat, Subscribe(s, map, n, L)
  PROVE  /\ StoreTypes'
         /\ Head(feed[s]) \in Messages /\ MessageFields(Head(feed[s]))
         /\ Head(feed[s]).u # 0 => Head(feed[s]).u \in Updates
  <1>0. PICK m, p : m = Head(feed[s]) /\ p = [u |-> m.u, del |-> m.del]
    OBVIOUS
  <1>1. m \in Messages /\ MessageFields(m) /\ Tail(feed[s]) \in Seq(Messages)
    <2>1. feed[s] \in Seq(Messages)
      BY DEF CloneTypes
    <2>2. m \in Messages /\ Tail(feed[s]) \in Seq(Messages)
      BY <1>0, <2>1
    <2> QED
      BY <2>2 DEF Messages, MessageFields
  <1>2. p.u = m.u /\ p.del = m.del /\ m.del \in BOOLEAN /\ m.n \in Nat
        /\ (m.u # 0 => m.u \in Updates)
    BY <1>0, <1>1 DEF MessageFields, Updates
  <1>3. m.u # 0 => p \in Pendings
    BY <1>0, <1>2 DEF Pendings
  <1>4. m.u # 0 => With(pending[s], p) \in Seq(Pendings)
    BY <1>3, WithFacts DEF CloneTypes
  <1>5. Store(map, p) \in Maps
    BY <1>2, StoreFacts
  <1>6. /\ feed' = [feed EXCEPT ![s] = Tail(@)]
        /\ pending' = [pending EXCEPT ![s] = IF m.u = 0 THEN @ ELSE With(@, p)]
        /\ kvmap' = [kvmap EXCEPT ![s] = IF m.u # 0 /\ m.n > n THEN Store(map, p) ELSE map]
        /\ sequence' = [sequence EXCEPT ![s] = IF m.u # 0 /\ m.n > n THEN m.n ELSE n]
        /\ skewed' = IF m.u # 0 /\ m.life # L THEN skewed \cup {s} ELSE skewed
        /\ from' = [from EXCEPT ![s] = L]
        /\ UNCHANGED <<mapped, got>>
    BY <1>0 DEF Subscribe
  <1>7. feed' \in [Servers -> Seq(Messages)] /\ pending' \in [Servers -> Seq(Pendings)]
    BY <1>1, <1>4, <1>6 DEF CloneTypes
  <1>8. kvmap' \in [Servers -> Maps] /\ sequence' \in [Servers -> Nat]
        /\ from' \in [Servers -> Nat]
    BY <1>2, <1>5, <1>6 DEF CloneTypes
  <1>9. skewed' \subseteq Servers
    BY <1>6 DEF CloneTypes
  <1> QED
    BY <1>0, <1>1, <1>2, <1>6, <1>7, <1>8, <1>9 DEF StoreTypes, CloneTypes

-----------------------------------------------------------------------------
(* A step of one server, seen by itself and by the other                   *)

\* The entries of a server that only its own steps change.
Same(r) ==
  /\ state'[r] = state[r] /\ life'[r] = life[r] /\ kvmap'[r] = kvmap[r]
  /\ sequence'[r] = sequence[r] /\ pending'[r] = pending[r]
  /\ got'[r] = got[r] /\ from'[r] = from[r] /\ (r \in mapped' <=> r \in mapped)
  /\ (r \in skewed' <=> r \in skewed) /\ (r \in stuck' <=> r \in stuck)

\* What the step of s does to the messages on their way to its peer.
FeedOut(s, r) ==
  \/ Grows(s) /\ feed'[r] = feed[r]
  \/ \E ms \in Seq(Messages) : /\ Publishes(s, ms) /\ feed'[r] = feed[r] \o ms /\ Up(r)
                               /\ \A u \in About(ms) : u <= sets
  \/ \E m \in Messages : /\ Grows(s) /\ feed[r] = <<>> /\ feed'[r] = <<m>> /\ Up(r)
                         /\ m.u = 0 /\ m.life = life[s]

FeedIn(s) ==
  \/ feed'[s] = feed[s] \/ feed'[s] = <<>>
  \/ feed[s] # <<>> /\ feed'[s] = Tail(feed[s])

Carried(s) ==
  \A map \in Maps, n \in Nat, L \in Nat : Includes(s, map, n, L) => Includes(s, map, n, L)'

\* A server that a step leaves alone goes on in its life.
LEMMA SameGrows ==
  ASSUME CloneTypes, CloneTypes', NEW r \in Servers, Same(r)
  PROVE  Grows(r)
  <1>1. /\ life[r] \in Nat /\ sequence[r] \in Nat /\ life'[r] = life[r]
        /\ sequence'[r] = sequence[r] /\ kvmap'[r] = kvmap[r] /\ state'[r] = state[r]
    BY DEF Same, CloneTypes
  <1> QED
    BY <1>1 DEF Grows, Up

\* A HUGZ brings no update.
LEMMA OneHugz ==
  ASSUME CloneTypes, CloneTypes', NEW r \in Servers, FeedOK(r), NEW m \in Messages,
         Grows(Peer(r)), feed[r] = <<>>, feed'[r] = <<m>>, m.u = 0, m.life = life[Peer(r)]
  PROVE  FeedOK(r)' /\ Carried(r)
  <1>0. PICK q : q = Peer(r)
    OBVIOUS
  <1>1. q \in Servers /\ life[q] \in Nat /\ life'[q] \in Nat /\ sequence[q] \in Nat
        /\ sequence'[q] \in Nat
    BY <1>0, PeerPeer DEF CloneTypes
  <1>2. life'[q] >= life[q] /\ (Up(q)' /\ life'[q] = life[q] => Up(q) /\ sequence'[q] >= sequence[q])
    BY <1>0 DEF Grows
  <1>3. PICK g : g = feed'[r]
    OBVIOUS
  <1>4. Len(g) = 1 /\ g[1] = m
    BY <1>3
  <1>5. m.life <= life'[q]
    BY <1>0, <1>1, <1>2
  <1>6. FeedOK(r)'
    BY <1>0, <1>3, <1>4, <1>5 DEF FeedOK
  <1>7. ASSUME NEW map \in Maps, NEW n \in Nat, NEW L \in Nat, Includes(r, map, n, L)
        PROVE  Includes(r, map, n, L)'
    <2>1. L <= life[q] /\ (L = life[q] /\ Up(q) => n <= sequence[q])
      BY <1>0, <1>7 DEF Includes
    <2>2. L <= life'[q] /\ (L = life'[q] /\ Up(q)' => n <= sequence'[q])
      BY <1>1, <1>2, <2>1
    <2> QED
      BY <1>0, <1>3, <1>4, <2>2 DEF Includes
  <1> QED
    BY <1>6, <1>7 DEF Carried

\* Whatever s sends, the list of its peer stays in order and every map includes what it did.
LEMMA FeedOfPeer ==
  ASSUME CloneTypes, CloneTypes', NEW s \in Servers, NEW r, r = Peer(s),
         FeedOK(r), FeedOut(s, r)
  PROVE  FeedOK(r)' /\ Carried(r)
  <1>0. r \in Servers /\ Peer(r) = s
    BY PeerPeer
  <1>1. CASE Grows(s) /\ feed'[r] = feed[r]
    BY <1>0, <1>1, FeedTaken DEF Carried
  <1>2. CASE \E ms \in Seq(Messages) : Publishes(s, ms) /\ feed'[r] = feed[r] \o ms
    BY <1>0, <1>2, FeedGrows DEF Carried
  <1>3. CASE \E m \in Messages : /\ Grows(s) /\ feed[r] = <<>> /\ feed'[r] = <<m>>
                                 /\ m.u = 0 /\ m.life = life[s]
    BY <1>0, <1>3, OneHugz
  <1> QED
    BY <1>1, <1>2, <1>3 DEF FeedOut

\* The list of the peer: what it is about, and that it does not come from nothing.
LEMMA ListOfPeer ==
  ASSUME CloneTypes, NEW s \in Servers, NEW r, r = Peer(s), FeedOut(s, r),
         \A u \in About(feed[r]) : u <= sets
  PROVE  /\ \A u \in About(feed'[r]) : u <= sets
         /\ feed[r] # <<>> => feed'[r] # <<>>
         /\ state[r] = "down" => feed'[r] = feed[r]
  <1>0. r \in Servers /\ feed[r] \in Seq(Messages) /\ sets \in Nat
    BY PeerPeer, CloneAssumption DEF CloneTypes
  <1>1. CASE feed'[r] = feed[r]
    BY <1>1
  <1>2. CASE \E ms \in Seq(Messages) : /\ feed'[r] = feed[r] \o ms /\ Up(r)
                                       /\ \A u \in About(ms) : u <= sets
    <2>1. PICK ms \in Seq(Messages) : /\ feed'[r] = feed[r] \o ms /\ Up(r)
                                      /\ \A u \in About(ms) : u <= sets
      BY <1>2
    <2>2. PICK f, g : f = feed[r] /\ g = feed'[r]
      OBVIOUS
    <2>3. f \in Seq(Messages) /\ g = f \o ms
      BY <1>0, <2>1, <2>2
    <2>4. About(g) = About(f) \cup About(ms)
      BY <2>3, Joined
    <2>5. f # <<>> => g # <<>>
      <3>1. Len(g) = Len(f) + Len(ms) /\ Len(f) \in Nat /\ Len(ms) \in Nat
        BY <2>3, Joined
      <3>2. f # <<>> => Len(f) # 0
        BY <2>3
      <3>3. g = <<>> => Len(g) = 0
        OBVIOUS
      <3> QED
        BY <3>1, <3>2, <3>3
    <2> QED
      BY <2>1, <2>2, <2>4, <2>5 DEF Up
  <1>3. CASE \E m \in Messages : feed[r] = <<>> /\ feed'[r] = <<m>> /\ Up(r) /\ m.u = 0
    <2>1. PICK m \in Messages : feed[r] = <<>> /\ feed'[r] = <<m>> /\ Up(r) /\ m.u = 0
      BY <1>3
    <2>2. About(<<m>>) = {0}
      BY <2>1, AboutOne
    <2> QED
      BY <1>0, <2>1, <2>2 DEF Up
  <1> QED
    BY <1>1, <1>2, <1>3 DEF FeedOut

\* A server whose own entries stay as they are.
LEMMA OwnKept ==
  ASSUME CloneTypes, NEW r \in Servers, OwnOK(r), Same(r), Carried(r), UNCHANGED sets,
         collector'[r] = collector[r], \A u \in About(feed'[r]) : u <= sets,
         feed[r] # <<>> => feed'[r] # <<>>, state[r] = "down" => feed'[r] = feed[r]
  PROVE  OwnOK(r)'
  <1>1. SentOK(r)'
    BY DEF OwnOK, SentOK, Same
  <1>2. StuckOK(r)' /\ (Blank(r)' <=> Blank(r)) /\ BlankOK(r)'
    BY DEF OwnOK, StuckOK, BlankOK, Blank, Same
  <1>3. MapOK(r)'
    <2>1. PICK map \in Maps, n \in Nat, L \in Nat :
            map = kvmap[r] /\ n = sequence[r] /\ L = from[r]
      BY DEF CloneTypes
    <2>2. Includes(r, map, n, L) => Includes(r, map, n, L)'
      BY DEF Carried
    <2>3. map = kvmap'[r] /\ n = sequence'[r] /\ L = from'[r]
      BY <2>1 DEF Same
    <2>4. ASSUME ~Blank(r), r \notin skewed
          PROVE  /\ \A u \in got[r] : map[u] # "none" \/ u \in About(pending[r])
                 /\ \A u \in About(pending[r]) \ got[r] : map[u] # "none"
                 /\ state[r] = "PASSIVE" => Includes(r, map, n, L)
      BY <2>1, <2>4 DEF OwnOK, MapOK
    <2> QED
      BY <1>2, <2>2, <2>3, <2>4 DEF MapOK, Same
  <1> QED
    BY <1>1, <1>2, <1>3 DEF OwnOK

\* The peer of the server that takes the step.
LEMMA PeerKeeps ==
  ASSUME CloneTypes, CloneTypes', NEW s \in Servers, NEW r, r = Peer(s),
         OwnOK(r), FeedOK(r), Same(r), FeedOut(s, r), UNCHANGED sets,
         collector'[r] = collector[r]
  PROVE  OwnOK(r)' /\ FeedOK(r)' /\ Carried(r)
  <1>1. r \in Servers /\ FeedOK(r)' /\ Carried(r)
    BY FeedOfPeer, PeerPeer
  <1>2. \A u \in About(feed[r]) : u <= sets
    BY DEF OwnOK, SentOK
  <1>3. /\ \A u \in About(feed'[r]) : u <= sets
        /\ feed[r] # <<>> => feed'[r] # <<>>
        /\ state[r] = "down" => feed'[r] = feed[r]
    BY <1>2, ListOfPeer
  <1> QED
    BY <1>1, <1>3, OwnKept

\* A server that reads its list, or drops it, leaves the rest in order.
LEMMA OwnFeed ==
  ASSUME CloneTypes, CloneTypes', NEW s \in Servers, FeedOK(s), Same(Peer(s)), FeedIn(s)
  PROVE  FeedOK(s)' /\ Carried(s)
  <1>1. Grows(Peer(s))
    BY PeerPeer, SameGrows
  <1> QED
    BY <1>1, FeedTaken DEF FeedIn, Carried

\* A step of s that leaves alone what is its peer's.
Alone(s, r) ==
  /\ Same(r) /\ UNCHANGED sets /\ collector'[r] = collector[r]
  /\ FeedOut(s, r) /\ FeedIn(s)

LEMMA AloneKeeps ==
  ASSUME CloneTypes, CloneTypes', Stores, NEW s \in Servers, NEW r, r = Peer(s),
         Alone(s, r), OwnOK(s)', SnapOK(s)',
         SnapOK(r)' \/ (snap'[r] = snap[r] /\ ("peer" \in asks'[s] => "peer" \in asks[s]))
  PROVE  Stores'
  <1>0. r \in Servers /\ Peer(r) = s /\ Servers = {s, r}
    BY PeerPeer, PeerFacts
  <1>1. OwnOK(r)' /\ FeedOK(r)' /\ Carried(r)
    BY <1>0, PeerKeeps DEF Alone, Stores
  <1>2. FeedOK(s)'
    BY OwnFeed DEF Alone, Stores
  <1>3. CASE snap'[r] = snap[r] /\ ("peer" \in asks'[s] => "peer" \in asks[s])
    <2>1. \A shot \in snap[r] : shot.kv \in Maps /\ shot.n \in Nat /\ shot.life \in Nat
      <3>1. snap[r] \subseteq Shots
        BY <1>0 DEF CloneTypes
      <3> QED
        BY <3>1 DEF Shots
    <2>2. SnapOK(r) /\ UNCHANGED sets /\ (r \in stuck' <=> r \in stuck)
      BY <1>0 DEF Stores, Alone, Same
    <2>3. \A shot \in snap[r] : Includes(r, shot.kv, shot.n, shot.life)'
      BY <1>1, <2>1, <2>2 DEF SnapOK, Carried
    <2>4. "peer" \in asks'[s] => r \in stuck' /\ snap'[r] = {}
      BY <1>0, <1>3, <2>2 DEF SnapOK
    <2>5. \A x, y \in snap'[r] : x = y
      BY <1>3, <2>2 DEF SnapOK
    <2>6. \A shot \in snap'[r] :
            r \in stuck' /\ \A u \in Updates : shot.kv[u] # "none" => u <= sets'
      BY <1>3, <2>2 DEF SnapOK
    <2>7. \A shot \in snap'[r] : Includes(r, shot.kv, shot.n, shot.life)'
      BY <1>3, <2>3
    <2>8. SnapOK(r)'
      BY <1>0, <2>4, <2>5, <2>6, <2>7 DEF SnapOK
    <2> QED
      BY <1>0, <1>1, <1>2, <2>8 DEF Stores
  <1> QED
    BY <1>0, <1>1, <1>2, <1>3 DEF Stores

\* A step in which the server asks nothing and gets no snapshot.
LEMMA OwnSnap ==
  ASSUME CloneTypes, CloneTypes', NEW s \in Servers, FeedOK(s), SnapOK(s),
         Same(Peer(s)), FeedIn(s), UNCHANGED sets, snap'[s] = snap[s],
         s \in stuck => s \in stuck', "peer" \in asks'[Peer(s)] => "peer" \in asks[Peer(s)]
  PROVE  SnapOK(s)'
  <1>1. Carried(s)
    BY OwnFeed
  <1>2. \A shot \in snap[s] : shot.kv \in Maps /\ shot.n \in Nat /\ shot.life \in Nat
    <2>1. snap[s] \subseteq Shots
      BY DEF CloneTypes
    <2> QED
      BY <2>1 DEF Shots
  <1>3. \A shot \in snap'[s] : Includes(s, shot.kv, shot.n, shot.life)'
    BY <1>1, <1>2 DEF SnapOK, Carried
  <1>4. "peer" \in asks'[Peer(s)] => s \in stuck' /\ snap'[s] = {}
    BY DEF SnapOK
  <1>5. \A x, y \in snap'[s] : x = y
    BY DEF SnapOK
  <1>6. \A shot \in snap'[s] :
          s \in stuck' /\ \A u \in Updates : shot.kv[u] # "none" => u <= sets'
    BY DEF SnapOK
  <1> QED
    BY <1>3, <1>4, <1>5, <1>6 DEF SnapOK

-----------------------------------------------------------------------------
(* The reactor: ends, starts and changes of state                          *)

\* Nothing changes that the stores depend on.
Still ==
  /\ UNCHANGED <<state, stuck, life, storeVars, feed, snap, collector, sets>>
  /\ \A s \in Servers : "peer" \in asks'[s] <=> "peer" \in asks[s]

\* The stores, when nothing that they depend on changes.
LEMMA StillKeeps ==
  ASSUME Stores, Still
  PROVE  Stores'
  <1> SUFFICES ASSUME NEW s \in Servers PROVE OwnOK(s)' /\ FeedOK(s)' /\ SnapOK(s)'
    BY DEF Stores
  <1>1. OwnOK(s) /\ FeedOK(s) /\ SnapOK(s) /\ Peer(s) \in Servers
    BY PeerPeer DEF Stores
  <1>2. UNCHANGED <<state, stuck, life, storeVars, feed, snap, collector, sets>>
    BY DEF Still
  <1>3. FeedOK(s)'
    BY <1>1, <1>2 DEF FeedOK, Up, storeVars
  <1>4. OwnOK(s)'
    BY <1>1, <1>2 DEF OwnOK, SentOK, StuckOK, BlankOK, Blank, MapOK, Includes, Up, storeVars
  <1>5. SnapOK(s)'
    BY <1>1, <1>2 DEF SnapOK, Includes, Up, storeVars, Still
  <1> QED
    BY <1>3, <1>4, <1>5

\* The process of s ends.
Ends(s) == Die(s) /\ Gone(s) /\ UNCHANGED <<clientVars, life, late, agentVars>>

\* The stores, when a process ends: the peer keeps what it had.
LEMMA EndsKeeps ==
  ASSUME PairTypes, CloneTypes, Stores, NEW s \in Servers, Ends(s)
  PROVE  CloneTypes' /\ Stores'
  <1>0. PICK r \in Servers : r = Peer(s) /\ r # s
    BY PeerPeer
  <1>1. CloneTypes'
    <2>1. StoreTypes' /\ NetTypes' /\ joined' \subseteq Servers
      BY GoneTypes DEF Ends
    <2>2. RestTypes'
      BY <2>1 DEF Ends, Die, RestTypes, CloneTypes, clientVars
    <2> QED
      BY <2>1, <2>2, TypeParts
  <1>2. /\ state'[s] = "down" /\ kvmap'[s] = Empty /\ sequence'[s] = 0 /\ pending'[s] = <<>>
        /\ got'[s] = {} /\ from'[s] = 0 /\ s \notin skewed' /\ collector'[s] = <<>>
        /\ feed'[s] = <<>> /\ snap'[s] = {} /\ s \notin stuck' /\ "peer" \notin asks'[r]
        /\ asks'[s] = {} /\ UNCHANGED <<life, sets>>
    BY <1>0 DEF Ends, Die, Gone, PairTypes, CloneTypes
  <1>3. /\ Same(r) /\ collector'[r] = collector[r] /\ feed'[r] = feed[r] /\ snap'[r] = snap[r]
    BY <1>0 DEF Ends, Die, Gone, PairTypes, CloneTypes, Same
  <1>4. Grows(s)
    BY <1>2 DEF Grows, Up, CloneTypes
  <1>5. Alone(s, r)
    BY <1>2, <1>3, <1>4 DEF Alone, FeedOut, FeedIn
  <1>6. OwnOK(s)'
    <2>1. About(<<>>) = {}
      BY AboutOne
    <2>2. SentOK(s)'
      BY <1>2, <2>1, EmptyFacts DEF SentOK
    <2>3. StuckOK(s)' /\ BlankOK(s)' /\ MapOK(s)'
      BY <1>2, <2>1 DEF StuckOK, BlankOK, MapOK, Blank
    <2> QED
      BY <2>2, <2>3 DEF OwnOK
  <1>7. SnapOK(s)'
    BY <1>0, <1>2 DEF SnapOK
  <1> QED
    BY <1>0, <1>1, <1>2, <1>3, <1>5, <1>6, <1>7, AloneKeeps

\* A start stays within the bound on the lives.
LEMMA RestartTypes ==
  ASSUME CloneTypes, NEW s \in Servers, Restart(s)
  PROVE  /\ late' \in 0 .. MaxLate
         /\ life' \in [Servers -> Nat \ {0}] /\ life'["p"] + life'["b"] <= 2 + MaxRestarts
  <1>1. life' \in [Servers -> Nat \ {0}] /\ life'["p"] + life'["b"] <= 2 + MaxRestarts
    <2>1. life \in [Servers -> Nat \ {0}] /\ life["p"] + life["b"] < 2 + MaxRestarts
          /\ life' = [life EXCEPT ![s] = @ + 1]
      BY DEF CloneTypes, Restart
    <2>2. life["p"] \in Nat /\ life["b"] \in Nat /\ life[s] \in Nat
      BY <2>1, PeerFacts
    <2>3. life' \in [Servers -> Nat \ {0}]
      BY <2>1, <2>2
    <2>4. life'["p"] + life'["b"] = life["p"] + life["b"] + 1
      <3>1. CASE s = "p"
        BY <2>1, <2>2, <3>1, PeerFacts
      <3>2. CASE s = "b"
        BY <2>1, <2>2, <3>2, PeerFacts
      <3> QED
        BY <3>1, <3>2, PeerFacts
    <2> QED
      BY <2>1, <2>2, <2>3, <2>4, BinaryStarAssumption
  <1>2. late' \in 0 .. MaxLate
    <2>1. late \in 0 .. MaxLate /\ (late' = late \/ (late < MaxLate /\ late' = late + 1))
      <3>2. late' = late \/ (late < MaxLate /\ late' = late + 1)
        <4>1. CASE inbox[Peer(s)] = {}
          BY <4>1 DEF Restart
        <4>2. CASE inbox[Peer(s)] # {}
          BY <4>2 DEF Restart
        <4> QED
          BY <4>1, <4>2
      <3> QED
        BY <3>2 DEF CloneTypes
    <2> QED
      BY <2>1, BinaryStarAssumption
  <1> QED
    BY <1>1, <1>2

\* A server that starts again is blank, in a life of its own.
LEMMA RestartStores ==
  ASSUME PairTypes, CloneTypes, Stores, NEW s \in Servers, CloneRestart(s)
  PROVE  CloneTypes' /\ Stores'
  <1>0. PICK r \in Servers : r = Peer(s) /\ r # s
    BY PeerPeer
  <1>1. CloneTypes'
    <2>1. StoreTypes' /\ NetTypes'
      BY DEF StoreTypes, NetTypes, CloneTypes, CloneRestart, cloneVars, storeVars, netVars
    <2>2. /\ late' \in 0 .. MaxLate
          /\ life' \in [Servers -> Nat \ {0}] /\ life'["p"] + life'["b"] <= 2 + MaxRestarts
      BY RestartTypes DEF CloneRestart
    <2>4. RestTypes'
      BY <2>2 DEF RestTypes, CloneTypes, CloneRestart, Restart, clientVars, cloneVars,
                        sockVars
    <2> QED
      BY <2>1, <2>4, TypeParts
  <1>2. /\ state[s] = "down" /\ state'[s] \in {"PRIMARY", "BACKUP"} /\ life'[s] = life[s] + 1
        /\ UNCHANGED <<stuck, storeVars, sets, collector, feed, asks, snap>>
    BY PeerFacts DEF CloneRestart, Restart, Up, PairTypes, CloneTypes, cloneVars, netVars
  <1>3. Same(r)
    BY <1>0, <1>2 DEF CloneRestart, Restart, Same, storeVars, PairTypes, CloneTypes
  <1>4. Grows(s)
    <2>1. life[s] \in Nat /\ life'[s] = life[s] + 1
      BY <1>2 DEF CloneTypes
    <2> QED
      BY <2>1 DEF Grows
  <1>5. Alone(s, r)
    BY <1>2, <1>3, <1>4 DEF Alone, FeedOut, FeedIn
  <1>6. OwnOK(s)'
    <2>1. OwnOK(s)
      BY DEF Stores
    <2>2. SentOK(s)'
      BY <1>2, <2>1 DEF OwnOK, SentOK, storeVars
    <2>3. StuckOK(s)' /\ BlankOK(s)' /\ MapOK(s)'
      BY <1>2, <2>1 DEF OwnOK, StuckOK, BlankOK, MapOK, Blank, storeVars
    <2> QED
      BY <2>2, <2>3 DEF OwnOK
  <1>7. SnapOK(s)'
    BY <1>0, <1>1, <1>2, <1>5, OwnSnap DEF Stores, Alone
  <1> QED
    BY <1>0, <1>1, <1>2, <1>3, <1>5, <1>6, <1>7, AloneKeeps

\* A server becomes active, or passive, inside a step that changes nothing else of its own.
Turns(s, new) ==
  /\ Runs(s) /\ state' = [state EXCEPT ![s] = new] /\ new # state[s]
  /\ UNCHANGED <<stuck, life, sets, collector>>

\* The pending updates are applied: everything collected is in the map then.
LEMMA TurnsActive ==
  ASSUME PairTypes, CloneTypes, Stores, NEW s \in Servers, Turns(s, "ACTIVE"), NewActive(s),
         s \in mapped \/ pending[s] = <<>>
  PROVE  StoreTypes' /\ Alone(s, Peer(s)) /\ OwnOK(s)'
  <1>0. PICK r \in Servers : r = Peer(s) /\ r # s
    BY PeerPeer
  <1>1. PICK ms \in Seq(Messages) :
          /\ Taking(s, ms) /\ About(ms) = About(pending[s]) /\ Len(ms) \in Nat
          /\ \A i \in 1 .. Len(ms) : /\ ms[i].n = sequence[s] + i /\ ms[i].life = life[s]
                                     /\ ms[i].u \in Updates /\ ms[i].u \in About(pending[s])
    BY NewActiveTypes
  <1>2. StoreTypes'
    BY NewActiveTypes
  <1>3. PICK map, new : /\ map = kvmap[s] /\ map \in Maps
                        /\ new = Apply(map, pending[s], DOMAIN pending[s]) /\ new \in Maps
                        /\ \A u \in Updates : map[u] # "none" \/ u \in About(pending[s])
                                                <=> new[u] # "none"
    <2>1. PICK map \in Maps : map = kvmap[s]
      BY DEF CloneTypes
    <2>2. PICK new : new = Apply(map, pending[s], DOMAIN pending[s])
      OBVIOUS
    <2> QED
      BY <2>1, <2>2, ApplyFacts
  <1>4. /\ kvmap'[s] = new /\ sequence'[s] = sequence[s] + Len(ms) /\ pending'[s] = <<>>
        /\ feed'[s] = <<>> /\ feed'[r] = IF Up(r) THEN feed[r] \o ms ELSE feed[r]
        /\ UNCHANGED <<mapped, got, from, skewed>>
    BY <1>0, <1>1, <1>3 DEF Taking, CloneTypes
  <1>5. /\ Up(s) /\ s \notin stuck /\ state'[s] = "ACTIVE" /\ state'[r] = state[r]
        /\ UNCHANGED <<stuck, life, sets, collector>>
    BY <1>0 DEF Turns, Runs, PairTypes
  <1>6. Same(r)
    BY <1>0, <1>1, <1>4, <1>5 DEF Same, Taking, CloneTypes
  <1>7. Publishes(s, ms)
    BY <1>1, <1>3, <1>4, <1>5 DEF Publishes, Up
  <1>8. Grows(s)
    <2>1. sequence[s] \in Nat /\ life[s] \in Nat
      BY DEF CloneTypes
    <2> QED
      BY <1>1, <1>3, <1>4, <1>5, <2>1 DEF Grows
  <1>9. OwnOK(s)
    BY DEF Stores
  <1>10. \A u \in About(ms) : u <= sets
    BY <1>1, <1>9 DEF OwnOK, SentOK
  <1>11. FeedOut(s, r)
    BY <1>4, <1>7, <1>8, <1>10 DEF FeedOut
  <1>12. Alone(s, r)
    BY <1>4, <1>5, <1>6, <1>11 DEF Alone, FeedIn
  <1>13. About(pending'[s]) = {} /\ About(feed'[s]) = {}
    BY <1>4, AboutOne
  <1>14. SentOK(s)'
    BY <1>3, <1>4, <1>5, <1>9, <1>13 DEF OwnOK, SentOK
  <1>15. StuckOK(s)'
    BY <1>5 DEF StuckOK
  <1>16. BlankOK(s)'
    <2>1. ASSUME s \notin mapped PROVE kvmap'[s] = Empty /\ sequence'[s] = 0 /\ got[s] = {}
      <3>1. Blank(s) /\ pending[s] = <<>>
        BY <2>1 DEF Blank
      <3>2. map = Empty /\ sequence[s] = 0 /\ About(pending[s]) = got[s]
        BY <1>3, <1>9, <3>1 DEF OwnOK, BlankOK
      <3>3. got[s] = {} /\ About(pending[s]) = {}
        BY <3>1, <3>2, AboutOne
      <3>4. Len(ms) = 0
        <4>1. ~(1 \in 1 .. Len(ms))
          BY <1>1, <3>3
        <4> QED
          BY <1>1, <4>1
      <3>5. \A u \in Updates : new[u] = "none"
        BY <1>3, <3>2, <3>3, EmptyFacts
      <3>6. new = Empty
        BY <1>3, <3>5 DEF Empty, Maps
      <3> QED
        BY <1>4, <3>2, <3>3, <3>4, <3>6
    <2>2. Blank(s)' => s \notin mapped
      BY <1>4, <1>5 DEF Blank
    <2> QED
      BY <1>4, <1>5, <1>13, <2>1, <2>2 DEF BlankOK
  <1>17. MapOK(s)'
    <2>1. ASSUME s \notin skewed, NEW u \in got[s] PROVE new[u] # "none"
      <3>1. map[u] # "none" \/ u \in About(pending[s])
        BY <1>3, <1>9, <2>1 DEF OwnOK, MapOK, BlankOK
      <3> QED
        BY <1>3, <2>1, <3>1 DEF CloneTypes
    <2> QED
      BY <1>4, <1>5, <1>13, <2>1 DEF MapOK
  <1>18. OwnOK(s)'
    BY <1>14, <1>15, <1>16, <1>17 DEF OwnOK
  <1> QED
    BY <1>0, <1>2, <1>12, <1>18

\* The map of a server that turns passive is empty, and everything collected is pending.
LEMMA TurnsPassive ==
  ASSUME PairTypes, CloneTypes, Stores, NEW s \in Servers, Turns(s, "PASSIVE"), NewPassive(s),
         state[s] \in {"PRIMARY", "BACKUP"}
  PROVE  StoreTypes' /\ Alone(s, Peer(s)) /\ OwnOK(s)'
  <1>0. PICK r \in Servers : r = Peer(s) /\ r # s
    BY PeerPeer
  <1>2. StoreTypes'
    BY EmptyFacts DEF NewPassive, StoreTypes, CloneTypes
  <1>3. /\ Up(s) /\ s \notin stuck /\ state'[s] = "PASSIVE" /\ s \notin mapped'
        /\ kvmap'[s] = Empty
        /\ UNCHANGED <<sequence, pending, feed, got, from, skewed, stuck, life, sets, collector>>
    BY DEF Turns, Runs, PairTypes, CloneTypes, NewPassive
  <1>4. Same(r)
    BY <1>0 DEF Same, NewPassive, Turns, PairTypes, CloneTypes
  <1>5. OwnOK(s)
    BY DEF Stores
  <1>6. Blank(s) /\ kvmap[s] = Empty /\ sequence[s] = 0 /\ About(pending[s]) = got[s]
    BY <1>5 DEF Blank, OwnOK, BlankOK
  <1>7. Grows(s)
    BY <1>3, <1>6 DEF Grows, CloneTypes
  <1>8. Alone(s, r)
    BY <1>3, <1>4, <1>7 DEF Alone, FeedOut, FeedIn
  <1>9. SentOK(s)'
    BY <1>3, <1>5, EmptyFacts DEF OwnOK, SentOK
  <1>10. StuckOK(s)' /\ BlankOK(s)' /\ MapOK(s)'
    BY <1>3, <1>6 DEF StuckOK, BlankOK, MapOK, Blank
  <1> QED
    BY <1>0, <1>2, <1>8, <1>9, <1>10 DEF OwnOK

\* What the handlers do with a change of state, and when there is none.
LEMMA HandlersKeep ==
  ASSUME PairTypes, CloneTypes, Stores, NEW s \in Servers, NEW new,
         Runs(s), state' = [state EXCEPT ![s] = new], StateHandlers(s),
         UNCHANGED <<stuck, life, sets, collector>>,
         NetTypes', RestTypes',
         new \in {state[s], "ACTIVE"} \/ (new = "PASSIVE" /\ state[s] \in {"PRIMARY", "BACKUP"}),
         new # state[s] /\ new = "ACTIVE" => s \in mapped \/ pending[s] = <<>>
  PROVE  CloneTypes' /\ Alone(s, Peer(s)) /\ OwnOK(s)'
  <1>0. state'[s] = new
    BY DEF PairTypes
  <1>1. CASE new = state[s]
    <2>1. UNCHANGED <<state, storeVars, feed>>
      BY <1>0, <1>1 DEF StateHandlers, PairTypes
    <2>2. CloneTypes'
      <3>1. StoreTypes'
        BY <2>1 DEF StoreTypes, CloneTypes, storeVars
      <3> QED
        BY <3>1, TypeParts
    <2>3. Same(s) /\ Same(Peer(s))
      BY <2>1 DEF Same, storeVars
    <2>4. Grows(s) /\ FeedIn(s)
      BY <2>1, <2>2, <2>3, SameGrows DEF FeedIn
    <2>5. Alone(s, Peer(s))
      BY <2>1, <2>3, <2>4 DEF Alone, FeedOut
    <2>6. OwnOK(s) /\ FeedOK(s)
      BY DEF Stores
    <2>7. Carried(s)
      BY <2>2, <2>3, <2>4, <2>6, OwnFeed
    <2>8. \A u \in About(feed'[s]) : u <= sets
      BY <2>1, <2>6 DEF OwnOK, SentOK
    <2>9. OwnOK(s)'
      BY <2>1, <2>3, <2>6, <2>7, <2>8, OwnKept
    <2> QED
      BY <2>2, <2>5, <2>9
  <1>2. CASE new # state[s] /\ new = "ACTIVE"
    <2>1. Turns(s, "ACTIVE") /\ NewActive(s)
      BY <1>0, <1>2 DEF Turns, StateHandlers
    <2> QED
      BY <1>2, <2>1, TurnsActive, TypeParts
  <1>3. CASE new = "PASSIVE" /\ state[s] \in {"PRIMARY", "BACKUP"}
    <2>1. Turns(s, "PASSIVE") /\ NewPassive(s)
      BY <1>0, <1>3 DEF Turns, StateHandlers
    <2> QED
      BY <1>3, <2>1, TurnsPassive, TypeParts
  <1> QED
    BY <1>1, <1>2, <1>3

\* The states that an event leads to.
LEMMA Moved ==
  ASSUME NEW st \in States, NEW event, NEW exp \in BOOLEAN
  PROVE  /\ Move(st, event, exp) \in {st, "ACTIVE"}
              \/ (Move(st, event, exp) = "PASSIVE" /\ st \in {"PRIMARY", "BACKUP"})
         /\ Move(st, "REQUEST", exp) \in {st, "ACTIVE"}
         /\ Exception(st, "REQUEST", exp) => Move(st, "REQUEST", exp) = st
  <1>1. \/ Move(st, event, exp) \in {st, "ACTIVE"}
        \/ Move(st, event, exp) = "PASSIVE" /\ st \in {"PRIMARY", "BACKUP"}
    BY DEF Move, States
  <1>2. Move(st, "REQUEST", exp) \in {st, "ACTIVE"}
    BY DEF Move, States
  <1>3. Exception(st, "REQUEST", exp) => Move(st, "REQUEST", exp) = st
    <2>1. CASE exp = TRUE
      BY <2>1 DEF Move, States, Exception
    <2>2. CASE exp = FALSE
      BY <2>2 DEF Move, States, Exception
    <2> QED
      BY <2>1, <2>2
  <1> QED
    BY <1>1, <1>2, <1>3

\* A state that comes is an exception, a change of the own state, or neither.
Turned(s) ==
  /\ Runs(s) /\ StateHandlers(s)
  /\ \E event \in inbox[s] :
       /\ state' = [state EXCEPT ![s] = Heard(s, event)]
       /\ Heard(s, event) = "ACTIVE" => s \in mapped \/ pending[s] = <<>>
  /\ UNCHANGED <<stuck, clientVars, life, late, sets, collector, asks, snap, joined, agentVars,
                 replies>>

\* s_send_state of the peer ends the process or turns the server.
LEMMA RecvCases ==
  ASSUME OneNews, NEW s \in Servers, CloneRecvState(s)
  PROVE  Ends(s) \/ Turned(s)
  <1>1. PICK event \in inbox[s] :
          IF Exception(state[s], event, FALSE)
          THEN RecvState(s) /\ Gone(s) /\ UNCHANGED agentVars
          ELSE IF Heard(s, event) = "ACTIVE" /\ s \notin mapped /\ pending[s] # <<>>
               THEN Abort(s)
               ELSE /\ RecvState(s) /\ StateHandlers(s)
                    /\ UNCHANGED <<sets, collector, asks, snap, agentVars, replies, joined>>
    BY DEF CloneRecvState
  <1>2. CASE Abort(s)
    BY <1>2 DEF Abort, Ends
  <1>3. CASE RecvState(s)
    <2>1. PICK e \in inbox[s] :
            /\ IF Exception(state[s], e, FALSE)
               THEN Die(s) /\ UNCHANGED expired
               ELSE /\ inbox' = [inbox EXCEPT ![s] = {}]
                    /\ state' = [state EXCEPT ![s] = Heard(s, e)]
                    /\ expired' = [expired EXCEPT ![s] = FALSE]
                    /\ UNCHANGED stuck
            /\ UNCHANGED <<kind, clientVars, life, late>>
      BY <1>3 DEF RecvState
    <2>2. e = event
      BY DEF OneNews
    <2>3. CASE Exception(state[s], event, FALSE)
      BY <1>1, <2>1, <2>2, <2>3 DEF Ends
    <2>4. CASE Abort(s)
      BY <2>4 DEF Abort, Ends
    <2>5. CASE /\ ~Exception(state[s], event, FALSE)
               /\ ~(Heard(s, event) = "ACTIVE" /\ s \notin mapped /\ pending[s] # <<>>)
      BY <1>1, <2>1, <2>2, <2>5 DEF Turned, CloneRecvState
    <2> QED
      BY <1>1, <2>3, <2>4, <2>5
  <1> QED
    BY <1>1, <1>2, <1>3

LEMMA RecvStateKeeps ==
  ASSUME PairTypes, CloneTypes, Stores, NEW s \in Servers, Turned(s)
  PROVE  CloneTypes' /\ Stores'
  <1>0. PICK r \in Servers : r = Peer(s) /\ r # s
    BY PeerPeer
  <1>1. PICK event \in inbox[s] :
          /\ state' = [state EXCEPT ![s] = Heard(s, event)]
          /\ Heard(s, event) = "ACTIVE" => s \in mapped \/ pending[s] = <<>>
    BY DEF Turned
  <1>2. PICK new : new = Heard(s, event)
    OBVIOUS
  <1>3. state[s] \in States
    BY DEF Turned, Runs, Up, PairTypes
  <1>4. new \in {state[s], "ACTIVE"} \/ (new = "PASSIVE" /\ state[s] \in {"PRIMARY", "BACKUP"})
    BY <1>2, <1>3, Moved DEF Heard
  <1>5. NetTypes' /\ RestTypes'
    BY DEF Turned, NetTypes, RestTypes, CloneTypes, clientVars
  <1>6. /\ Runs(s) /\ state' = [state EXCEPT ![s] = new] /\ StateHandlers(s)
        /\ UNCHANGED <<stuck, life, sets, collector, asks, snap>>
    BY <1>1, <1>2 DEF Turned
  <1>7. CloneTypes' /\ Alone(s, Peer(s)) /\ OwnOK(s)'
    BY <1>1, <1>2, <1>4, <1>5, <1>6, HandlersKeep
  <1>8. SnapOK(s)'
    BY <1>0, <1>6, <1>7, OwnSnap DEF Stores, Alone
  <1> QED
    BY <1>0, <1>6, <1>7, <1>8, AloneKeeps

\* s_voter_ready and s_snapshots, when the process does not end.
Voted(s, who) ==
  /\ who \in asks[s] /\ Runs(s) /\ (Accepts(s) => s \in mapped)
  /\ state' = [state EXCEPT ![s] = Move(@, "REQUEST", expired[s])]
  /\ StateHandlers(s)
  /\ asks' = [asks EXCEPT ![s] = @ \ {who}]
  /\ snap' = IF Accepts(s) /\ who = "peer"
             THEN [snap EXCEPT ![Peer(s)] =
                     {[kv |-> kvmap'[s], n |-> sequence'[s], life |-> life[s]]}]
             ELSE snap
  /\ \/ UNCHANGED replies
     \/ /\ Accepts(s) /\ who # "peer"
        /\ replies' = [replies EXCEPT ![s] =
                         Append(@, [kv |-> kvmap'[s], n |-> sequence'[s], life |-> life[s]])]
  /\ UNCHANGED <<stuck, clientVars, life, late, sets, collector, joined, agentVars>>

\* A request of a snapshot ends the process or is a vote.
LEMMA SnapshotCases ==
  ASSUME NEW s \in Servers, NEW who, Snapshots(s, who)
  PROVE  Ends(s) \/ Voted(s, who)
  <1>1. CASE Accepts(s) /\ s \notin mapped
    BY <1>1 DEF Snapshots, Abort, Ends
  <1>2. CASE ~(Accepts(s) /\ s \notin mapped)
    BY <1>2 DEF Snapshots, Voted, Vote
  <1> QED
    BY <1>1, <1>2

\* A snapshot includes what the server has published in this life.
LEMMA VotedKeeps ==
  ASSUME PairTypes, CloneTypes, Stores, NEW s \in Servers, NEW who \in Askers,
         Voted(s, who)
  PROVE  CloneTypes' /\ Stores'
  <1>0. PICK r \in Servers : r = Peer(s) /\ r # s /\ Peer(r) = s
    BY PeerPeer
  <1>1. PICK new : new = Move(state[s], "REQUEST", expired[s])
    OBVIOUS
  <1>2. /\ Runs(s) /\ state' = [state EXCEPT ![s] = new] /\ StateHandlers(s)
        /\ UNCHANGED <<stuck, clientVars, life, late, sets, collector, joined>>
        /\ asks' = [asks EXCEPT ![s] = @ \ {who}] /\ who \in asks[s]
    BY <1>1 DEF Voted, PairTypes
  <1>3. state[s] \in States
    BY <1>2 DEF Runs, Up, PairTypes
  <1>4. new \in {state[s], "ACTIVE"}
    BY <1>1, <1>3, Moved DEF PairTypes
  <1>5. new # state[s] => s \in mapped
    <2>1. ~Accepts(s) => new = state[s]
      BY <1>1, <1>3, Moved DEF Accepts, PairTypes
    <2> QED
      BY <2>1 DEF Voted
  <1>6. StoreTypes'
    BY <1>2, HandlersTypes
  <1>7. PICK shot : shot = [kv |-> kvmap'[s], n |-> sequence'[s], life |-> life[s]]
    OBVIOUS
  <1>8. shot \in Shots
    BY <1>6, <1>7 DEF StoreTypes, CloneTypes, Shots
  <1>9. snap' = IF Accepts(s) /\ who = "peer" THEN [snap EXCEPT ![r] = {shot}] ELSE snap
    BY <1>0, <1>7 DEF Voted
  <1>10. NetTypes' /\ RestTypes'
    <2>1. snap' \in [Servers -> SUBSET Shots]
      BY <1>8, <1>9 DEF CloneTypes
    <2>2. asks' \in [Servers -> SUBSET Askers]
      BY <1>2 DEF CloneTypes
    <2> QED
      BY <1>2, <2>1, <2>2 DEF NetTypes, RestTypes, CloneTypes, clientVars
  <1>11. CloneTypes' /\ Alone(s, Peer(s)) /\ OwnOK(s)'
    <2>1. /\ new \in {state[s], "ACTIVE"} \/ (new = "PASSIVE" /\ state[s] \in {"PRIMARY", "BACKUP"})
          /\ new # state[s] /\ new = "ACTIVE" => s \in mapped \/ pending[s] = <<>>
      BY <1>4, <1>5
    <2>2. /\ Runs(s) /\ state' = [state EXCEPT ![s] = new] /\ StateHandlers(s)
          /\ UNCHANGED <<stuck, life, sets, collector>>
      BY <1>2
    <2> QED
      BY <1>10, <2>1, <2>2, HandlersKeep
  <1>12. /\ snap'[s] = snap[s] /\ asks'[r] = asks[r]
         /\ ("peer" \in asks'[s] => "peer" \in asks[s])
    BY <1>0, <1>2, <1>9 DEF CloneTypes
  <1>13. SnapOK(s)'
    BY <1>0, <1>2, <1>11, <1>12, OwnSnap DEF Stores, Alone
  <1>14. CASE snap' = snap
    BY <1>0, <1>11, <1>12, <1>13, <1>14, AloneKeeps
  <1>15. CASE who = "peer" /\ snap' = [snap EXCEPT ![r] = {shot}]
    <2>1. "peer" \notin asks'[s] /\ snap'[r] = {shot}
      BY <1>0, <1>2, <1>15 DEF CloneTypes
    <2>2. r \in stuck /\ r \in stuck'
      BY <1>0, <1>2, <1>15 DEF Stores, SnapOK
    <2>3. FeedOK(r)'
      BY <1>0, <1>11, PeerKeeps DEF Stores, Alone
    <2>4. Up(s)' /\ life'[s] = life[s]
      BY <1>2, <1>3, <1>4 DEF Up, PairTypes, States
    <2>5. PICK map, n, L : map = kvmap'[s] /\ n = sequence'[s] /\ L = life[s]
      OBVIOUS
    <2>6. shot.kv = map /\ shot.n = n /\ shot.life = L /\ n \in Nat /\ L \in Nat
      BY <1>6, <1>7, <2>5 DEF StoreTypes, CloneTypes
    <2>7. Includes(r, map, n, L)'
      <3>1. life'[Peer(r)] = L /\ sequence'[Peer(r)] = n /\ kvmap'[Peer(r)] = map /\ Up(Peer(r))'
        BY <1>0, <2>4, <2>5
      <3>2. \A i \in 1 .. Len(feed'[r]) :
              feed'[r][i].u # 0 /\ feed'[r][i].life = L => map[feed'[r][i].u] # "none"
        BY <2>3, <3>1 DEF FeedOK
      <3> QED
        BY <2>6, <3>1, <3>2 DEF Includes
    <2>8. \A u \in Updates : map[u] # "none" => u <= sets'
      BY <1>11, <2>5 DEF OwnOK, SentOK
    <2>9. SnapOK(r)'
      BY <1>0, <2>1, <2>2, <2>6, <2>7, <2>8 DEF SnapOK
    <2>10. Alone(s, r)
      BY <1>0, <1>11
    <2> QED
      BY <1>0, <1>11, <1>13, <2>9, <2>10, AloneKeeps
  <1> QED
    BY <1>9, <1>14, <1>15

-----------------------------------------------------------------------------
(* The handlers of a clone server                                          *)

\* One message goes to the peer, when it is up and reads.
LEMMA OneMessage ==
  ASSUME PairTypes, CloneTypes, NEW s \in Servers, NEW r, r = Peer(s), NEW m \in Messages,
         Publish(s, <<m>>), Up(s), UNCHANGED <<state, life>>,
         m.n = sequence[s] + 1, m.life = life[s], m.u \in Updates, m.u <= sets,
         sequence'[s] = sequence[s] + 1, kvmap'[s][m.u] # "none",
         \A u \in Updates : kvmap[s][u] # "none" => kvmap'[s][u] # "none"
  PROVE  FeedOut(s, r) /\ feed'[s] = feed[s] /\ feed' \in [Servers -> Seq(Messages)]
  <1>0. r \in Servers /\ r # s /\ sequence[s] \in Nat /\ life[s] \in Nat
    BY PeerPeer DEF CloneTypes
  <1>1. /\ feed' = [feed EXCEPT ![Peer(s)] =
                      IF Up(Peer(s)) /\ state[Peer(s)] # "ACTIVE" THEN @ \o <<m>> ELSE @]
        /\ feed' \in [Servers -> Seq(Messages)]
    BY PublishTypes
  <1>2. feed'[s] = feed[s]
    BY <1>0, <1>1 DEF CloneTypes
  <1>3. Grows(s)
    BY <1>0 DEF Grows, Up
  <1>4. CASE feed'[r] = feed[r]
    BY <1>1, <1>2, <1>3, <1>4 DEF FeedOut
  <1>5. CASE Up(r) /\ feed'[r] = feed[r] \o <<m>>
    <2>1. <<m>> \in Seq(Messages) /\ Len(<<m>>) = 1 /\ <<m>>[1] = m /\ About(<<m>>) = {m.u}
      BY AboutOne
    <2>2. PICK ms \in Seq(Messages) : ms = <<m>>
      BY <2>1
    <2>3. Len(ms) = 1 /\ ms[1] = m /\ About(ms) = {m.u} /\ feed'[r] = feed[r] \o ms
      BY <1>5, <2>1, <2>2
    <2>4. Publishes(s, ms)
      BY <1>0, <2>3 DEF Publishes, Up
    <2> QED
      BY <1>1, <1>2, <1>5, <2>3, <2>4 DEF FeedOut
  <1> QED
    BY <1>0, <1>1, <1>4, <1>5 DEF CloneTypes

LEMMA AboutUpdates ==
  ASSUME CloneTypes, NEW s \in Servers
  PROVE  About(pending[s]) \subseteq Updates
  <1>1. pending[s] \in Seq(Pendings)
    BY DEF CloneTypes
  <1>2. ToSet(pending[s]) \subseteq Pendings
    BY <1>1 DEF ToSet
  <1> QED
    BY <1>2 DEF About, Pendings

\* The next message of a server, and what it stores with it.
LEMMA NextMessage ==
  ASSUME CloneTypes, NEW s \in Servers, NEW p \in Pendings
  PROVE  \E m \in Messages : /\ m = Message(s, sequence[s] + 1, p) /\ m.n = sequence[s] + 1
                             /\ m.u = p.u /\ m.life = life[s]
  <1>1. PICK k \in Nat : k = sequence[s] + 1
    BY DEF CloneTypes
  <1>2. p.u \in 0 .. MaxUpdates /\ p.del \in BOOLEAN
    BY UpdatesAreNumbers, CloneAssumption DEF Pendings
  <1>3. PICK m : m = Message(s, k, p)
    OBVIOUS
  <1>4. m \in Messages /\ m.n = k /\ m.u = p.u /\ m.life = life[s]
    BY <1>2, <1>3, MessageTyped
  <1> QED
    BY <1>1, <1>3, <1>4

LEMMA Stored ==
  ASSUME CloneTypes, NEW s \in Servers, NEW p \in Pendings
  PROVE  \E map \in Maps : /\ map = Store(kvmap[s], p) /\ map[p.u] # "none"
                           /\ \A v \in Updates : kvmap[s][v] # "none" => map[v] # "none"
                           /\ \A v \in Updates : v # p.u => map[v] = kvmap[s][v]
  <1>1. PICK old \in Maps : old = kvmap[s]
    BY DEF CloneTypes
  <1>2. p.u \in Updates /\ p.del \in BOOLEAN
    BY DEF Pendings
  <1>3. PICK map : map = Store(old, p)
    OBVIOUS
  <1>4. /\ map \in Maps
        /\ \A v \in Updates : v = p.u \/ old[v] # "none" => map[v] # "none"
        /\ \A v \in Updates : v # p.u => map[v] = old[v]
    BY <1>2, <1>3, StoreFacts
  <1> QED
    BY <1>1, <1>2, <1>3, <1>4

\* The oldest update that a server has not collected.
LEMMA Collected ==
  ASSUME CloneTypes, NEW s \in Servers, SentOK(s), collector[s] # <<>>
  PROVE  \E u \in Updates, t \in Seq(Updates) :
           /\ u = Head(collector[s]) /\ t = Tail(collector[s])
           /\ u <= sets /\ u \notin got[s]
           /\ \A i \in 1 .. Len(t) : t[i] <= sets
           /\ \A i, j \in 1 .. Len(t) : i < j => t[i] < t[j]
           /\ \A v \in got[s] \cup {u}, i \in 1 .. Len(t) : v < t[i]
  <1>1. PICK c \in Seq(Updates) : c = collector[s]
    BY DEF CloneTypes
  <1>2. PICK u, t, l : u = Head(c) /\ t = Tail(c) /\ l = Len(c)
    OBVIOUS
  <1>3. /\ u \in Updates /\ t \in Seq(Updates) /\ l \in Nat /\ l > 0 /\ u = c[1] /\ 1 \in 1 .. l
        /\ Len(t) = l - 1 /\ \A i \in 1 .. l - 1 : t[i] = c[i + 1]
    BY <1>1, <1>2
  <1>4. /\ \A i \in 1 .. l : c[i] <= sets
        /\ \A i, j \in 1 .. l : i < j => c[i] < c[j]
        /\ \A v \in got[s], i \in 1 .. l : v < c[i]
    BY <1>1, <1>2 DEF SentOK
  <1>5. Updates \subseteq Nat /\ got[s] \subseteq Nat
    <2>1. Updates \subseteq Nat
      BY DEF Updates
    <2>2. got[s] \subseteq Updates
      BY DEF CloneTypes
    <2> QED
      BY <2>1, <2>2
  <1>6. u <= sets /\ \A v \in got[s] : v < u
    BY <1>3, <1>4
  <1>7. u \notin got[s]
    BY <1>3, <1>5, <1>6
  <1>8. ASSUME NEW i \in 1 .. l - 1
        PROVE  t[i] \in Nat /\ t[i] <= sets /\ u < t[i] /\ i + 1 \in 1 .. l /\ t[i] = c[i + 1]
    <2>1. i + 1 \in 1 .. l /\ 1 < i + 1 /\ t[i] = c[i + 1] /\ t[i] \in Updates
      BY <1>3
    <2> QED
      BY <1>3, <1>4, <1>5, <2>1
  <1>9. ASSUME NEW i \in 1 .. l - 1, NEW j \in 1 .. l - 1, i < j PROVE t[i] < t[j]
    <2>1. i + 1 < j + 1
      BY <1>9
    <2> QED
      BY <1>4, <1>8, <2>1
  <1>10. ASSUME NEW v \in got[s] \cup {u}, NEW i \in 1 .. l - 1 PROVE v < t[i]
    <2>1. v = u \/ (v \in Nat /\ v < u)
      BY <1>5, <1>6
    <2> QED
      BY <1>3, <1>5, <1>8, <2>1
  <1> QED
    BY <1>1, <1>2, <1>3, <1>6, <1>7, <1>8, <1>9, <1>10

\* s_collector: what is collected is stored and published, or held back.
LEMMA CollectorKeeps ==
  ASSUME PairTypes, CloneTypes, Stores, NEW s \in Servers, Collector(s), ~Ends(s)
  PROVE  CloneTypes' /\ Stores'
  <1>0. PICK r \in Servers : r = Peer(s) /\ r # s
    BY PeerPeer
  <1>7. OwnOK(s) /\ FeedOK(s) /\ SnapOK(s)
    BY DEF Stores
  <1>1. PICK u \in Updates, t \in Seq(Updates) :
          /\ u = Head(collector[s]) /\ t = Tail(collector[s])
          /\ u <= sets /\ u \notin got[s]
          /\ \A i \in 1 .. Len(t) : t[i] <= sets
          /\ \A i, j \in 1 .. Len(t) : i < j => t[i] < t[j]
          /\ \A v \in got[s] \cup {u}, i \in 1 .. Len(t) : v < t[i]
    BY <1>7, Collected DEF OwnOK, Collector
  <1>2. PICK p : p = [u |-> u, del |-> FALSE]
    OBVIOUS
  <1>3. p \in Pendings /\ p.u = u
    BY <1>2 DEF Pendings
  <1>4. ~(state[s] = "ACTIVE" /\ s \notin mapped)
    BY DEF Collector, Abort, Ends
  <1>5. /\ Runs(s)
        /\ collector' = [collector EXCEPT ![s] = t]
        /\ got' = [got EXCEPT ![s] = @ \cup {u}]
        /\ IF state[s] = "ACTIVE"
           THEN /\ sequence' = [sequence EXCEPT ![s] = @ + 1]
                /\ Publish(s, <<Message(s, sequence[s] + 1, p)>>)
                /\ kvmap' = [kvmap EXCEPT ![s] = Store(@, p)]
                /\ UNCHANGED pending
           ELSE /\ pending' = [pending EXCEPT ![s] = With(@, p)]
                /\ UNCHANGED <<sequence, kvmap, feed, news>>
        /\ UNCHANGED <<vars, mapped, from, skewed, sets, asks, snap, agentVars, replies, joined>>
    <2>1. collector' = [collector EXCEPT ![s] = Tail(@)]
      BY <1>4 DEF Collector
    <2>2. collector' = [collector EXCEPT ![s] = t]
      BY <1>1, <2>1 DEF CloneTypes
    <2> QED
      BY <1>1, <1>2, <1>4, <2>2 DEF Collector
  <1>6. Up(s) /\ UNCHANGED <<state, stuck, life, clientVars, late>>
    BY <1>5 DEF Runs, vars
  <1>11. /\ collector'[s] = t /\ got'[s] = got[s] \cup {u}
         /\ got[s] \subseteq Updates
    BY <1>1, <1>5 DEF CloneTypes
  <1>12. NetTypes' /\ RestTypes'
    <2>1. collector' \in [Servers -> Seq(Updates)]
      BY <1>1, <1>5 DEF CloneTypes
    <2> QED
      BY <1>5, <1>6, <2>1 DEF NetTypes, RestTypes, CloneTypes, clientVars
  <1>13. got' \in [Servers -> SUBSET Updates]
    BY <1>1, <1>5 DEF CloneTypes
  <1>16. Same(r) /\ UNCHANGED sets /\ collector'[r] = collector[r]
    BY <1>0, <1>5, <1>6 DEF Same, CloneTypes
  <1>17. CASE state[s] = "ACTIVE"
    <2>1. PICK m \in Messages : /\ m = Message(s, sequence[s] + 1, p) /\ m.n = sequence[s] + 1
                                /\ m.u = u /\ m.life = life[s]
      BY <1>3, NextMessage
    <2>2. sequence[s] \in Nat /\ kvmap[s] \in Maps
      BY DEF CloneTypes
    <2>3. u \in Updates
      BY <1>1
    <2>4. PICK map \in Maps : /\ map = Store(kvmap[s], p) /\ map[u] # "none"
                              /\ \A v \in Updates : kvmap[s][v] # "none" => map[v] # "none"
                              /\ \A v \in Updates : v # u => map[v] = kvmap[s][v]
      BY <1>3, Stored
    <2>5. /\ sequence' = [sequence EXCEPT ![s] = @ + 1] /\ kvmap' = [kvmap EXCEPT ![s] = map]
          /\ Publish(s, <<m>>) /\ UNCHANGED <<pending, mapped, from, skewed, asks, snap>>
      BY <1>5, <1>17, <2>1, <2>2, <2>4
    <2>6. sequence'[s] = sequence[s] + 1 /\ kvmap'[s] = map
      BY <2>5 DEF CloneTypes
    <2>7. FeedOut(s, r) /\ feed'[s] = feed[s] /\ feed' \in [Servers -> Seq(Messages)]
      BY <1>0, <1>1, <1>6, <2>1, <2>4, <2>5, <2>6, OneMessage
    <2>8. CloneTypes'
      <3>1. kvmap' \in [Servers -> Maps] /\ sequence' \in [Servers -> Nat]
        <4>1. kvmap \in [Servers -> Maps] /\ sequence \in [Servers -> Nat]
          BY DEF CloneTypes
        <4>2. kvmap' \in [Servers -> Maps]
          BY <2>5, <4>1
        <4>3. sequence' \in [Servers -> Nat]
          BY <2>2, <2>5, <4>1
        <4> QED
          BY <4>2, <4>3
      <3>2. StoreTypes'
        BY <1>13, <2>5, <2>7, <3>1 DEF StoreTypes, CloneTypes
      <3> QED
        BY <1>12, <3>2, TypeParts
    <2>9. Alone(s, r)
      BY <1>0, <1>16, <2>5, <2>7 DEF Alone, FeedIn, Same, CloneTypes
    <2>10. SentOK(s)'
      BY <1>1, <1>7, <1>11, <1>16, <2>4, <2>5, <2>6, <2>7 DEF OwnOK, SentOK
    <2>11. StuckOK(s)' /\ BlankOK(s)'
      BY <1>4, <1>5, <1>6, <1>17 DEF StuckOK, BlankOK, Blank, Runs
    <2>12. MapOK(s)'
      <3>1. ~Blank(s) /\ (s \in skewed' <=> s \in skewed)
        BY <1>4, <1>5, <1>17, <2>5 DEF Blank, Runs
      <3>2. ASSUME s \notin skewed
            PROVE  /\ \A v \in got[s] : kvmap[s][v] # "none" \/ v \in About(pending[s])
                   /\ \A v \in About(pending[s]) \ got[s] : kvmap[s][v] # "none"
        BY <1>7, <3>1, <3>2 DEF OwnOK, MapOK
      <3>3. About(pending[s]) \subseteq Updates
        BY AboutUpdates
      <3>4. ASSUME s \notin skewed
            PROVE  /\ \A v \in got'[s] : map[v] # "none" \/ v \in About(pending[s])
                   /\ \A v \in About(pending[s]) \ got'[s] : map[v] # "none"
        BY <1>11, <2>4, <3>2, <3>3, <3>4
      <3> QED
        BY <1>6, <1>17, <2>5, <2>6, <3>1, <3>4 DEF MapOK
    <2>13. OwnOK(s)'
      BY <2>10, <2>11, <2>12 DEF OwnOK
    <2>14. SnapOK(s)'
      BY <1>0, <1>6, <1>7, <2>5, <2>8, <2>9, OwnSnap DEF Alone
    <2> QED
      BY <1>0, <2>5, <2>8, <2>9, <2>13, <2>14, AloneKeeps
  <1>18. CASE state[s] # "ACTIVE"
    <2>1. PICK w \in Seq(Pendings) :
            /\ w = With(pending[s], p)
            /\ About(w) \subseteq About(pending[s]) \cup {u}
            /\ About(pending[s]) \ {u} \subseteq About(w)
            /\ u \notin About(pending[s]) => About(w) = About(pending[s]) \cup {u}
      <3>1. pending[s] \in Seq(Pendings)
        BY DEF CloneTypes
      <3> QED
        BY <1>3, <3>1, WithFacts
    <2>2. /\ pending' = [pending EXCEPT ![s] = w]
          /\ UNCHANGED <<sequence, kvmap, feed, mapped, from, skewed, asks, snap>>
      BY <1>5, <1>18, <2>1 DEF CloneTypes
    <2>3. pending'[s] = w
      BY <2>2 DEF CloneTypes
    <2>4. CloneTypes'
      <3>1. StoreTypes'
        BY <1>13, <2>1, <2>2 DEF StoreTypes, CloneTypes
      <3> QED
        BY <1>12, <3>1, TypeParts
    <2>5. Same(r)
      BY <1>0, <1>16, <2>2 DEF Same, CloneTypes
    <2>6. Grows(s)
      <3>1. life[s] \in Nat /\ sequence[s] \in Nat
        BY DEF CloneTypes
      <3> QED
        BY <1>6, <2>2, <3>1 DEF Grows, Up
    <2>7. Alone(s, r)
      BY <1>16, <2>2, <2>5, <2>6 DEF Alone, FeedIn, FeedOut
    <2>8. SentOK(s)'
      BY <1>1, <1>7, <1>11, <1>16, <2>1, <2>2, <2>3 DEF OwnOK, SentOK
    <2>9. StuckOK(s)'
      BY <1>6, <1>7, <2>2 DEF OwnOK, StuckOK
    <2>10. u \notin got[s]
      BY <1>1
    <2>11. BlankOK(s)'
      <3>1. Blank(s)' <=> Blank(s)
        BY <1>6, <2>2 DEF Blank
      <3>2. state'[s] # "down"
        BY <1>6 DEF Up
      <3> QED
        BY <1>7, <1>11, <2>1, <2>2, <2>3, <2>10, <3>1, <3>2 DEF OwnOK, BlankOK
    <2>12. MapOK(s)'
      <3>1. Blank(s)' <=> Blank(s)
        BY <1>6, <2>2 DEF Blank
      <3>2. Carried(s)
        BY <1>7, <2>4, <2>7, OwnFeed, <1>0 DEF Alone
      <3>3. PICK map \in Maps, n \in Nat, L \in Nat :
              map = kvmap[s] /\ n = sequence[s] /\ L = from[s]
        BY DEF CloneTypes
      <3>4. Includes(s, map, n, L) => Includes(s, map, n, L)'
        BY <3>2 DEF Carried
      <3>5. ASSUME ~Blank(s), s \notin skewed
            PROVE  /\ \A v \in got[s] : map[v] # "none" \/ v \in About(pending[s])
                   /\ \A v \in About(pending[s]) \ got[s] : map[v] # "none"
                   /\ state[s] = "PASSIVE" => Includes(s, map, n, L)
        BY <1>7, <3>3, <3>5 DEF OwnOK, MapOK
      <3>6. ASSUME ~Blank(s), s \notin skewed
            PROVE  /\ \A v \in got'[s] : map[v] # "none" \/ v \in About(w)
                   /\ \A v \in About(w) \ got'[s] : map[v] # "none"
        <4>1. u \in About(pending[s]) => map[u] # "none"
          BY <2>10, <3>5, <3>6
        <4>2. u \in About(w) \/ map[u] # "none"
          BY <2>1, <4>1
        <4> QED
          BY <1>11, <2>1, <2>10, <3>5, <3>6, <4>2
      <3> QED
        BY <1>6, <2>2, <2>3, <3>1, <3>3, <3>4, <3>5, <3>6 DEF MapOK
    <2>13. OwnOK(s)'
      BY <2>8, <2>9, <2>11, <2>12 DEF OwnOK
    <2>14. SnapOK(s)'
      BY <1>0, <1>6, <1>7, <2>2, <2>4, <2>7, OwnSnap DEF Alone
    <2> QED
      BY <1>0, <2>2, <2>4, <2>7, <2>13, <2>14, AloneKeeps
  <1> QED
    BY <1>17, <1>18

\* s_flush_ttl: an update that has run out is deleted, under a number of its own.
LEMMA FlushKeeps ==
  ASSUME PairTypes, CloneTypes, Stores, NEW s \in Servers, FlushTtl(s)
  PROVE  CloneTypes' /\ Stores'
  <1>0. PICK r \in Servers : r = Peer(s) /\ r # s
    BY PeerPeer
  <1>1. PICK u \in Updates : /\ kvmap[s][u] = "held"
                             /\ Runs(s) /\ s \in mapped
                             /\ sequence' = [sequence EXCEPT ![s] = @ + 1]
                             /\ Publish(s, <<Message(s, sequence[s] + 1, [u |-> u, del |-> TRUE])>>)
                             /\ kvmap' = [kvmap EXCEPT ![s] = Store(@, [u |-> u, del |-> TRUE])]
                             /\ skewed' = IF state[s] = "PASSIVE" THEN skewed \cup {s} ELSE skewed
                             /\ UNCHANGED <<vars, mapped, pending, got, from, sets, collector,
                                            asks, snap, agentVars, replies, joined>>
    BY DEF FlushTtl, Held
  <1>2. PICK p : p = [u |-> u, del |-> TRUE]
    OBVIOUS
  <1>3. p \in Pendings /\ p.u = u
    BY <1>2 DEF Pendings
  <1>4. PICK m \in Messages : /\ m = Message(s, sequence[s] + 1, p) /\ m.n = sequence[s] + 1
                              /\ m.u = u /\ m.life = life[s]
    BY <1>3, NextMessage
  <1>5. sequence[s] \in Nat /\ kvmap[s] \in Maps
    BY DEF CloneTypes
  <1>6. PICK map \in Maps : /\ map = Store(kvmap[s], p) /\ map[u] # "none"
                            /\ \A v \in Updates : kvmap[s][v] # "none" => map[v] # "none"
                            /\ \A v \in Updates : v # u => map[v] = kvmap[s][v]
    BY <1>3, Stored
  <1>7. /\ sequence' = [sequence EXCEPT ![s] = @ + 1] /\ kvmap' = [kvmap EXCEPT ![s] = map]
        /\ Publish(s, <<m>>)
        /\ skewed' = IF state[s] = "PASSIVE" THEN skewed \cup {s} ELSE skewed
        /\ UNCHANGED <<state, stuck, life, late, clientVars, mapped, pending, got, from, sets,
                       collector, asks, snap, joined>>
    BY <1>1, <1>2, <1>4, <1>5, <1>6 DEF vars
  <1>8. sequence'[s] = sequence[s] + 1 /\ kvmap'[s] = map
    BY <1>7 DEF CloneTypes
  <1>9. OwnOK(s) /\ FeedOK(s) /\ SnapOK(s) /\ Up(s) /\ s \notin stuck /\ s \in mapped
    BY <1>1 DEF Stores, Runs
  <1>10. u <= sets
    BY <1>1, <1>9 DEF OwnOK, SentOK
  <1>11. FeedOut(s, r) /\ feed'[s] = feed[s] /\ feed' \in [Servers -> Seq(Messages)]
    BY <1>0, <1>4, <1>6, <1>7, <1>8, <1>9, <1>10, OneMessage
  <1>12. ~Blank(s) /\ state[s] \in {"ACTIVE", "PASSIVE"}
    <2>1. kvmap[s] # Empty
      BY <1>1, EmptyFacts
    <2>2. ~Blank(s)
      BY <1>9, <2>1 DEF OwnOK, BlankOK
    <2> QED
      BY <2>2 DEF Blank, PairTypes, States
  <1>13. CloneTypes'
    <2>1. kvmap' \in [Servers -> Maps] /\ sequence' \in [Servers -> Nat]
      <3>1. kvmap \in [Servers -> Maps] /\ sequence \in [Servers -> Nat]
        BY DEF CloneTypes
      <3>2. kvmap' \in [Servers -> Maps]
        BY <1>7, <3>1
      <3>3. sequence' \in [Servers -> Nat]
        BY <1>5, <1>7, <3>1
      <3> QED
        BY <3>2, <3>3
    <2>2. StoreTypes'
      BY <1>7, <1>11, <2>1 DEF StoreTypes, CloneTypes
    <2>3. NetTypes' /\ RestTypes'
      BY <1>7 DEF NetTypes, RestTypes, CloneTypes, clientVars
    <2> QED
      BY <2>2, <2>3, TypeParts
  <1>14. Alone(s, r)
    BY <1>0, <1>7, <1>11 DEF Alone, FeedIn, Same, CloneTypes
  <1>15. SentOK(s)'
    BY <1>6, <1>7, <1>8, <1>9, <1>10, <1>11 DEF OwnOK, SentOK
  <1>16. ~Blank(s)' /\ StuckOK(s)'
    BY <1>7, <1>9, <1>12 DEF Blank, StuckOK
  <1>17. BlankOK(s)'
    BY <1>7, <1>12, <1>16 DEF BlankOK
  <1>18. MapOK(s)'
    <2>1. state[s] = "PASSIVE" => s \in skewed'
      BY <1>7
    <2>2. s \notin skewed' => s \notin skewed
      BY <1>7
    <2>3. got[s] \subseteq Updates /\ About(pending[s]) \subseteq Updates
      BY AboutUpdates DEF CloneTypes
    <2> QED
      BY <1>6, <1>7, <1>8, <1>9, <1>12, <2>1, <2>2, <2>3 DEF OwnOK, MapOK
  <1>19. OwnOK(s)'
    BY <1>15, <1>16, <1>17, <1>18 DEF OwnOK
  <1>20. SnapOK(s)'
    BY <1>0, <1>7, <1>9, <1>13, <1>14, OwnSnap DEF Alone
  <1> QED
    BY <1>0, <1>7, <1>13, <1>14, <1>19, <1>20, AloneKeeps

\* s_send_hugz goes to a peer that has nothing else to read.
LEMMA HugzKeeps ==
  ASSUME PairTypes, CloneTypes, Stores, NEW s \in Servers, SendHugz(s)
  PROVE  CloneTypes' /\ Stores'
  <1>0. PICK r \in Servers : r = Peer(s) /\ r # s
    BY PeerPeer
  <1>1. PICK m : m = Message(s, sequence[s], [u |-> 0, del |-> FALSE])
    OBVIOUS
  <1>2. m \in Messages /\ m.u = 0 /\ m.life = life[s]
    <2>1. PICK p : p = [u |-> 0, del |-> FALSE]
      OBVIOUS
    <2>2. p.u = 0 /\ p.del = FALSE /\ p.u \in 0 .. MaxUpdates /\ p.del \in BOOLEAN
      BY <2>1, CloneAssumption
    <2>3. PICK k \in Nat : k = sequence[s]
      BY DEF CloneTypes
    <2>4. m = Message(s, k, p)
      BY <1>1, <2>1, <2>3
    <2> QED
      BY <2>2, <2>3, <2>4, MessageTyped
  <1>3. /\ Up(r) /\ feed[r] = <<>> /\ feed' = [feed EXCEPT ![r] = <<m>>]
        /\ UNCHANGED <<state, stuck, life, late, clientVars, storeVars, sets, collector,
                       asks, snap, joined>>
    BY <1>0, <1>1 DEF SendHugz, vars, sockVars
  <1>4. feed'[r] = <<m>> /\ feed'[s] = feed[s] /\ feed' \in [Servers -> Seq(Messages)]
    <2>1. <<m>> \in Seq(Messages)
      BY <1>2
    <2> QED
      BY <1>0, <1>3, <2>1 DEF CloneTypes
  <1>5. CloneTypes'
    <2>1. StoreTypes'
      BY <1>3, <1>4 DEF StoreTypes, CloneTypes, storeVars
    <2>2. NetTypes' /\ RestTypes'
      BY <1>3 DEF NetTypes, RestTypes, CloneTypes, clientVars
    <2> QED
      BY <2>1, <2>2, TypeParts
  <1>6. Same(r) /\ Same(s)
    BY <1>3 DEF Same, storeVars
  <1>7. Grows(s)
    BY <1>5, <1>6, SameGrows
  <1>8. FeedOut(s, r)
    BY <1>2, <1>3, <1>4, <1>7 DEF FeedOut
  <1>9. Alone(s, r)
    BY <1>3, <1>4, <1>6, <1>8 DEF Alone, FeedIn
  <1>10. OwnOK(s) /\ FeedOK(s) /\ SnapOK(s)
    BY DEF Stores
  <1>11. OwnOK(s)'
    <2>1. Carried(s)
      BY <1>0, <1>5, <1>9, <1>10, OwnFeed DEF Alone
    <2>2. \A u \in About(feed'[s]) : u <= sets
      BY <1>4, <1>10 DEF OwnOK, SentOK
    <2> QED
      BY <1>3, <1>4, <1>6, <1>10, <2>1, <2>2, OwnKept
  <1>12. SnapOK(s)'
    BY <1>0, <1>3, <1>5, <1>9, <1>10, OwnSnap DEF Alone
  <1> QED
    BY <1>0, <1>3, <1>5, <1>9, <1>11, <1>12, AloneKeeps

\* s_subscriber without a map: the server waits for a snapshot.
LEMMA AskSnapshotKeeps ==
  ASSUME PairTypes, CloneTypes, Stores, NEW s \in Servers, AskSnapshot(s)
  PROVE  CloneTypes' /\ Stores'
  <1>0. PICK r \in Servers : r = Peer(s) /\ r # s
    BY PeerPeer
  <1>1. /\ Up(s) /\ s \notin stuck /\ state[s] = "PASSIVE" /\ feed[s] # <<>> /\ s \notin mapped
        /\ mapped' = mapped \cup {s} /\ stuck' = stuck \cup {s}
        /\ asks' = [asks EXCEPT ![r] = @ \cup {"peer"}]
        /\ UNCHANGED <<state, life, late, clientVars, kvmap, sequence, pending, got, from,
                       skewed, sets, collector, feed, snap, joined>>
    BY <1>0 DEF AskSnapshot, Runs, sockVars
  <1>2. CloneTypes'
    <2>1. StoreTypes'
      BY <1>1 DEF StoreTypes, CloneTypes
    <2>2. NetTypes'
      <3>1. "peer" \in Askers
        BY DEF Askers
      <3> QED
        BY <1>0, <1>1, <3>1 DEF NetTypes, CloneTypes
    <2>3. RestTypes'
      BY <1>1 DEF RestTypes, CloneTypes, clientVars
    <2> QED
      BY <2>1, <2>2, <2>3, TypeParts
  <1>3. Same(r)
    BY <1>0, <1>1 DEF Same
  <1>4. Grows(s)
    <2>1. life[s] \in Nat /\ sequence[s] \in Nat
      BY DEF CloneTypes
    <2> QED
      BY <1>1, <2>1 DEF Grows, Up
  <1>5. Alone(s, r)
    BY <1>1, <1>3, <1>4 DEF Alone, FeedIn, FeedOut
  <1>6. OwnOK(s) /\ SnapOK(s)
    BY DEF Stores
  <1>7. OwnOK(s)'
    <2>1. Blank(s) /\ Blank(s)'
      BY <1>1 DEF Blank
    <2>2. SentOK(s)'
      BY <1>1, <1>6 DEF OwnOK, SentOK
    <2>3. StuckOK(s)' /\ BlankOK(s)' /\ MapOK(s)'
      BY <1>1, <1>6, <2>1 DEF OwnOK, StuckOK, BlankOK, MapOK
    <2> QED
      BY <2>2, <2>3 DEF OwnOK
  <1>8. SnapOK(s)'
    <2>1. snap[s] = {}
      BY <1>1, <1>6 DEF SnapOK
    <2> QED
      BY <1>1, <2>1 DEF SnapOK
  <1>9. snap'[r] = snap[r] /\ asks'[s] = asks[s]
    BY <1>0, <1>1 DEF CloneTypes
  <1> QED
    BY <1>0, <1>2, <1>5, <1>7, <1>8, <1>9, AloneKeeps

\* What a passive server makes of a message, given a map, its number, and the life of the
\* peer they come from.
Given(s, map, n, L) ==
  /\ \A u \in got[s] : map[u] # "none" \/ u \in About(pending[s])
  /\ \A u \in About(pending[s]) \ got[s] : map[u] # "none"
  /\ Includes(s, map, n, L)

LEMMA SubscribeGood ==
  ASSUME CloneTypes, NEW s \in Servers, NEW map \in Maps, NEW n \in Nat, NEW L \in Nat,
         Subscribe(s, map, n, L), feed[s] # <<>>, FeedOK(s), SentOK(s),
         UNCHANGED <<life, state>>, state[s] = "PASSIVE", s \in mapped, s \notin stuck',
         s \notin skewed => Given(s, map, n, L),
         \A u \in Updates : map[u] # "none" => u <= sets
  PROVE  /\ OwnOK(s)' /\ FeedIn(s) /\ sequence'[s] >= n
         /\ \A u \in Updates : map[u] # "none" => kvmap'[s][u] # "none"
  <1>0. PICK q, f, m : q = Peer(s) /\ f = feed[s] /\ m = Head(f)
    OBVIOUS
  <1>1. PICK g, l : /\ f \in Seq(Messages) /\ l \in Nat /\ l = Len(f) /\ m = f[1] /\ l > 0
                    /\ g = Tail(f) /\ Len(g) = l - 1 /\ \A i \in 1 .. l - 1 : g[i] = f[i + 1]
    <2>1. f \in Seq(Messages) /\ f # <<>>
      BY <1>0 DEF CloneTypes
    <2>2. PICK g, l : g = Tail(f) /\ l = Len(f)
      OBVIOUS
    <2>3. l \in Nat /\ m = f[1] /\ l > 0 /\ Len(g) = l - 1 /\ \A i \in 1 .. l - 1 : g[i] = f[i + 1]
      BY <1>0, <2>1, <2>2
    <2> QED
      BY <2>1, <2>2, <2>3
  <1>2. MessageFields(m) /\ (m.u # 0 => m.u \in Updates) /\ m \in Messages
    BY <1>0, SubscribeTypes
  <1>3. q \in Servers /\ q # s /\ sequence[q] \in Nat
    BY <1>0, PeerPeer DEF CloneTypes
  <1>4. About(g) \subseteq About(f) /\ m.u \in About(f)
    BY <1>0, <1>1, AboutTail
  <1>5. PICK p : /\ p = [u |-> m.u, del |-> m.del] /\ p.u = m.u /\ p.del = m.del
                 /\ p.del \in BOOLEAN /\ (m.u # 0 => p \in Pendings)
    <2>1. PICK p : p = [u |-> m.u, del |-> m.del]
      OBVIOUS
    <2>2. p.u = m.u /\ p.del = m.del /\ p.del \in BOOLEAN
      BY <1>2, <2>1 DEF MessageFields
    <2>3. m.u # 0 => p \in Pendings
      BY <1>2, <2>1, <2>2 DEF Pendings
    <2> QED
      BY <2>1, <2>2, <2>3
  <1>6. PICK map2, n2, w :
          /\ map2 = IF m.u # 0 /\ m.n > n THEN Store(map, p) ELSE map
          /\ n2 = (IF m.u # 0 /\ m.n > n THEN m.n ELSE n)
          /\ w = IF m.u = 0 THEN pending[s] ELSE With(pending[s], p)
    OBVIOUS
  <1>7. /\ feed'[s] = g /\ pending'[s] = w /\ kvmap'[s] = map2 /\ sequence'[s] = n2
        /\ from'[s] = L /\ kvmap'[q] = kvmap[q] /\ sequence'[q] = sequence[q]
        /\ skewed' = IF m.u # 0 /\ m.life # L THEN skewed \cup {s} ELSE skewed
        /\ UNCHANGED <<mapped, got, sets, collector>>
    BY <1>0, <1>1, <1>3, <1>5, <1>6 DEF Subscribe, CloneTypes
  <1>8. /\ \A u \in Updates : map[u] # "none" => map2[u] # "none"
        /\ \A u \in Updates : map2[u] # "none" => map[u] # "none" \/ u = m.u
        /\ m.u # 0 /\ m.n > n => map2[m.u] # "none"
    <2>1. /\ \A u \in Updates : u = p.u \/ map[u] # "none" => Store(map, p)[u] # "none"
          /\ \A u \in Updates : u # p.u => Store(map, p)[u] = map[u]
      BY <1>5, StoreFacts
    <2> QED
      BY <1>2, <1>5, <1>6, <2>1
  <1>9. /\ About(w) \subseteq About(pending[s]) \cup (IF m.u = 0 THEN {} ELSE {m.u})
        /\ About(pending[s]) \ {m.u} \subseteq About(w)
        /\ m.u # 0 /\ m.u \notin About(pending[s]) => m.u \in About(w)
    <2>1. pending[s] \in Seq(Pendings)
      BY DEF CloneTypes
    <2> QED
      BY <1>5, <1>6, <2>1, WithFacts
  <1>10. FeedIn(s)
    BY <1>0, <1>1, <1>7 DEF FeedIn
  <1>11. SentOK(s)'
    <2>1. \A u \in got[s] \cup About(pending[s]) \cup About(f) : u <= sets
      BY <1>0 DEF SentOK
    <2>2. \A u \in got'[s] \cup About(pending'[s]) \cup About(feed'[s]) : u <= sets'
      BY <1>4, <1>7, <1>9, <2>1
    <2>3. \A u \in Updates : kvmap'[s][u] # "none" => u <= sets'
      BY <1>4, <1>7, <1>8, <2>1
    <2> QED
      BY <1>7, <2>2, <2>3 DEF SentOK
  <1>12. StuckOK(s)' /\ BlankOK(s)'
    BY <1>7 DEF StuckOK, BlankOK, Blank
  <1>13. ASSUME s \notin skewed'
         PROVE  /\ \A u \in got[s] : map2[u] # "none" \/ u \in About(w)
                /\ \A u \in About(w) \ got[s] : map2[u] # "none"
                /\ Includes(s, map2, n2, L)'
    <2>1. s \notin skewed /\ (m.u # 0 => m.life = L)
      BY <1>7, <1>13
    <2>2. /\ \A u \in got[s] : map[u] # "none" \/ u \in About(pending[s])
          /\ \A u \in About(pending[s]) \ got[s] : map[u] # "none"
      BY <2>1 DEF Given
    <2>3. /\ L <= life[q]
          /\ L = life[q] /\ Up(q) => n <= sequence[q]
          /\ \A i \in 1 .. l : f[i].u # 0 /\ f[i].life = L /\ f[i].n <= n
                                 => map[f[i].u] # "none"
      BY <1>0, <1>1, <2>1 DEF Given, Includes
    <2>4. /\ m.u # 0 /\ m.life = life[q] /\ Up(q) => m.n <= sequence[q]
          /\ \A i, j \in 1 .. l :
               i < j /\ f[i].u # 0 /\ f[j].u # 0 /\ f[i].life = f[j].life => f[i].n < f[j].n
      <3>1. 1 \in 1 .. l
        BY <1>1
      <3>2. FeedOK(s)
        OBVIOUS
      <3>3. /\ \A i \in 1 .. l : f[i].u # 0 /\ f[i].life = life[q] /\ Up(q) => f[i].n <= sequence[q]
            /\ \A i, j \in 1 .. l :
                 i < j /\ f[i].u # 0 /\ f[j].u # 0 /\ f[i].life = f[j].life => f[i].n < f[j].n
        BY <1>0, <1>1, <3>2 DEF FeedOK
      <3> QED
        BY <1>1, <3>1, <3>3
    \* The update is in the map now, or was.
    <2>5. m.u # 0 => map2[m.u] # "none"
      <3>1. CASE m.u # 0 /\ ~(m.n > n)
        <4>1. m.n <= n /\ 1 \in 1 .. l /\ f[1] = m
          BY <1>1, <1>2, <3>1 DEF MessageFields
        <4> QED
          BY <1>2, <1>8, <2>1, <2>3, <3>1, <4>1
      <3> QED
        BY <1>8, <3>1
    <2>6. \A u \in got[s] : map2[u] # "none" \/ u \in About(w)
      <3>1. got[s] \subseteq Updates
        BY DEF CloneTypes
      <3>2. 0 \notin got[s]
        BY <3>1, UpdatesAreNumbers, CloneAssumption
      <3> QED
        BY <1>8, <1>9, <2>2, <2>5, <3>1, <3>2
    <2>7. \A u \in About(w) \ got[s] : map2[u] # "none"
      <3>1. About(pending[s]) \subseteq Updates
        BY AboutUpdates
      <3> QED
        BY <1>8, <1>9, <2>2, <2>5, <3>1
    <2>8. L = life[q] /\ Up(q) => n2 <= sequence[q]
      BY <1>6, <2>1, <2>3, <2>4
    <2>9. ASSUME NEW i \in 1 .. l - 1, g[i].u # 0, g[i].life = L, g[i].n <= n2
          PROVE  map2[g[i].u] # "none"
      <3>1. i + 1 \in 1 .. l /\ 1 \in 1 .. l /\ 1 < i + 1 /\ g[i] = f[i + 1]
        BY <1>1
      <3>2. MessageFields(f[i + 1])
        BY <1>0, <1>1, <3>1, FeedTyped
      <3>3. f[i + 1].u \in Updates
        BY <2>9, <3>1, <3>2 DEF MessageFields, Updates
      <3>4. CASE m.u # 0 /\ m.n > n
        <4>1. m.n < f[i + 1].n
          BY <1>1, <2>1, <2>4, <2>9, <3>1, <3>4
        <4>2. f[i + 1].n <= m.n
          BY <1>6, <2>9, <3>1, <3>4
        <4> QED
          BY <1>2, <3>2, <4>1, <4>2 DEF MessageFields
      <3>5. CASE ~(m.u # 0 /\ m.n > n)
        BY <1>6, <2>3, <2>9, <3>1, <3>5
      <3> QED
        BY <3>4, <3>5
    <2>10. Includes(s, map2, n2, L)'
      <3>1. /\ life'[q] = life[q] /\ (Up(q)' <=> Up(q)) /\ sequence'[q] = sequence[q]
            /\ feed'[s] = g /\ Len(g) = l - 1
        BY <1>1, <1>7 DEF Up
      <3> QED
        BY <1>0, <2>3, <2>8, <2>9, <3>1 DEF Includes
    <2> QED
      BY <2>6, <2>7, <2>10
  <1>14. MapOK(s)'
    BY <1>7, <1>13 DEF MapOK
  <1>15. sequence'[s] >= n
    BY <1>2, <1>6, <1>7 DEF MessageFields
  <1> QED
    BY <1>7, <1>8, <1>10, <1>11, <1>12, <1>14, <1>15 DEF OwnOK

\* The map that a passive server goes on from is its own, or that of the snapshot.
GoesOn(s, r, map, n, L) ==
  /\ Subscribe(s, map, n, L) /\ feed[s] # <<>> /\ state[s] = "PASSIVE" /\ s \in mapped
  /\ s \notin stuck' /\ stuck' \subseteq stuck /\ (r \in stuck' <=> r \in stuck)
  /\ s \notin skewed => Given(s, map, n, L)
  /\ \A u \in Updates : map[u] # "none" => u <= sets
  /\ \A u \in Updates : kvmap[s][u] # "none" => map[u] # "none"
  /\ n >= sequence[s]
  /\ "peer" \notin asks[r] /\ snap' = [snap EXCEPT ![s] = {}]
  /\ UNCHANGED <<state, life, late, clientVars>>
  /\ \/ s \notin stuck /\ map = kvmap[s] /\ n = sequence[s] /\ L = from[s]
     \/ s \in stuck /\ \E shot \in snap[s] : map = shot.kv /\ n = shot.n /\ L = shot.life

LEMMA SubscriberCases ==
  ASSUME PairTypes, CloneTypes, Stores, NEW s \in Servers, NEW r, r = Peer(s),
         SnapshotArrives(s) \/ Subscriber(s)
  PROVE  \E map \in Maps, n \in Nat, L \in Nat : GoesOn(s, r, map, n, L)
  <1>0. r \in Servers /\ r # s /\ Peer(r) = s
    BY PeerPeer
  <1>1. OwnOK(s) /\ FeedOK(s) /\ SnapOK(s)
    BY DEF Stores
  <1>2. CASE SnapshotArrives(s)
    <2>1. PICK shot \in snap[s] :
            /\ s \in stuck /\ stuck' = stuck \ {s} /\ snap' = [snap EXCEPT ![s] = {}]
            /\ Subscribe(s, shot.kv, shot.n, shot.life)
            /\ UNCHANGED <<kind, state, inbox, expired, clientVars, life, late>>
      BY <1>2 DEF SnapshotArrives
    <2>2. PICK map \in Maps, n \in Nat, L \in Nat :
            map = shot.kv /\ n = shot.n /\ L = shot.life
      <3>1. shot \in Shots
        BY DEF CloneTypes
      <3> QED
        BY <3>1 DEF Shots
    <2>3. Includes(s, map, n, L) /\ (\A u \in Updates : map[u] # "none" => u <= sets)
          /\ "peer" \notin asks[r]
      BY <1>0, <1>1, <2>2 DEF SnapOK
    <2>4. feed[s] # <<>> /\ state[s] = "PASSIVE" /\ s \in mapped
      BY <1>1, <2>1 DEF OwnOK, StuckOK
    <2>5. About(pending[s]) = got[s] /\ kvmap[s] = Empty /\ sequence[s] = 0
      BY <1>1, <2>1 DEF OwnOK, BlankOK, Blank
    <2>6. Given(s, map, n, L)
      BY <2>3, <2>5 DEF Given
    <2>7. \A u \in Updates : kvmap[s][u] # "none" => map[u] # "none"
      BY <2>5, EmptyFacts
    <2>8. n >= sequence[s]
      BY <2>5
    <2>9. Subscribe(s, map, n, L) /\ s \notin stuck' /\ stuck' \subseteq stuck
          /\ (r \in stuck' <=> r \in stuck)
      BY <1>0, <2>1, <2>2
    <2> QED
      BY <2>1, <2>2, <2>3, <2>4, <2>6, <2>7, <2>8, <2>9 DEF GoesOn
  <1>3. CASE Subscriber(s)
    <2>1. /\ Runs(s) /\ state[s] = "PASSIVE" /\ feed[s] # <<>> /\ s \in mapped
          /\ Subscribe(s, kvmap[s], sequence[s], from[s]) /\ UNCHANGED <<vars, snap>>
      BY <1>3 DEF Subscriber
    <2>2. PICK map \in Maps, n \in Nat, L \in Nat :
            map = kvmap[s] /\ n = sequence[s] /\ L = from[s]
      BY DEF CloneTypes
    <2>3. s \notin stuck /\ ~Blank(s)
      BY <2>1 DEF Runs, Blank
    <2>4. s \notin skewed => Given(s, map, n, L)
      BY <1>1, <2>1, <2>2, <2>3 DEF OwnOK, MapOK, Given
    <2>5. \A u \in Updates : map[u] # "none" => u <= sets
      BY <1>1, <2>2 DEF OwnOK, SentOK
    <2>6. "peer" \notin asks[r] /\ snap[s] = {}
      BY <1>0, <1>1, <2>3 DEF SnapOK
    <2>7. snap' = [snap EXCEPT ![s] = {}]
      BY <2>1, <2>6 DEF CloneTypes
    <2>8. Subscribe(s, map, n, L) /\ n >= sequence[s]
      BY <2>1, <2>2
    <2>9. s \notin stuck' /\ stuck' = stuck /\ UNCHANGED <<state, life, late, clientVars>>
      BY <2>1, <2>3 DEF vars
    <2> QED
      BY <2>1, <2>2, <2>3, <2>4, <2>5, <2>6, <2>7, <2>8, <2>9 DEF GoesOn
  <1> QED
    BY <1>2, <1>3

\* The server's subscriber, with a snapshot or without.
LEMMA SubscriberKeeps ==
  ASSUME PairTypes, CloneTypes, Stores, NEW s \in Servers, SnapshotArrives(s) \/ Subscriber(s)
  PROVE  CloneTypes' /\ Stores'
  <1>0. PICK r \in Servers : r = Peer(s) /\ r # s /\ Peer(r) = s
    BY PeerPeer
  <1>1. OwnOK(s) /\ FeedOK(s) /\ SnapOK(s)
    BY DEF Stores
  <1>2. PICK map \in Maps, n \in Nat, L \in Nat : GoesOn(s, r, map, n, L)
    BY <1>0, SubscriberCases
  <1> USE DEF GoesOn
  <1>3. /\ UNCHANGED <<mapped, got, sets, collector, asks, joined>>
        /\ skewed' \in {skewed, skewed \cup {s}}
    BY <1>2 DEF Subscribe, sockVars
  <1>4. CloneTypes'
    <2>1. StoreTypes'
      BY <1>2, SubscribeTypes
    <2>2. snap' \in [Servers -> SUBSET Shots]
      BY <1>2 DEF CloneTypes
    <2>3. NetTypes'
      BY <1>3, <2>2 DEF NetTypes, CloneTypes
    <2>4. RestTypes'
      BY <1>2, <1>3 DEF RestTypes, CloneTypes, clientVars
    <2> QED
      BY <2>1, <2>3, <2>4, TypeParts
  <1>5. /\ OwnOK(s)' /\ FeedIn(s) /\ sequence'[s] >= n
        /\ \A u \in Updates : map[u] # "none" => kvmap'[s][u] # "none"
    BY <1>1, <1>2, SubscribeGood DEF OwnOK
  <1>6. Same(r) /\ feed'[r] = feed[r]
    BY <1>0, <1>2, <1>3 DEF Same, Subscribe, CloneTypes
  <1>7. Grows(s)
    <2>1. sequence[s] \in Nat /\ sequence'[s] \in Nat /\ life[s] \in Nat
      BY <1>4 DEF CloneTypes
    <2>2. sequence'[s] >= sequence[s] /\ life'[s] = life[s] /\ state'[s] = state[s]
      BY <1>2, <1>5, <2>1
    <2> QED
      BY <1>2, <1>5, <2>1, <2>2 DEF Grows, Up
  <1>8. Alone(s, r)
    BY <1>3, <1>5, <1>6, <1>7 DEF Alone, FeedOut
  <1>9. SnapOK(s)'
    BY <1>0, <1>2, <1>3 DEF SnapOK, CloneTypes
  <1>10. snap'[r] = snap[r] /\ asks'[s] = asks[s]
    BY <1>0, <1>2, <1>3 DEF CloneTypes
  <1> QED
    BY <1>0, <1>4, <1>5, <1>8, <1>9, <1>10, AloneKeeps

-----------------------------------------------------------------------------
(* The clients, and the servers without a peer                             *)

\* A step that the stores do not see.
LEMMA Quiet ==
  ASSUME CloneTypes, Stores, Still, RestTypes', asks' \in [Servers -> SUBSET Askers]
  PROVE  CloneTypes' /\ Stores'
  <1>1. StoreTypes' /\ NetTypes'
    BY DEF StoreTypes, NetTypes, CloneTypes, Still, storeVars
  <1> QED
    BY <1>1, TypeParts, StillKeeps

\* bstar sends the state, and its deadline passes: no store changes.
LEMMA ReactorKeeps ==
  ASSUME CloneTypes, Stores, NEW s \in Servers, CloneSendState(s) \/ CloneExpire(s)
  PROVE  CloneTypes' /\ Stores'
  <1>1. UNCHANGED <<state, stuck, life, clientVars, cloneVars>>
    BY DEF CloneSendState, CloneExpire, SendState, Expire
  <1>2. late' \in 0 .. MaxLate
    <2>1. late' = late \/ (late < MaxLate /\ late' = late + 1)
      <3>1. CASE CloneSendState(s)
        BY <3>1 DEF CloneSendState, SendState
      <3>2. CASE CloneExpire(s) /\ Up(Peer(s))
        BY <3>2 DEF CloneExpire, Expire
      <3>3. CASE CloneExpire(s) /\ ~Up(Peer(s))
        BY <3>3 DEF CloneExpire, Expire
      <3> QED
        BY <3>1, <3>2, <3>3
    <2>2. late \in 0 .. MaxLate
      BY DEF CloneTypes
    <2> QED
      BY <2>1, <2>2, BinaryStarAssumption
  <1>3. RestTypes' /\ Still /\ asks' \in [Servers -> SUBSET Askers]
    BY <1>1, <1>2 DEF RestTypes, CloneTypes, Still, clientVars, cloneVars, netVars, sockVars
  <1> QED
    BY <1>3, Quiet

LEMMA AskKeeps ==
  ASSUME CloneTypes, Stores, NEW s \in Servers, Ask(s)
  PROVE  CloneTypes' /\ Stores'
  <1>1. UNCHANGED <<vars, storeVars, sets, collector, feed, snap, sockVars>>
    BY DEF Ask
  <1>2. asks' = asks \/ \E who \in {"agent", "again"} : asks' = [asks EXCEPT ![s] = @ \cup {who}]
    BY DEF Ask
  <1>0. asks \in [Servers -> SUBSET Askers]
    BY DEF CloneTypes
  <1>3. asks' \in [Servers -> SUBSET Askers]
    <2>1. CASE asks' = asks
      BY <1>0, <2>1
    <2>2. ASSUME NEW who \in {"agent", "again"}, asks' = [asks EXCEPT ![s] = @ \cup {who}]
          PROVE  asks' \in [Servers -> SUBSET Askers]
      <3>1. who \in Askers
        BY DEF Askers
      <3> QED
        BY <1>0, <2>2, <3>1
    <2> QED
      BY <1>2, <2>1, <2>2
  <1>4. \A r \in Servers : "peer" \in asks'[r] <=> "peer" \in asks[r]
    <2>1. CASE asks' = asks
      BY <2>1
    <2>2. ASSUME NEW who \in {"agent", "again"}, asks' = [asks EXCEPT ![s] = @ \cup {who}]
          PROVE  \A r \in Servers : "peer" \in asks'[r] <=> "peer" \in asks[r]
      BY <1>0, <2>2
    <2> QED
      BY <1>2, <2>1, <2>2
  <1>5. RestTypes' /\ Still
    BY <1>1, <1>4 DEF RestTypes, CloneTypes, Still, vars, clientVars, sockVars
  <1> QED
    BY <1>3, <1>5, Quiet

\* The agent reads and asks, it changes no store.
LEMMA AgentKeeps ==
  ASSUME CloneTypes, AgentTypes, Stores, AgentStep
  PROVE  CloneTypes' /\ Stores'
  <1>1. CASE AgentConnect
    BY <1>1, AskKeeps DEF AgentConnect, AgentTypes
  <1>2. CASE AgentFailover
    BY <1>2, AskKeeps, PeerPeer DEF AgentFailover, AgentTypes
  <1>3. CASE AgentSnapshot \/ AgentUpdate
    <2>1. UNCHANGED <<vars, storeVars, netVars, joined>>
      BY <1>3 DEF AgentSnapshot, AgentUpdate
    <2>2. RestTypes' /\ Still /\ asks' \in [Servers -> SUBSET Askers]
      BY <2>1 DEF RestTypes, CloneTypes, Still, vars, clientVars, netVars
    <2> QED
      BY <2>2, Quiet
  <1> QED
    BY <1>1, <1>2, <1>3 DEF AgentStep

LEMMA JoinKeeps ==
  ASSUME CloneTypes, Stores, NEW s \in Servers, AgentJoins(s)
  PROVE  CloneTypes' /\ Stores'
  <1>1. UNCHANGED <<vars, storeVars, netVars>> /\ joined' = joined \cup {s}
    BY DEF AgentJoins
  <1>2. RestTypes' /\ Still /\ asks' \in [Servers -> SUBSET Askers]
    BY <1>1 DEF RestTypes, CloneTypes, Still, vars, clientVars, netVars
  <1> QED
    BY <1>2, Quiet

\* The writer sends an update, to those that are up.
Sends ==
  /\ sets < MaxUpdates /\ sets' = sets + 1
  /\ \A s \in Servers : \/ collector'[s] = collector[s]
                        \/ Up(s) /\ collector'[s] = Append(collector[s], sets + 1)
  /\ collector' = [s \in Servers |-> collector'[s]]
  /\ UNCHANGED <<vars, storeVars, feed, asks, snap, joined>>

\* clone_set: the update is newer than all that a server has seen.
LEMMA SendsKeeps ==
  ASSUME CloneTypes, Stores, Sends
  PROVE  CloneTypes' /\ Stores'
  <1>1. sets \in Nat /\ sets + 1 \in Updates /\ sets' = sets + 1 /\ sets' \in 0 .. MaxUpdates
    <2>1. sets \in 0 .. MaxUpdates /\ sets < MaxUpdates /\ sets' = sets + 1
      BY DEF Sends, CloneTypes
    <2> QED
      BY <2>1, CloneAssumption DEF Updates
  <1>2. UNCHANGED <<state, stuck, life, late, clientVars, storeVars, feed, asks, snap, joined>>
    BY DEF Sends, vars
  <1>3. ASSUME NEW s \in Servers
        PROVE  /\ collector'[s] \in Seq(Updates)
               /\ SentOK(s) => SentOK(s)'
               /\ state[s] = "down" => collector'[s] = collector[s]
    <2>1. PICK c \in Seq(Updates) : c = collector[s]
      BY DEF CloneTypes
    <2>2. PICK l \in Nat : l = Len(c)
      BY <2>1
    <2>3. CASE collector'[s] = c
      <3>1. SentOK(s) => SentOK(s)'
        <4>1. Updates \subseteq Nat /\ \A i \in 1 .. l : c[i] \in Nat
          <5>1. \A i \in 1 .. l : c[i] \in Updates
            BY <2>2
          <5>2. Updates \subseteq Nat
            BY DEF Updates
          <5> QED
            BY <5>1, <5>2
        <4>2. About(pending[s]) \subseteq Nat /\ About(feed[s]) \subseteq Nat /\ got[s] \subseteq Nat
          <5>1. feed[s] \in Seq(Messages) /\ got[s] \subseteq Updates
            BY DEF CloneTypes
          <5>2. ToSet(feed[s]) \subseteq Messages
            BY <5>1 DEF ToSet
          <5>3. About(feed[s]) \subseteq Nat
            BY <5>2 DEF About, Messages
          <5> QED
            BY <4>1, <5>1, <5>3, AboutUpdates
        <4> QED
          <5>1. /\ sets' = sets + 1 /\ collector'[s] = c
                /\ UNCHANGED <<got, pending, feed, kvmap>>
            BY <1>1, <1>2, <2>3 DEF storeVars
          <5>2. \A k \in Nat : k <= sets => k <= sets + 1
            BY <1>1
          <5> QED
            BY <2>1, <2>2, <4>1, <4>2, <5>1, <5>2 DEF SentOK
      <3> QED
        BY <2>1, <2>3, <3>1
    <2>4. CASE Up(s) /\ collector'[s] = Append(c, sets + 1)
      <3>1. PICK k \in Updates : k = sets + 1
        BY <1>1
      <3>2. PICK d : d = Append(c, k)
        OBVIOUS
      <3>3. d \in Seq(Updates) /\ Len(d) = l + 1 /\ d[l + 1] = k /\ \A i \in 1 .. l : d[i] = c[i]
        BY <2>2, <3>2
      <3>4. ASSUME SentOK(s) PROVE SentOK(s)'
        <4>1. /\ \A i \in 1 .. l : c[i] <= sets
              /\ \A i, j \in 1 .. l : i < j => c[i] < c[j]
              /\ \A u \in got[s], i \in 1 .. l : u < c[i]
              /\ \A u \in got[s] \cup About(pending[s]) \cup About(feed[s]) : u <= sets
              /\ \A u \in Updates : kvmap[s][u] # "none" => u <= sets
          BY <2>1, <2>2, <3>4 DEF SentOK
        <4>2. Updates \subseteq Nat /\ got[s] \subseteq Updates /\ \A i \in 1 .. l : c[i] \in Updates
          <5>1. \A i \in 1 .. l : c[i] \in Updates
            BY <2>2
          <5>2. Updates \subseteq Nat
            BY DEF Updates
          <5>3. got[s] \subseteq Updates
            BY DEF CloneTypes
          <5> QED
            BY <5>1, <5>2, <5>3
        <4>3. \A i \in 1 .. l + 1 : i \in 1 .. l \/ i = l + 1
          OBVIOUS
        <4>4. \A i \in 1 .. l + 1 : d[i] <= sets + 1
          <5>1. \A i \in 1 .. l : c[i] \in Nat /\ c[i] <= sets
            BY <4>1, <4>2
          <5>2. \A i \in 1 .. l : d[i] <= sets + 1
            BY <1>1, <3>3, <5>1
          <5>3. d[l + 1] <= sets + 1
            BY <1>1, <3>1, <3>3
          <5> QED
            BY <4>3, <5>2, <5>3
        <4>5. ASSUME NEW i \in 1 .. l + 1, NEW j \in 1 .. l + 1, i < j PROVE d[i] < d[j]
          <5>1. i \in 1 .. l
            BY <4>5
          <5>2. CASE j \in 1 .. l
            BY <3>3, <4>1, <4>5, <5>1, <5>2
          <5>3. CASE j = l + 1
            <6>1. d[i] = c[i] /\ c[i] <= sets /\ c[i] \in Nat
              BY <3>3, <4>1, <4>2, <5>1
            <6> QED
              BY <1>1, <3>1, <3>3, <5>3, <6>1
          <5> QED
            BY <4>3, <5>2, <5>3
        <4>6. ASSUME NEW u \in got[s], NEW i \in 1 .. l + 1 PROVE u < d[i]
          <5>1. u \in Nat /\ u <= sets
            BY <4>1, <4>2
          <5>2. CASE i \in 1 .. l
            BY <3>3, <4>1, <5>2
          <5>3. CASE i = l + 1
            BY <1>1, <3>1, <3>3, <5>1, <5>3
          <5> QED
            BY <4>3, <5>2, <5>3
        <4>7. About(pending[s]) \subseteq Nat /\ About(feed[s]) \subseteq Nat
          <5>1. feed[s] \in Seq(Messages)
            BY DEF CloneTypes
          <5>2. ToSet(feed[s]) \subseteq Messages
            BY <5>1 DEF ToSet
          <5>3. About(feed[s]) \subseteq Nat
            BY <5>2 DEF About, Messages
          <5> QED
            BY <4>2, <5>3, AboutUpdates
        <4>8. /\ \A u \in got[s] \cup About(pending[s]) \cup About(feed[s]) : u <= sets + 1
              /\ \A u \in Updates : kvmap[s][u] # "none" => u <= sets + 1
          <5>1. \A u \in Nat : u <= sets => u <= sets + 1
            BY <1>1
          <5>2. /\ got[s] \cup About(pending[s]) \cup About(feed[s]) \subseteq Nat
                /\ Updates \subseteq Nat
            BY <4>2, <4>7
          <5> QED
            BY <4>1, <5>1, <5>2
        <4>9. collector'[s] = d /\ Len(d) = l + 1
          BY <2>4, <3>1, <3>2, <3>3
        <4> QED
          BY <1>1, <1>2, <4>4, <4>5, <4>6, <4>8, <4>9 DEF SentOK, storeVars
      <3> QED
        BY <2>4, <3>1, <3>2, <3>3, <3>4 DEF Up
    <2> QED
      BY <2>1, <2>3, <2>4 DEF Sends
  <1>4. CloneTypes'
    <2>1. collector' \in [Servers -> Seq(Updates)]
      BY <1>3 DEF Sends
    <2> QED
      BY <1>1, <1>2, <2>1 DEF CloneTypes, clientVars, storeVars
  <1>5. ASSUME NEW s \in Servers PROVE OwnOK(s)' /\ FeedOK(s)' /\ SnapOK(s)'
    <2>1. OwnOK(s) /\ FeedOK(s) /\ SnapOK(s) /\ Peer(s) \in Servers
      BY PeerPeer DEF Stores
    <2>2. FeedOK(s)'
      BY <1>2, <2>1 DEF FeedOK, Up, storeVars
    <2>3. SentOK(s)'
      BY <1>3, <2>1 DEF OwnOK
    <2>4. StuckOK(s)' /\ BlankOK(s)' /\ MapOK(s)'
      BY <1>2, <1>3, <2>1 DEF OwnOK, StuckOK, BlankOK, Blank, MapOK, Includes, Up, storeVars
    <2>5. SnapOK(s)'
      <3>1. \A u \in Updates : u \in Nat
        BY DEF Updates
      <3>2. \A shot \in snap[s], u \in Updates : shot.kv[u] # "none" => u <= sets'
        BY <1>1, <2>1, <3>1 DEF SnapOK
      <3> QED
        BY <1>2, <2>1, <3>2 DEF SnapOK, Includes, Up, storeVars
    <2> QED
      BY <2>2, <2>3, <2>4, <2>5 DEF OwnOK
  <1> QED
    BY <1>4, <1>5 DEF Stores

LEMMA SetSends == Set => Sends
  BY DEF Set, Sends, sockVars

LEMMA DistributeSends ==
  ASSUME CloneTypes, Distribute, Up("p")
  PROVE  Sends
  <1>1. \A s \in Servers : \/ collector'[s] = collector[s]
                           \/ Up(s) /\ collector'[s] = Append(collector[s], sets + 1)
    BY PeerFacts DEF Distribute, CloneTypes
  <1>2. collector' = [s \in Servers |-> collector'[s]]
    BY DEF Distribute, CloneTypes
  <1> QED
    BY <1>1, <1>2 DEF Distribute, Sends

\* A server whose peer is down for good takes an update of its own.
Takes ==
  /\ collector["p"] # <<>>
  /\ LET u == Head(collector["p"]) IN
     /\ kvmap' = [kvmap EXCEPT !["p"] = Store(@, [u |-> u, del |-> FALSE])]
     /\ sequence' = [sequence EXCEPT !["p"] = u]
     /\ got' = [got EXCEPT !["p"] = @ \cup {u}]
  /\ collector' = [collector EXCEPT !["p"] = Tail(@)]
  /\ UNCHANGED <<vars, mapped, pending, from, skewed, sets, feed, asks, snap, agentVars, sockVars>>

\* The state manager of clonesrv2.c stores an update that was published before.
LEMMA TakesKeeps ==
  ASSUME CloneTypes, Stores, Takes, state["p"] = "ACTIVE", state["b"] = "down", "p" \in mapped
  PROVE  CloneTypes' /\ Stores'
  <1>0. Servers = {"p", "b"} /\ "p" \in Servers /\ "b" \in Servers /\ Peer("p") = "b" /\ Peer("b") = "p"
    BY PeerFacts
  <1>1. OwnOK("p") /\ FeedOK("p") /\ SnapOK("p") /\ OwnOK("b") /\ SnapOK("b")
    BY <1>0 DEF Stores
  <1>2. PICK u \in Updates, t \in Seq(Updates) :
          /\ u = Head(collector["p"]) /\ t = Tail(collector["p"])
          /\ u <= sets /\ u \notin got["p"]
          /\ \A i \in 1 .. Len(t) : t[i] <= sets
          /\ \A i, j \in 1 .. Len(t) : i < j => t[i] < t[j]
          /\ \A v \in got["p"] \cup {u}, i \in 1 .. Len(t) : v < t[i]
    BY <1>0, <1>1, Collected DEF OwnOK, Takes
  <1>3. PICK p : p = [u |-> u, del |-> FALSE]
    OBVIOUS
  <1>4. p \in Pendings /\ p.u = u
    BY <1>3 DEF Pendings
  <1>5. PICK map \in Maps : /\ map = Store(kvmap["p"], p) /\ map[u] # "none"
                            /\ \A v \in Updates : kvmap["p"][v] # "none" => map[v] # "none"
                            /\ \A v \in Updates : v # u => map[v] = kvmap["p"][v]
    BY <1>0, <1>4, Stored
  <1>6. /\ kvmap' = [kvmap EXCEPT !["p"] = map] /\ sequence' = [sequence EXCEPT !["p"] = u]
        /\ got' = [got EXCEPT !["p"] = @ \cup {u}] /\ collector' = [collector EXCEPT !["p"] = t]
        /\ UNCHANGED <<state, stuck, life, late, clientVars, mapped, pending, from, skewed, sets,
                       feed, asks, snap, joined>>
    BY <1>0, <1>2, <1>3, <1>5 DEF Takes, CloneTypes, vars, sockVars
  <1>7. CloneTypes'
    <2>1. u \in Nat
      BY DEF Updates
    <2>2. kvmap' \in [Servers -> Maps] /\ sequence' \in [Servers -> Nat]
      BY <1>6, <2>1 DEF CloneTypes
    <2>3. got' \in [Servers -> SUBSET Updates] /\ collector' \in [Servers -> Seq(Updates)]
      BY <1>6 DEF CloneTypes
    <2> QED
      BY <1>6, <2>2, <2>3 DEF CloneTypes, clientVars
  <1>8. /\ kvmap'["p"] = map /\ sequence'["p"] = u /\ got'["p"] = got["p"] \cup {u}
        /\ collector'["p"] = t /\ kvmap'["b"] = kvmap["b"] /\ sequence'["b"] = sequence["b"]
        /\ got'["b"] = got["b"] /\ collector'["b"] = collector["b"]
        /\ got["p"] \subseteq Updates
    BY <1>0, <1>6 DEF CloneTypes
  <1>9. "p" \notin stuck /\ "b" \notin stuck
    BY <1>1 DEF OwnOK, StuckOK
  <1>10. OwnOK("p")'
    <2>1. SentOK("p")'
      BY <1>1, <1>2, <1>5, <1>6, <1>8 DEF OwnOK, SentOK
    <2>2. ~Blank("p") /\ ~Blank("p")' /\ StuckOK("p")' /\ BlankOK("p")'
      BY <1>6, <1>9 DEF Blank, StuckOK, BlankOK
    <2>3. ASSUME "p" \notin skewed
          PROVE  /\ \A v \in got["p"] : kvmap["p"][v] # "none" \/ v \in About(pending["p"])
                 /\ \A v \in About(pending["p"]) \ got["p"] : kvmap["p"][v] # "none"
      BY <1>1, <2>2, <2>3 DEF OwnOK, MapOK
    <2>4. About(pending["p"]) \subseteq Updates
      BY <1>0, AboutUpdates
    <2>5. ASSUME "p" \notin skewed
          PROVE  /\ \A v \in got'["p"] : map[v] # "none" \/ v \in About(pending["p"])
                 /\ \A v \in About(pending["p"]) \ got'["p"] : map[v] # "none"
      BY <1>5, <1>8, <2>3, <2>4, <2>5
    <2>6. MapOK("p")'
      BY <1>6, <1>8, <2>5 DEF MapOK
    <2> QED
      BY <2>1, <2>2, <2>6 DEF OwnOK
  <1>11. OwnOK("b")'
    <2>1. SentOK("b")'
      BY <1>1, <1>6, <1>8 DEF OwnOK, SentOK
    <2>2. StuckOK("b")' /\ BlankOK("b")' /\ MapOK("b")'
      BY <1>1, <1>6, <1>8, <1>9 DEF OwnOK, StuckOK, BlankOK, Blank, MapOK
    <2> QED
      BY <2>1, <2>2 DEF OwnOK
  <1>12. FeedOK("b")'
    <2>1. feed'["b"] = <<>>
      BY <1>1, <1>6 DEF OwnOK, BlankOK
    <2> QED
      BY <2>1 DEF FeedOK
  <1>13. Same("b") /\ FeedIn("p")
    BY <1>6, <1>8 DEF Same, FeedIn
  <1>14. FeedOK("p")'
    BY <1>0, <1>1, <1>7, <1>13, OwnFeed
  <1>15. SnapOK("p")'
    BY <1>0, <1>1, <1>6, <1>7, <1>13, OwnSnap
  <1>16. SnapOK("b")'
    <2>1. snap["b"] = {} /\ "peer" \notin asks["p"]
      BY <1>0, <1>1, <1>9 DEF SnapOK
    <2> QED
      BY <1>0, <1>6, <2>1 DEF SnapOK
  <1> QED
    BY <1>0, <1>10, <1>11, <1>12, <1>14, <1>15, <1>16, <1>7 DEF Stores

-----------------------------------------------------------------------------
(* The agent                                                               *)

NewsTypes ==
  /\ afeed \in [Servers -> Seq(Messages)] /\ missed \in [Servers -> SUBSET Updates]
  /\ \A s \in Servers : \A u \in missed[s] : u <= sets

AgentParts ==
  /\ mode \in {"INITIAL", "SYNCING", "ACTIVE"} /\ at \in Servers
  /\ requests \in [Servers -> 0 .. 2]
  /\ asequence \in Nat /\ akvmap \in Maps

JoinedUp == \A s \in joined : Up(s)

LEMMA AgentSplit ==
  /\ AgentTypes <=> AgentParts /\ NewsTypes /\ JoinedUp /\ replies \in [Servers -> Seq(Shots)]
  /\ AgentTypes' <=> AgentParts' /\ NewsTypes' /\ JoinedUp' /\ replies' \in [Servers -> Seq(Shots)]
  BY DEF AgentTypes, AgentParts, NewsTypes, JoinedUp

LEMMA PartsStay == AgentParts /\ UNCHANGED agentVars => AgentParts'
  BY DEF AgentParts, agentVars

LEMMA NewsStay ==
  ASSUME CloneTypes, NewsTypes, UNCHANGED news, sets' = sets \/ sets' = sets + 1
  PROVE  NewsTypes'
  <1>1. sets \in Nat /\ \A s \in Servers : missed[s] \subseteq Nat
    <2>1. sets \in Nat
      BY CloneAssumption DEF CloneTypes
    <2>2. Updates \subseteq Nat
      BY DEF Updates
    <2>3. \A s \in Servers : missed[s] \subseteq Nat
      BY <2>2 DEF NewsTypes
    <2> QED
      BY <2>1, <2>3
  <1> QED
    BY <1>1 DEF NewsTypes, news

\* What the agent gets, or has missed, when a server publishes.
LEMMA BroadcastTypes ==
  ASSUME CloneTypes, NewsTypes, NEW s \in Servers, NEW ms \in Seq(Messages), Broadcast(s, ms),
         About(ms) \subseteq Updates, \A u \in About(ms) : u <= sets',
         sets' = sets \/ sets' = sets + 1
  PROVE  NewsTypes'
  <1>1. sets \in Nat /\ \A r \in Servers : missed[r] \subseteq Nat /\ \A u \in missed[r] : u <= sets'
    <2>1. sets \in Nat /\ \A r \in Servers : missed[r] \subseteq Nat
      <3>1. sets \in 0 .. MaxUpdates /\ \A r \in Servers : missed[r] \subseteq Updates
        BY DEF CloneTypes, NewsTypes
      <3>2. Updates \subseteq Nat
        BY DEF Updates
      <3>3. sets \in Nat
        BY <3>1, CloneAssumption
      <3>4. \A r \in Servers : missed[r] \subseteq Nat
        BY <3>1, <3>2
      <3> QED
        BY <3>3, <3>4
    <2> QED
      BY <2>1 DEF NewsTypes
  <1>2. PICK more : more = About(ms)
    OBVIOUS
  <1>3. \/ afeed' = [afeed EXCEPT ![s] = @ \o ms] /\ missed' = missed
        \/ afeed' = afeed /\ missed' = missed
        \/ afeed' = afeed /\ missed' = [missed EXCEPT ![s] = @ \cup more]
    BY <1>2 DEF Broadcast, About
  <1>4. afeed' \in [Servers -> Seq(Messages)]
    <2>1. afeed \in [Servers -> Seq(Messages)]
      BY DEF NewsTypes
    <2>2. PICK g : g = afeed[s] \o ms
      OBVIOUS
    <2>3. g \in Seq(Messages)
      BY <2>1, <2>2, Joined
    <2>4. afeed' = afeed \/ afeed' = [afeed EXCEPT ![s] = g]
      BY <1>3, <2>1, <2>2
    <2> QED
      BY <2>1, <2>3, <2>4
  <1>5. missed' \in [Servers -> SUBSET Updates]
    BY <1>2, <1>3 DEF NewsTypes
  <1>6. \A r \in Servers : \A u \in missed'[r] : u <= sets'
    BY <1>1, <1>2, <1>3 DEF NewsTypes
  <1> QED
    BY <1>4, <1>5, <1>6 DEF NewsTypes

\* The change of state publishes the pending updates to the agent, too.
LEMMA HandlersNews ==
  ASSUME CloneTypes, NewsTypes, Stores, NEW s \in Servers, StateHandlers(s), UNCHANGED sets
  PROVE  NewsTypes'
  <1>1. CASE UNCHANGED news
    BY <1>1, NewsStay
  <1>2. CASE NewActive(s)
    <2>1. PICK ms \in Seq(Messages) : Taking(s, ms) /\ About(ms) = About(pending[s])
      BY <1>2, NewActiveTypes
    <2>2. About(pending[s]) \subseteq Updates /\ \A u \in About(pending[s]) : u <= sets
      BY AboutUpdates DEF Stores, OwnOK, SentOK
    <2> QED
      BY <2>1, <2>2, BroadcastTypes DEF Taking
  <1> QED
    BY <1>1, <1>2 DEF StateHandlers, NewPassive

\* One update of a server to the agent.
LEMMA UpdateNews ==
  ASSUME CloneTypes, NewsTypes, NEW s \in Servers, NEW m \in Messages, m.u \in Updates,
         Broadcast(s, <<m>>), m.u <= sets', sets' = sets \/ sets' = sets + 1
  PROVE  NewsTypes'
  <1>1. PICK ms : ms = <<m>>
    OBVIOUS
  <1>2. ms \in Seq(Messages) /\ About(ms) = {m.u} /\ Broadcast(s, ms)
    BY <1>1, AboutOne
  <1> QED
    BY <1>2, BroadcastTypes

LEMMA EndsTypes ==
  ASSUME PairTypes, CloneTypes, AgentTypes, NEW s \in Servers, Ends(s)
  PROVE  AgentTypes'
  <1>1. AgentParts'
    BY PartsStay, AgentSplit DEF Ends
  <1>2. NewsTypes' /\ replies' \in [Servers -> Seq(Shots)]
    BY DEF Ends, Gone, AgentTypes, NewsTypes
  <1>3. JoinedUp'
    BY DEF Ends, Gone, Die, AgentTypes, JoinedUp, Up, PairTypes, CloneTypes
  <1> QED
    BY <1>1, <1>2, <1>3, AgentSplit

\* A step that changes no state, and nothing at the agent but the news.
LEMMA NewsOnly ==
  ASSUME AgentTypes, NewsTypes', UNCHANGED <<state, agentVars, joined, replies>>
  PROVE  AgentTypes'
  <1>1. AgentParts'
    BY PartsStay, AgentSplit
  <1>2. JoinedUp' /\ replies' \in [Servers -> Seq(Shots)]
    BY DEF AgentTypes, JoinedUp, Up
  <1> QED
    BY <1>1, <1>2, AgentSplit

LEMMA MovedUp ==
  ASSUME PairTypes, CloneTypes, AgentTypes, NEW s \in Servers, NEW new, new # "down",
         state' = [state EXCEPT ![s] = new], UNCHANGED joined
  PROVE  JoinedUp'
  BY DEF PairTypes, CloneTypes, AgentTypes, JoinedUp, Up

LEMMA TurnedTypes ==
  ASSUME PairTypes, CloneTypes, AgentTypes, Stores, NEW s \in Servers, Turned(s)
  PROVE  AgentTypes'
  <1>1. AgentParts' /\ replies' \in [Servers -> Seq(Shots)]
    BY PartsStay, AgentSplit DEF Turned
  <1>2. NewsTypes'
    BY HandlersNews, AgentSplit DEF Turned
  <1>3. JoinedUp'
    <2>1. PICK event \in inbox[s] : state' = [state EXCEPT ![s] = Heard(s, event)]
      BY DEF Turned
    <2>2. PICK new : new = Heard(s, event)
      OBVIOUS
    <2>3. state[s] \in States
      BY DEF Turned, Runs, Up, PairTypes
    <2>4. new # "down"
      BY <2>2, <2>3, Moved DEF Heard, States
    <2> QED
      BY <2>1, <2>2, <2>4, MovedUp DEF Turned
  <1> QED
    BY <1>1, <1>2, <1>3, AgentSplit

LEMMA VotedTypes ==
  ASSUME PairTypes, CloneTypes, AgentTypes, Stores, NEW s \in Servers, NEW who, Voted(s, who)
  PROVE  AgentTypes'
  <1>1. AgentParts'
    BY PartsStay, AgentSplit DEF Voted
  <1>2. NewsTypes'
    BY HandlersNews, AgentSplit DEF Voted
  <1>3. JoinedUp'
    <2>1. PICK new : new = Move(state[s], "REQUEST", expired[s])
      OBVIOUS
    <2>2. state[s] \in States /\ expired[s] \in BOOLEAN
      BY DEF Voted, Runs, Up, PairTypes
    <2>3. new # "down"
      BY <2>1, <2>2, Moved DEF States
    <2>4. state' = [state EXCEPT ![s] = new]
      BY <2>1 DEF Voted, PairTypes
    <2> QED
      BY <2>3, <2>4, MovedUp DEF Voted
  <1>4. replies' \in [Servers -> Seq(Shots)]
    <2>1. StoreTypes'
      BY HandlersTypes DEF Voted
    <2>2. PICK shot : shot = [kv |-> kvmap'[s], n |-> sequence'[s], life |-> life[s]]
      OBVIOUS
    <2>3. shot \in Shots
      BY <2>1, <2>2 DEF StoreTypes, CloneTypes, Shots
    <2>4. replies \in [Servers -> Seq(Shots)]
      BY DEF AgentTypes
    <2>5. replies' = replies \/ replies' = [replies EXCEPT ![s] = Append(@, shot)]
      BY <2>2 DEF Voted
    <2>6. PICK list \in Seq(Shots) : list = replies[s]
      BY <2>4
    <2>7. Append(list, shot) \in Seq(Shots)
      BY <2>3
    <2>8. PICK more \in Seq(Shots) : more = Append(list, shot)
      BY <2>7
    <2>9. replies' = replies \/ replies' = [replies EXCEPT ![s] = more]
      BY <2>4, <2>5, <2>6, <2>8
    <2> QED
      BY <2>4, <2>9
  <1> QED
    BY <1>1, <1>2, <1>3, <1>4, AgentSplit

LEMMA CollectorTypes ==
  ASSUME PairTypes, CloneTypes, AgentTypes, Stores, NEW s \in Servers, Collector(s), ~Ends(s)
  PROVE  AgentTypes'
  <1>0. ~(state[s] = "ACTIVE" /\ s \notin mapped)
    BY DEF Collector, Abort, Ends
  <1>1. UNCHANGED <<vars, sets, agentVars, replies, joined>>
    BY <1>0 DEF Collector
  <1>2. CASE state[s] = "ACTIVE"
    <2>1. PICK u \in Updates : u = Head(collector[s]) /\ u <= sets
      BY Collected DEF Stores, OwnOK, Collector
    <2>2. PICK p : p = [u |-> u, del |-> FALSE]
      OBVIOUS
    <2>3. p \in Pendings /\ p.u = u
      BY <2>2 DEF Pendings
    <2>4. PICK m \in Messages : m = Message(s, sequence[s] + 1, p) /\ m.u = u
      BY <2>3, NextMessage
    <2>5. Broadcast(s, <<m>>)
      BY <1>0, <1>2, <2>1, <2>2, <2>4 DEF Collector, Publish
    <2>6. NewsTypes'
      BY <1>1, <2>1, <2>4, <2>5, UpdateNews, AgentSplit
    <2> QED
      BY <1>1, <2>6, NewsOnly DEF vars
  <1>3. CASE state[s] # "ACTIVE"
    <2>1. UNCHANGED news
      BY <1>0, <1>3 DEF Collector
    <2>2. NewsTypes'
      BY <1>1, <2>1, NewsStay, AgentSplit
    <2> QED
      BY <1>1, <2>2, NewsOnly DEF vars
  <1> QED
    BY <1>2, <1>3

LEMMA FlushTypes ==
  ASSUME PairTypes, CloneTypes, AgentTypes, Stores, NEW s \in Servers, FlushTtl(s)
  PROVE  AgentTypes'
  <1>1. PICK u \in Updates :
          /\ kvmap[s][u] = "held"
          /\ Publish(s, <<Message(s, sequence[s] + 1, [u |-> u, del |-> TRUE])>>)
          /\ UNCHANGED <<vars, sets, agentVars, replies, joined>>
    BY DEF FlushTtl, Held
  <1>2. u <= sets
    BY <1>1 DEF Stores, OwnOK, SentOK
  <1>3. PICK p : p = [u |-> u, del |-> TRUE]
    OBVIOUS
  <1>4. p \in Pendings /\ p.u = u
    BY <1>3 DEF Pendings
  <1>5. PICK m \in Messages : m = Message(s, sequence[s] + 1, p) /\ m.u = u
    BY <1>4, NextMessage
  <1>6. Broadcast(s, <<m>>)
    BY <1>1, <1>3, <1>5 DEF Publish
  <1>7. NewsTypes'
    BY <1>1, <1>2, <1>5, <1>6, UpdateNews, AgentSplit
  <1> QED
    BY <1>1, <1>7, NewsOnly DEF vars

LEMMA AgentMoves ==
  ASSUME CloneTypes, AgentTypes, AgentStep
  PROVE  AgentTypes'
  <1>0. at \in Servers /\ Peer(at) \in Servers /\ sets \in Nat
    BY PeerPeer, CloneAssumption DEF AgentTypes, CloneTypes
  <1>1. ASSUME NEW s \in Servers, Ask(s) PROVE AgentTypes'
    <2>1. requests' \in [Servers -> 0 .. 2]
      <3>1. requests \in [Servers -> 0 .. 2]
        BY DEF AgentTypes
      <3>2. requests' = requests \/ (requests[s] < 2 /\ requests' = [requests EXCEPT ![s] = @ + 1])
        <4>1. CASE requests[s] < 2
          BY <1>1, <4>1 DEF Ask
        <4>2. CASE ~(requests[s] < 2)
          BY <1>1, <4>2 DEF Ask
        <4> QED
          BY <4>1, <4>2
      <3> QED
        BY <3>1, <3>2
    <2>2. UNCHANGED <<state, sets, asequence, akvmap, replies, joined, news>> /\ at' = s
          /\ mode' = "SYNCING"
      BY <1>1 DEF Ask, vars, sockVars
    <2> QED
      BY <2>1, <2>2 DEF AgentTypes, Up, news
  <1>2. CASE AgentConnect
    BY <1>0, <1>1, <1>2 DEF AgentConnect
  <1>3. CASE AgentFailover
    BY <1>0, <1>1, <1>3 DEF AgentFailover
  <1>4. CASE AgentSnapshot
    <2>1. PICK list \in Seq(Shots) : list = replies[at]
      BY <1>0 DEF AgentTypes
    <2>2. PICK shot, rest : shot = Head(list) /\ rest = Tail(list)
      OBVIOUS
    <2>3. shot \in Shots /\ rest \in Seq(Shots)
      BY <1>4, <2>1, <2>2 DEF AgentSnapshot
    <2>4. /\ akvmap' = [u \in Updates |-> IF u \in Held(shot.kv) THEN "held" ELSE akvmap[u]]
          /\ asequence' = shot.n
          /\ missed' = [missed EXCEPT ![at] = {u \in @ : shot.kv[u] = "none"}]
          /\ replies' = [replies EXCEPT ![at] = rest]
          /\ mode' = "ACTIVE" /\ requests' = [requests EXCEPT ![at] = 0]
          /\ UNCHANGED <<state, sets, at, afeed, joined>>
      BY <1>4, <2>1, <2>2 DEF AgentSnapshot, vars, netVars, AgentTypes
    <2>5. akvmap' \in Maps
      BY <2>4 DEF AgentTypes, Maps
    <2>6. asequence' \in Nat
      BY <2>3, <2>4 DEF Shots
    <2>7. replies' \in [Servers -> Seq(Shots)] /\ requests' \in [Servers -> 0 .. 2]
      BY <1>0, <2>3, <2>4 DEF AgentTypes
    <2>8. /\ missed' \in [Servers -> SUBSET Updates]
          /\ \A s \in Servers : missed'[s] \subseteq missed[s]
      BY <1>0, <2>4 DEF AgentTypes
    <2> QED
      BY <2>4, <2>5, <2>6, <2>7, <2>8 DEF AgentTypes, Up
  <1>5. CASE AgentUpdate
    <2>1. PICK list \in Seq(Messages) : list = afeed[at]
      BY <1>0 DEF AgentTypes
    <2>2. PICK m, rest : m = Head(list) /\ rest = Tail(list)
      OBVIOUS
    <2>3. m \in Messages /\ rest \in Seq(Messages)
      BY <1>5, <2>1, <2>2 DEF AgentUpdate
    <2>4. PICK map : map = Store(akvmap, m)
      OBVIOUS
    <2>5. map \in Maps /\ m.n \in Nat
      BY <2>3, <2>4, StoreFacts DEF Messages, AgentTypes
    <2>6. /\ \/ asequence' = m.n /\ akvmap' = map
             \/ UNCHANGED <<asequence, akvmap>>
          /\ afeed' = [afeed EXCEPT ![at] = rest]
          /\ UNCHANGED <<state, sets, mode, at, requests, replies, joined, missed>>
      <3>1. CASE m.n > asequence
        BY <1>5, <2>1, <2>2, <2>4, <3>1 DEF AgentUpdate, vars, netVars, AgentTypes
      <3>2. CASE ~(m.n > asequence)
        BY <1>5, <2>1, <2>2, <3>2 DEF AgentUpdate, vars, netVars, AgentTypes
      <3> QED
        BY <3>1, <3>2
    <2>7. afeed' \in [Servers -> Seq(Messages)] /\ akvmap' \in Maps /\ asequence' \in Nat
      BY <1>0, <2>3, <2>5, <2>6 DEF AgentTypes
    <2> QED
      BY <2>6, <2>7 DEF AgentTypes, Up
  <1> QED
    BY <1>2, <1>3, <1>4, <1>5 DEF AgentStep

LEMMA JoinTypes ==
  ASSUME AgentTypes, NEW s \in Servers, AgentJoins(s)
  PROVE  AgentTypes'
  BY DEF AgentJoins, AgentTypes, vars, netVars, agentVars, news, Up

LEMMA SendsTypes ==
  ASSUME CloneTypes, AgentTypes, Sends, Set \/ (Distribute /\ Up("p"))
  PROVE  AgentTypes'
  <1>0. sets \in Nat /\ sets + 1 \in Updates /\ sets' = sets + 1
    <2>1. sets \in 0 .. MaxUpdates /\ sets < MaxUpdates /\ sets' = sets + 1
      BY DEF Sends, CloneTypes
    <2> QED
      BY <2>1, CloneAssumption DEF Updates
  <1>1. UNCHANGED <<state, agentVars, replies, joined>>
    BY DEF Set, Distribute, vars, sockVars
  <1>2. CASE Set
    <2>1. NewsTypes'
      BY <1>0, <1>2, NewsStay, AgentSplit DEF Set, sockVars
    <2> QED
      BY <1>1, <2>1, NewsOnly
  <1>3. CASE Distribute
    <2>1. PICK p : p = [u |-> sets + 1, del |-> FALSE]
      OBVIOUS
    <2>2. p.u = sets + 1 /\ p.u \in 0 .. MaxUpdates /\ p.del \in BOOLEAN
      BY <1>0, <2>1, UpdatesAreNumbers, CloneAssumption
    <2>3. PICK k \in Nat : k = sets + 1
      BY <1>0
    <2>4. PICK m : m = Message("p", k, p)
      OBVIOUS
    <2>5. m \in Messages /\ m.u = sets + 1
      BY <2>2, <2>4, MessageTyped, PeerFacts
    <2>6. Broadcast("p", <<m>>)
      BY <1>3, <2>1, <2>3, <2>4 DEF Distribute
    <2>7. m.u \in Updates /\ m.u <= sets'
      BY <1>0, <2>5
    <2>8. NewsTypes'
      BY <1>0, <2>5, <2>6, <2>7, UpdateNews, AgentSplit, PeerFacts
    <2> QED
      BY <1>1, <2>8, NewsOnly
  <1> QED
    BY <1>2, <1>3

-----------------------------------------------------------------------------
(* The steps, with what each program keeps                                 *)

\* The stores and the agent, after a step.
Kept == CloneTypes' /\ Stores' /\ AgentTypes'

LEMMA EndsKept ==
  ASSUME PairTypes, CloneTypes, AgentTypes, Stores, NEW s \in Servers, Ends(s)
  PROVE  Kept
  BY EndsKeeps, EndsTypes DEF Kept

LEMMA SnapshotsKept ==
  ASSUME PairTypes, CloneTypes, AgentTypes, Stores, NEW s \in Servers,
         NEW who \in Askers, Snapshots(s, who)
  PROVE  Kept
  BY SnapshotCases, EndsKept, VotedKeeps, VotedTypes DEF Kept

LEMMA CollectorKept ==
  ASSUME PairTypes, CloneTypes, AgentTypes, Stores, NEW s \in Servers, Collector(s)
  PROVE  Kept
  BY EndsKept, CollectorKeeps, CollectorTypes DEF Kept

LEMMA FlushKept ==
  ASSUME PairTypes, CloneTypes, AgentTypes, Stores, NEW s \in Servers, FlushTtl(s)
  PROVE  Kept
  BY FlushKeeps, FlushTypes DEF Kept

LEMMA SetKept ==
  ASSUME CloneTypes, AgentTypes, Stores, Set
  PROVE  Kept
  BY SetSends, SendsKeeps, SendsTypes DEF Kept

LEMMA AgentKept ==
  ASSUME CloneTypes, AgentTypes, Stores, AgentStep
  PROVE  Kept
  BY AgentKeeps, AgentMoves DEF Kept

\* A step of a server under the reactor, whatever its handler.
LEMMA ServerKept ==
  ASSUME PairTypes, OneNews, CloneTypes, AgentTypes, Stores, NEW s \in Servers, ServerStep(s)
  PROVE  Kept
  <1>1. CASE CloneSendState(s) \/ CloneExpire(s)
    <2>1. CloneTypes' /\ Stores'
      BY <1>1, ReactorKeeps
    <2>2. UNCHANGED <<state, sets, agentVars, replies, joined, news>>
      BY <1>1 DEF CloneSendState, CloneExpire, SendState, Expire, cloneVars, netVars, sockVars
    <2>3. NewsTypes'
      BY <2>2, NewsStay, AgentSplit
    <2> QED
      BY <2>1, <2>2, <2>3, NewsOnly DEF Kept
  <1>2. CASE CloneRecvState(s)
    BY <1>2, RecvCases, EndsKept, RecvStateKeeps, TurnedTypes DEF Kept
  <1>3. CASE CloneCrash(s)
    <2>1. Ends(s)
      BY <1>3 DEF CloneCrash, Crash, Ends
    <2> QED
      BY <2>1, EndsKept
  <1>4. CASE CloneRestart(s)
    <2>1. CloneTypes' /\ Stores'
      BY <1>4, RestartStores
    <2>2. AgentTypes'
      <3>1. UNCHANGED <<sets, mode, at, requests, replies, afeed, missed, asequence, akvmap, joined>>
        BY <1>4 DEF CloneRestart, cloneVars, agentVars, netVars, sockVars, news
      <3>2. \A r \in Servers : Up(r) => state'[r] # "down"
        BY <1>4, PeerFacts DEF CloneRestart, Restart, Up, PairTypes
      <3>3. joined \subseteq Servers
        BY DEF CloneTypes
      <3> QED
        BY <3>1, <3>2, <3>3 DEF AgentTypes, Up
    <2> QED
      BY <2>1, <2>2 DEF Kept
  <1>5. CASE \E who \in Askers : Snapshots(s, who)
    BY <1>5, SnapshotsKept
  <1>6. CASE Collector(s)
    BY <1>6, CollectorKept
  <1>7. CASE FlushTtl(s)
    BY <1>7, FlushKept
  <1>8. CASE SendHugz(s) \/ AskSnapshot(s) \/ SnapshotArrives(s) \/ Subscriber(s)
    <2>1. CloneTypes' /\ Stores'
      BY <1>8, HugzKeeps, AskSnapshotKeeps, SubscriberKeeps
    <2>2. UNCHANGED <<state, sets, agentVars, replies, joined, news>>
      <3>1. CASE SendHugz(s) \/ AskSnapshot(s)
        BY <3>1 DEF SendHugz, AskSnapshot, vars, sockVars
      <3>2. CASE SnapshotArrives(s) \/ Subscriber(s)
        BY <3>2 DEF SnapshotArrives, Subscriber, Subscribe, vars, sockVars
      <3> QED
        BY <1>8, <3>1, <3>2
    <2>3. NewsTypes'
      BY <2>2, NewsStay, AgentSplit
    <2> QED
      BY <2>1, <2>2, <2>3, NewsOnly DEF Kept
  <1> QED
    BY <1>1, <1>2, <1>3, <1>4, <1>5, <1>6, <1>7, <1>8 DEF ServerStep

\* Servers that store nothing: the pair alone, and all of them as they begin.
Bare ==
  /\ stuck = {} /\ skewed = {}
  /\ \A r \in Servers : /\ feed[r] = <<>> /\ pending[r] = <<>> /\ collector[r] = <<>>
                        /\ kvmap[r] = Empty /\ sequence[r] = 0 /\ got[r] = {}
                        /\ asks[r] = {} /\ snap[r] = {} /\ from[r] = 0

LEMMA BareStores == CloneTypes /\ Bare => Stores
  <1> SUFFICES ASSUME CloneTypes, Bare PROVE Stores
    OBVIOUS
  <1> SUFFICES ASSUME NEW s \in Servers PROVE OwnOK(s) /\ FeedOK(s) /\ SnapOK(s)
    BY DEF Stores
  <1>1. /\ stuck = {} /\ skewed = {}
        /\ \A r \in Servers : /\ feed[r] = <<>> /\ pending[r] = <<>> /\ collector[r] = <<>>
                              /\ kvmap[r] = Empty /\ sequence[r] = 0 /\ got[r] = {}
                              /\ asks[r] = {} /\ snap[r] = {} /\ from[r] = 0
    BY DEF Bare
  <1>2. Peer(s) \in Servers /\ life[Peer(s)] \in Nat \ {0}
    BY PeerPeer DEF CloneTypes
  <1>3. About(<<>>) = {}
    BY AboutOne
  <1>4. SentOK(s)
    BY <1>1, <1>3, EmptyFacts DEF SentOK
  <1>5. StuckOK(s) /\ BlankOK(s)
    <2>1. StuckOK(s)
      BY <1>1 DEF StuckOK
    <2>2. BlankOK(s)
      BY <1>1, <1>3 DEF BlankOK
    <2> QED
      BY <2>1, <2>2
  <1>7. SnapOK(s)
    BY <1>1, <1>2 DEF SnapOK
  <1>8. FeedOK(s)
    <2>1. feed[s] = <<>> /\ Len(<<>>) = 0
      BY <1>1
    <2> QED
      BY <2>1 DEF FeedOK
  <1>6. MapOK(s)
    BY <1>1, <1>2, <1>3 DEF MapOK, Includes
  <1> QED
    BY <1>4, <1>5, <1>6, <1>7, <1>8 DEF OwnOK

\* Where the pair runs the echo service there are no stores.
LEMMA PairAlone ==
  ASSUME CloneTypes, AgentTypes, OthersOK, PairNext, UNCHANGED cloneVars
  PROVE  CloneTypes' /\ AgentTypes' /\ OthersOK' /\ Stores'
  <1>1. kind \in Pairs /\ kind' = kind /\ kind \notin Singles
    BY DEF PairNext, SendState, RecvState, Expire, Crash, Restart, ServerRequest, Vote,
           ClientSend, ClientFailover, Pairs, Singles
  <1>2. stuck = {} /\ stuck' = {}
    BY <1>1 DEF OthersOK, PairNext, SendState, RecvState, Expire, Crash, Restart, Die,
           ServerRequest, Vote, ClientSend, ClientFailover
  <1>3. OthersOK'
    BY <1>1, <1>2 DEF OthersOK, cloneVars, storeVars, netVars, agentVars, sockVars
  <1>4. /\ StoreTypes' /\ NetTypes' /\ joined' \subseteq Servers
    BY DEF StoreTypes, NetTypes, CloneTypes, cloneVars, storeVars, netVars, sockVars
  <1>5. /\ cur' \in Servers /\ asked' \subseteq Servers /\ answered' \in BOOLEAN
    <2>1. CASE UNCHANGED clientVars
      BY <2>1 DEF clientVars, CloneTypes
    <2>2. CASE \E s \in Servers : ServerRequest(s)
      BY <2>2 DEF ServerRequest, CloneTypes
    <2>3. CASE ClientSend
      BY <2>3 DEF ClientSend, CloneTypes
    <2>4. CASE ClientFailover
      BY <2>4, PeerPeer DEF ClientFailover, CloneTypes
    <2> QED
      BY <2>1, <2>2, <2>3, <2>4 DEF PairNext, SendState, RecvState, Expire, Crash, Restart
  <1>6. /\ late' \in 0 .. MaxLate
        /\ life' \in [Servers -> Nat \ {0}] /\ life'["p"] + life'["b"] <= 2 + MaxRestarts
    <2>1. CASE UNCHANGED <<late, life>>
      BY <2>1 DEF CloneTypes
    <2>2. ASSUME NEW s \in Servers, Expire(s)
          PROVE  life' = life /\ (late' = late \/ (late < MaxLate /\ late' = late + 1))
      <3>1. CASE Up(Peer(s))
        BY <2>2, <3>1 DEF Expire
      <3>2. CASE ~Up(Peer(s))
        BY <2>2, <3>2 DEF Expire
      <3> QED
        BY <3>1, <3>2
    <2>3. CASE \E s \in Servers : Expire(s)
      <3>1. life' = life /\ (late' = late \/ (late < MaxLate /\ late' = late + 1))
        BY <2>2, <2>3
      <3>2. late \in 0 .. MaxLate
        BY DEF CloneTypes
      <3>3. late' \in 0 .. MaxLate
        <4> HIDE <2>3
        <4> QED
          BY <3>1, <3>2, BinaryStarAssumption
      <3> QED
        BY <3>1, <3>3 DEF CloneTypes
    <2>4. ASSUME NEW s \in Servers, Restart(s)
          PROVE  /\ late' \in 0 .. MaxLate
                 /\ life' \in [Servers -> Nat \ {0}] /\ life'["p"] + life'["b"] <= 2 + MaxRestarts
      BY <2>4, RestartTypes
    <2> QED
      BY <2>1, <2>3, <2>4 DEF PairNext, SendState, RecvState, Crash, ServerRequest, Vote,
                              ClientSend, ClientFailover
  <1>7. RestTypes' /\ CloneTypes'
    BY <1>2, <1>4, <1>5, <1>6, TypeParts DEF RestTypes
  <1>8. AgentTypes'
    <2>1. joined = {}
      BY <1>1 DEF OthersOK
    <2> QED
      BY <2>1 DEF AgentTypes, cloneVars, netVars, agentVars, sockVars, news
  <1>9. Stores'
    <2>1. Bare'
      BY <1>1, <1>3 DEF OthersOK, Bare
    <2>2. CloneTypes' /\ Bare' => Stores'
      BY BareStores, PTL
    <2> QED
      BY <1>7, <2>1, <2>2
  <1> QED
    BY <1>3, <1>7, <1>8, <1>9

-----------------------------------------------------------------------------
(* Every step of every program                                             *)

\* A state goes out only when the last one was read.
LEMMA NewsStaysOne ==
  ASSUME PairTypes, OneNews, [Next]_allVars
  PROVE  OneNews' /\ kind' = kind
  <1>1. CASE Beside
    BY <1>1 DEF Beside, OneNews
  <1>2. ASSUME NEW s \in Servers, PairStep(s) PROVE OneNews' /\ kind' = kind
    <2>1. kind' = kind
      BY <1>2 DEF PairStep, SendState, RecvState, Vote, Expire, Restart
    <2>2. \/ inbox' = inbox
          \/ inbox' = [inbox EXCEPT ![s] = {}]
          \/ inbox' = [inbox EXCEPT ![Peer(s)] = {state[s]}]
      BY <1>2 DEF PairStep, SendState, RecvState, Vote, Expire, Restart, Die
    <2> QED
      BY <2>1, <2>2, PeerPeer DEF PairTypes, OneNews
  <1> QED
    BY <1>1, <1>2, Steps DEF Beside

\* A single server is the active one, and has a map.
LEMMA SingleState ==
  ASSUME OthersOK, kind \in Singles
  PROVE  state["p"] = "ACTIVE" /\ state["b"] = "down" /\ "p" \in mapped
         /\ kind \notin Pairs /\ Up("p")
  BY PeerFacts DEF OthersOK, First, Singles, Pairs, Up

LEMMA OthersStay ==
  ASSUME OthersOK, kind \notin Pairs, kind' = kind,
         kind \in Singles => UNCHANGED <<state, mapped>>
  PROVE  OthersOK'
  BY DEF OthersOK, First, Start

\* It stays active, and does not abort.
LEMMA SingleStays ==
  ASSUME PairTypes, OthersOK, kind \in Singles,
         Clonesrv5 \/ Clonecli5 \/ Distribute \/ StateManager
  PROVE  UNCHANGED <<state, mapped>>
  <1>0. state["p"] = "ACTIVE" /\ "p" \in mapped
    BY SingleState
  <1>1. CASE Snapshots("p", "agent")
    <2>1. Vote("p") /\ StateHandlers("p")
      BY <1>0, <1>1 DEF Snapshots
    <2>2. Move("ACTIVE", "REQUEST", expired["p"]) = "ACTIVE"
      BY DEF Move
    <2>3. state' = state
      BY <1>0, <2>1, <2>2 DEF Vote, PairTypes
    <2> QED
      BY <2>1, <2>3 DEF StateHandlers, storeVars
  <1>2. CASE Collector("p")
    BY <1>0, <1>2 DEF Collector, vars
  <1>3. CASE FlushTtl("p")
    BY <1>3 DEF FlushTtl, vars
  <1>4. CASE Set \/ Distribute \/ Takes
    BY <1>4 DEF Set, Distribute, Takes, vars, storeVars
  <1>5. CASE AgentConnect \/ AgentSnapshot \/ AgentUpdate
    BY <1>5 DEF AgentConnect, Ask, AgentSnapshot, AgentUpdate, vars, storeVars
  <1> QED
    BY <1>1, <1>2, <1>3, <1>4, <1>5 DEF Clonesrv5, Clonesrv4, Snapshots5, Collector5, FlushTtl5,
      Clonecli5, Clonecli4, Clonecli2, StateManager, Takes

\* A step of the single servers and their client.
LEMMA SingleKept ==
  ASSUME PairTypes, CloneTypes, AgentTypes, OthersOK, Stores, kind \in Singles,
         Clonesrv5 \/ Clonecli5 \/ Distribute \/ StateManager
  PROVE  Kept
  <1>0. /\ "p" \in Servers /\ "agent" \in Askers
        /\ state["p"] = "ACTIVE" /\ state["b"] = "down" /\ "p" \in mapped /\ Up("p")
    BY PeerFacts, SingleState DEF Askers
  <1>1. CASE Snapshots("p", "agent") \/ Collector("p") \/ FlushTtl("p")
    BY <1>0, <1>1, SnapshotsKept, CollectorKept, FlushKept
  <1>2. CASE Set
    BY <1>2, SetKept
  <1>3. CASE Distribute
    <2>1. Sends
      BY <1>0, <1>3, DistributeSends
    <2> QED
      BY <1>0, <1>3, <2>1, SendsKeeps, SendsTypes DEF Kept
  <1>4. CASE Takes
    <2>1. CloneTypes' /\ Stores'
      BY <1>0, <1>4, TakesKeeps
    <2>2. UNCHANGED <<state, sets, agentVars, replies, joined, news>>
      BY <1>4 DEF Takes, vars, sockVars
    <2>3. NewsTypes'
      BY <2>2, NewsStay, AgentSplit
    <2> QED
      BY <2>1, <2>2, <2>3, NewsOnly DEF Kept
  <1>5. CASE AgentConnect \/ AgentSnapshot \/ AgentUpdate
    BY <1>5, AgentKept DEF AgentStep
  <1> QED
    BY <1>1, <1>2, <1>3, <1>4, <1>5 DEF Clonesrv5, Clonesrv4, Snapshots5, Collector5, FlushTtl5,
      Clonecli5, Clonecli4, Clonecli2, StateManager, Takes

LEMMA StutterKept ==
  ASSUME CloneTypes, AgentTypes, Stores, UNCHANGED allVars
  PROVE  Kept
  <1>1. Stores' 
    BY StillKeeps DEF Still, allVars, vars, cloneVars, netVars
  <1>2. CloneTypes'
    BY DEF CloneTypes, allVars, vars, clientVars, cloneVars, storeVars, netVars, sockVars
  <1>3. AgentTypes'
    BY DEF AgentTypes, allVars, vars, cloneVars, netVars, agentVars, sockVars, news, Up
  <1> QED
    BY <1>1, <1>2, <1>3 DEF Kept

\* Every step of every program keeps the invariant.
LEMMA StoreNext == StoreInv /\ [Next]_allVars => StoreInv'
  <1> SUFFICES ASSUME StoreInv, [Next]_allVars PROVE StoreInv'
    OBVIOUS
  <1>0. IInv /\ PairTypes /\ OneNews /\ CloneTypes /\ AgentTypes /\ OthersOK /\ Stores
    BY DEF StoreInv, IInv
  <1>1. IInv'
    BY <1>0, NextKeeps
  <1>2. OneNews' /\ kind' = kind
    BY <1>0, NewsStaysOne
  <1> SUFFICES Kept /\ OthersOK'
    BY <1>1, <1>2 DEF Kept, StoreInv
  <1>3. CASE PairNext /\ UNCHANGED cloneVars
    BY <1>0, <1>3, PairAlone DEF Kept
  <1>4. CASE kind \in {"clone", "reader"} /\ (Set \/ AgentStep \/ \E s \in Servers : ServerStep(s))
    <2>1. kind \notin Pairs /\ kind \notin Singles
      BY <1>4 DEF Pairs, Singles
    <2>2. OthersOK'
      BY <1>0, <1>2, <2>1, OthersStay
    <2>3. Kept
      BY <1>0, <1>4, SetKept, AgentKept, ServerKept
    <2> QED
      BY <2>2, <2>3
  <1>5. CASE kind \in Singles /\ (Clonesrv5 \/ Clonecli5 \/ Distribute \/ StateManager)
    BY <1>0, <1>2, <1>5, SingleState, SingleStays, SingleKept, OthersStay
  <1>6. ASSUME NEW s \in Servers, AgentJoins(s) PROVE Kept /\ OthersOK'
    <2>1. Kept
      BY <1>0, <1>6, JoinKeeps, JoinTypes DEF Kept
    <2>2. kind \in Singles /\ UNCHANGED <<state, mapped>>
      BY <1>6 DEF AgentJoins, vars, storeVars
    <2> QED
      BY <1>0, <1>2, <2>1, <2>2, SingleState, OthersStay
  <1>7. CASE UNCHANGED allVars
    <2>1. OthersOK'
      BY <1>0, <1>7 DEF OthersOK, First, allVars, vars, cloneVars, storeVars, netVars, sockVars
    <2> QED
      BY <1>0, <1>7, <2>1, StutterKept
  <1> QED
    BY <1>3, <1>4, <1>5, <1>6, <1>7 DEF Next, Singles, Clonecli5, Clonecli4

LEMMA StoreInit == CloneInit => StoreInv
  <1> SUFFICES ASSUME CloneInit PROVE StoreInv
    OBVIOUS
  <1>1. IInv
    BY PairInit
  <1>2. OneNews
    BY DEF OneNews, CloneInit, Init
  <1>3. Empty \in Maps /\ <<>> \in Seq(Updates) /\ <<>> \in Seq(Pendings)
        /\ <<>> \in Seq(Messages) /\ <<>> \in Seq(Shots)
    BY EmptyFacts
  <1>4. CloneTypes
    <2>1. RestTypes
      BY PeerFacts, BinaryStarAssumption DEF RestTypes, CloneInit, Init
    <2>2. StoreTypes
      BY <1>3, PeerFacts DEF StoreTypes, CloneInit, ToServers
    <2>3. NetTypes
      BY <1>3, CloneAssumption DEF NetTypes, CloneInit, ToServers
    <2> QED
      BY <2>1, <2>2, <2>3, TypeParts
  <1>5. AgentTypes
    <2>1. JoinedUp
      BY PeerFacts DEF JoinedUp, CloneInit, Init, First, Singles, Up
    <2>2. NewsTypes
      BY <1>3 DEF NewsTypes, CloneInit, ToServers
    <2>3. AgentParts /\ replies \in [Servers -> Seq(Shots)]
      BY <1>3, PeerFacts DEF AgentParts, CloneInit, ToServers
    <2> QED
      BY <2>1, <2>2, <2>3, AgentSplit
  <1>6. Bare
    BY DEF Bare, CloneInit, Init, ToServers
  <1>7. Stores
    BY <1>4, <1>6, BareStores
  <1>8. OthersOK
    BY <1>6 DEF OthersOK, Bare, CloneInit, Init, Pairs, Singles
  <1> QED
    BY <1>1, <1>2, <1>4, <1>5, <1>7, <1>8 DEF StoreInv

\* A snapshot is on its way at most once.
LEMMA OneSnapshot ==
  ASSUME CloneTypes, NEW s \in Servers, SnapOK(s)
  PROVE  IsFiniteSet(snap[s]) /\ Cardinality(snap[s]) + Cardinality(asks[Peer(s)] \cap {"peer"}) <= 1
  <1>1. PICK shots, wanted : shots = snap[s] /\ wanted = asks[Peer(s)] \cap {"peer"}
    OBVIOUS
  <1>2. (shots = {} /\ wanted = {}) \/ (shots = {} /\ wanted = {"peer"})
        \/ (wanted = {} /\ \E x : shots = {x})
    BY <1>1 DEF SnapOK
  <1>3. IsFiniteSet({}) /\ Cardinality({}) = 0
    BY FS_EmptySet
  <1>4. IsFiniteSet(shots) /\ Cardinality(shots) + Cardinality(wanted) <= 1
    <2>1. CASE shots = {} /\ wanted = {}
      BY <1>3, <2>1
    <2>2. CASE shots = {} /\ wanted = {"peer"}
      <3>1. Cardinality({"peer"}) = 1
        BY FS_Singleton
      <3>2. Cardinality(shots) = 0 /\ Cardinality(wanted) = 1 /\ IsFiniteSet(shots)
        BY <1>3, <2>2, <3>1, Zenon
      <3> QED
        BY <3>2
    <2>3. ASSUME NEW x, shots = {x}, wanted = {}
          PROVE  IsFiniteSet(shots) /\ Cardinality(shots) + Cardinality(wanted) <= 1
      <3>1. IsFiniteSet({x}) /\ Cardinality({x}) = 1
        BY FS_Singleton
      <3>2. Cardinality(shots) = 1 /\ Cardinality(wanted) = 0 /\ IsFiniteSet(shots)
        BY <1>3, <2>3, <3>1, Zenon
      <3> QED
        BY <3>2
    <2> QED
      BY <1>2, <2>1, <2>2, <2>3
  <1> QED
    BY <1>1, <1>4

\* The types of every variable, with the bounds that the lists and lives respect.
LEMMA StoreInvTyped == StoreInv => TypeOK
  <1> SUFFICES ASSUME StoreInv PROVE TypeOK
    OBVIOUS
  <1>0. PairTypes /\ CloneTypes /\ AgentTypes /\ Stores
    BY DEF StoreInv, IInv
  <1>1. /\ kind \in Kinds /\ state \in [Servers -> States \cup {"down"}]
        /\ inbox \in [Servers -> SUBSET States] /\ expired \in [Servers -> BOOLEAN]
        /\ cur \in Servers /\ asked \subseteq Servers /\ answered \in BOOLEAN /\ late \in 0 .. MaxLate
    BY <1>0 DEF PairTypes, CloneTypes
  <1>2. life \in [Servers -> 1 .. MaxRestarts + 1]
    <2>1. life \in [Servers -> Nat \ {0}] /\ life["p"] + life["b"] <= 2 + MaxRestarts
      BY <1>0 DEF CloneTypes
    <2>2. life["p"] \in Nat \ {0} /\ life["b"] \in Nat \ {0}
      BY <2>1, PeerFacts
    <2>3. life["p"] \in 1 .. MaxRestarts + 1 /\ life["b"] \in 1 .. MaxRestarts + 1
      BY <2>1, <2>2, BinaryStarAssumption
    <2> QED
      BY <2>1, <2>3, PeerFacts
  <1>3. \A s \in stuck : state[s] = "PASSIVE" /\ s \in mapped
    BY <1>0 DEF CloneTypes, Stores, OwnOK, StuckOK
  <1>4. /\ sets \in 0 .. MaxUpdates /\ mapped \subseteq Servers
        /\ collector \in [Servers -> Seq(Updates)] /\ sequence \in [Servers -> Nat]
        /\ kvmap \in [Servers -> Maps] /\ akvmap \in Maps /\ asequence \in Nat
    BY <1>0 DEF CloneTypes, AgentTypes
  <1>5. ASSUME NEW s \in Servers
        PROVE  /\ pending[s] \in Seq([u : Updates, del : BOOLEAN])
               /\ feed[s] \in Seq(Messages) /\ afeed[s] \in Seq(Messages)
               /\ asks[s] \subseteq Askers /\ replies[s] \in Seq(Shots)
               /\ snap[s] \subseteq Shots /\ requests[s] \in 0 .. 2
    BY <1>0 DEF CloneTypes, AgentTypes, Pendings
  <1>6. ASSUME NEW s \in Servers
        PROVE  IsFiniteSet(snap[s]) /\ Cardinality(snap[s]) + Cardinality(asks[Peer(s)] \cap {"peer"}) <= 1
    BY <1>0, OneSnapshot DEF Stores
  <1>7. sets \in Nat /\ Updates = 1 .. MaxUpdates /\ MaxUpdates \in Nat
    BY <1>4, CloneAssumption DEF Updates
  <1>8. ASSUME NEW X, X \subseteq Updates, \A u \in X : u <= sets PROVE X \subseteq 1 .. sets
    BY <1>7, <1>8
  <1>9. ASSUME NEW s \in Servers PROVE Held(kvmap[s]) \subseteq 1 .. sets /\ got[s] \subseteq 1 .. sets
    <2>1. SentOK(s) /\ got[s] \subseteq Updates
      BY <1>0 DEF Stores, OwnOK, CloneTypes
    <2>2. Held(kvmap[s]) \subseteq Updates /\ \A u \in Held(kvmap[s]) : u <= sets
      BY <2>1 DEF SentOK, Held
    <2>3. \A u \in got[s] : u <= sets
      BY <2>1 DEF SentOK
    <2> QED
      BY <1>8, <2>1, <2>2, <2>3
  <1>10. mode \in {"INITIAL", "SYNCING", "ACTIVE"} /\ at \in Servers /\ \A s \in joined : Up(s)
    BY <1>0 DEF AgentTypes
  <1>11. missed \in [Servers -> SUBSET (1 .. sets)]
    <2>1. missed \in [Servers -> SUBSET Updates] /\ \A s \in Servers : \A u \in missed[s] : u <= sets
      BY <1>0 DEF AgentTypes
    <2>2. \A s \in Servers : missed[s] \subseteq 1 .. sets
      BY <1>8, <2>1
    <2> QED
      BY <2>1, <2>2
  <1> QED
    BY <1>1, <1>2, <1>3, <1>4, <1>5, <1>6, <1>9, <1>10, <1>11 DEF TypeOK

\* A server without a map of its own has everything pending, one with a map stored or pending.
LEMMA StoreInvKeeps == StoreInv => NothingLost
  <1> SUFFICES ASSUME StoreInv, NEW s \in Servers \ (skewed \cup stuck), NEW u \in got[s]
               PROVE  kvmap[s][u] # "none" \/ \E p \in ToSet(pending[s]) : p.u = u
    BY DEF NothingLost
  <1>1. OwnOK(s)
    BY DEF StoreInv, Stores
  <1>2. kvmap[s][u] # "none" \/ u \in About(pending[s])
    <2>1. CASE Blank(s)
      BY <1>1, <2>1 DEF OwnOK, BlankOK
    <2>2. CASE ~Blank(s)
      BY <1>1, <2>2 DEF OwnOK, MapOK
    <2> QED
      BY <2>1, <2>2
  <1> QED
    BY <1>2 DEF About

\* clonesrv6.c:26-40 and clonesrv6.c:310, "we apply our pending list so that our kvmap is
\* up-to-date": the types hold, and whatever a server has collected is in its map, was
\* deleted there or is pending, in every order in which the copies of the writer, the feed
\* of the peer, its snapshots, the failovers and the crashes can come.
THEOREM NothingCollectedIsLost == Spec => []StoresConsistent
  <1>1. StoreInv => StoresConsistent
    BY StoreInvTyped, StoreInvKeeps DEF StoresConsistent
  <1> QED
    BY StoreInit, StoreNext, <1>1, PTL DEF Spec

-----------------------------------------------------------------------------
(* A passive server follows                                                *)

\* What a list of messages is yet to make of a map with a number: every value of H is in
\* the map if no message about it is to come, and is not deleted by the last that is.
Owed(u, n, ms) == {i \in 1 .. Len(ms) : ms[i].u = u /\ ms[i].n > n}

Covers(H, map, n, ms) ==
  \A u \in H :
    /\ Owed(u, n, ms) = {} => map[u] = "held"
    /\ \A i \in Owed(u, n, ms) : (\A j \in Owed(u, n, ms) : j <= i) => ~ms[i].del

\* Where the updates are that the peer of a server published in an earlier life.
Old(s) == {i \in 1 .. Len(feed[s]) : feed[s][i].u # 0 /\ feed[s][i].life < life[Peer(s)]}

\* An update of before everything that a server has collected in this life, or is to.
Before(v, q) ==
  /\ \A u \in got[q] : v < u
  /\ \A j \in 1 .. Len(collector[q]) : v < collector[q][j]

\* A server that knows of updates from the collector alone.
NoNews(q) == \A i \in 1 .. Len(feed[q]) : feed[q][i].u = 0

OwnOnly(q) ==
  /\ snap[q] = {} /\ NoNews(q) /\ About(pending[q]) \subseteq got[q]
  /\ \A u \in Updates : kvmap[q][u] # "none" => u \in got[q]

\* What the peer published in an earlier life is older than all it collects now, and
\* nobody has told it of that since.
OldOK(s) ==
  \A i \in Old(s) :
    /\ Before(feed[s][i].u, Peer(s))
    /\ state[s] # "ACTIVE" /\ s \notin skewed => OwnOnly(Peer(s))

\* Only a server with a map loses count.
SkewedOK(s) == s \in skewed => ~Blank(s)

\* A map of the life that the peer is in.
Follows(s, map, n, L) ==
  L = life[Peer(s)] /\ Up(Peer(s)) =>
    state[Peer(s)] = "ACTIVE" /\ Covers(Held(kvmap[Peer(s)]), map, n, feed[s])

FollowOK(s) ==
  state[s] = "PASSIVE" =>
    /\ \A shot \in snap[s] : Follows(s, shot.kv, shot.n, shot.life)
    /\ ~Blank(s) /\ s \notin skewed => Follows(s, kvmap[s], sequence[s], from[s])

Following == \A s \in Servers : SkewedOK(s) /\ OldOK(s) /\ FollowOK(s)

FollowInv == kind \in {"clone", "reader"} => Following

-----------------------------------------------------------------------------
(* What messages make of a map                                             *)

\* A map of now, when nothing that is to come is newer.
LEMMA CoversNow ==
  ASSUME NEW H \in SUBSET Updates, NEW map, NEW n \in Nat, NEW ms \in Seq(Messages),
         \A u \in H : map[u] = "held" /\ Owed(u, n, ms) = {}
  PROVE  Covers(H, map, n, ms)
  BY DEF Covers

\* A newer message goes out.
LEMMA CoversSend ==
  ASSUME NEW H \in SUBSET Updates, NEW new \in SUBSET Updates, NEW map, NEW n \in Nat,
         NEW ms \in Seq(Messages), NEW m \in Messages, Covers(H, map, n, ms), m.n > n,
         \A u \in new : IF u = m.u THEN ~m.del ELSE u \in H
  PROVE  Covers(new, map, n, ms \o <<m>>)
  <1> PICK k \in Nat : k = Len(ms)
    OBVIOUS
  <1>0. PICK r : r = ms \o <<m>>
    OBVIOUS
  <1>1. /\ Len(r) = k + 1 /\ r[k + 1] = m
        /\ \A i \in 1 .. k : r[i] = ms[i]
    <2>1. <<m>> \in Seq(Messages) /\ Len(<<m>>) = 1 /\ <<m>>[1] = m
      OBVIOUS
    <2>2. 1 \in 1 .. 1
      OBVIOUS
    <2> QED
      BY <1>0, <2>1, <2>2, Joined
  <1>2. ASSUME NEW u \in new, u = m.u
        PROVE  /\ Owed(u, n, r) # {}
               /\ \A i \in Owed(u, n, r) : (\A j \in Owed(u, n, r) : j <= i) => ~r[i].del
    <2>1. k + 1 \in Owed(u, n, r) /\ Owed(u, n, r) \subseteq 1 .. k + 1
      BY <1>1, <1>2 DEF Owed
    <2>2. ASSUME NEW i \in Owed(u, n, r), \A j \in Owed(u, n, r) : j <= i PROVE i = k + 1
      BY <2>1, <2>2
    <2> QED
      BY <1>1, <1>2, <2>1, <2>2
  <1>3. ASSUME NEW u \in new, u # m.u
        PROVE  /\ Owed(u, n, r) = Owed(u, n, ms)
               /\ \A i \in Owed(u, n, ms) : r[i] = ms[i]
    BY <1>1, <1>3 DEF Owed
  <1>4. ASSUME NEW u \in new
        PROVE  /\ Owed(u, n, r) = {} => map[u] = "held"
               /\ \A i \in Owed(u, n, r) : (\A j \in Owed(u, n, r) : j <= i) => ~r[i].del
    <2>1. CASE u = m.u
      BY <1>2, <2>1
    <2>2. CASE u # m.u
      <3>1. u \in H
        BY <2>2
      <3> QED
        BY <1>3, <2>2, <3>1 DEF Covers
    <2> QED
      BY <2>1, <2>2
  <1> QED
    BY <1>0, <1>4 DEF Covers

\* A message with no update makes no difference.
LEMMA CoversHugz ==
  ASSUME NEW H \in SUBSET Updates, NEW map, NEW n \in Nat, NEW m, m.u = 0, 0 \notin Updates,
         Covers(H, map, n, <<>>)
  PROVE  Covers(H, map, n, <<m>>)
  <1>1. ASSUME NEW u \in H PROVE Owed(u, n, <<m>>) = {} /\ Owed(u, n, <<>>) = {}
    BY <1>1 DEF Owed
  <1> QED
    BY <1>1 DEF Covers

\* The next message is taken, and stored if it is newer.
LEMMA CoversTake ==
  ASSUME NEW H \in SUBSET Updates, NEW map \in Maps, NEW n \in Nat,
         NEW ms \in Seq(Messages), ms # <<>>, 0 \notin Updates,
         NEW m, m = Head(ms), NEW fresh, fresh = (m.u # 0 /\ m.n > n), Covers(H, map, n, ms),
         fresh => \A u \in H, i \in 2 .. Len(ms) : ms[i].u = u => ms[i].n > m.n
  PROVE  Covers(H, IF fresh THEN Store(map, m) ELSE map, IF fresh THEN m.n ELSE n, Tail(ms))
  <1> PICK k \in Nat : k = Len(ms)
    OBVIOUS
  <1>0. PICK r : r = Tail(ms)
    OBVIOUS
  <1>1. /\ k >= 1 /\ Len(r) = k - 1 /\ ms[1] = m
        /\ \A i \in 1 .. k - 1 : r[i] = ms[i + 1]
    BY <1>0
  <1>2. \A i \in 1 .. k : ms[i].n \in Nat
    <2>1. \A i \in 1 .. k : ms[i] \in Messages
      OBVIOUS
    <2> QED
      BY <2>1 DEF Messages
  <1>3. PICK to : to = IF fresh THEN m.n ELSE n
    OBVIOUS
  <1>4. ASSUME NEW u \in H, ~fresh \/ u # m.u
        PROVE  Owed(u, n, ms) = {i + 1 : i \in Owed(u, to, r)}
    <2>1. u \in Updates /\ u # 0
      OBVIOUS
    <2>2. 1 \notin Owed(u, n, ms)
      BY <1>1, <1>4, <2>1 DEF Owed
    <2>3. ASSUME NEW i \in 1 .. k - 1 PROVE i + 1 \in Owed(u, n, ms) <=> i \in Owed(u, to, r)
      <3>1. i + 1 \in 2 .. k /\ i + 1 \in 1 .. k /\ r[i] = ms[i + 1]
        BY <1>1
      <3>2. i + 1 \in Owed(u, n, ms) <=> ms[i + 1].u = u /\ ms[i + 1].n > n
        BY <3>1 DEF Owed
      <3>3. i \in Owed(u, to, r) <=> ms[i + 1].u = u /\ ms[i + 1].n > to
        BY <1>1, <3>1 DEF Owed
      <3>4. CASE fresh
        <4>1. ms[i + 1].u = u => ms[i + 1].n > m.n
          BY <3>1, <3>4
        <4>5. 1 \in 1 .. k
          BY <1>1
        <4>2. m.n \in Nat /\ m.n > n /\ ms[i + 1].n \in Nat
          BY <1>1, <1>2, <3>1, <3>4, <4>5
        <4>3. ms[i + 1].u = u => ms[i + 1].n > n
          BY <4>1, <4>2
        <4> QED
          BY <1>3, <3>2, <3>3, <3>4, <4>1, <4>3
      <3> QED
        BY <1>3, <3>2, <3>3, <3>4
    <2>4. ASSUME NEW i \in Owed(u, n, ms) PROVE \E j \in Owed(u, to, r) : i = j + 1
      <3>1. i \in 1 .. k /\ i # 1
        BY <2>2 DEF Owed
      <3>2. i - 1 \in 1 .. k - 1 /\ i = (i - 1) + 1
        BY <3>1
      <3> QED
        BY <2>3, <3>2
    <2>5. ASSUME NEW j \in Owed(u, to, r) PROVE j + 1 \in Owed(u, n, ms)
      <3>1. j \in 1 .. k - 1
        BY <1>1 DEF Owed
      <3> QED
        BY <2>3, <3>1
    <2> QED
      BY <2>4, <2>5
  <1>5. ASSUME NEW u \in H, fresh, u = m.u
        PROVE  Owed(u, n, ms) = {1} \cup {i + 1 : i \in Owed(u, to, r)}
    <2>0. 1 \in 1 .. k
      BY <1>1
    <2>1. 1 \in Owed(u, n, ms)
      BY <1>1, <1>5, <2>0 DEF Owed
    <2>2. ASSUME NEW i \in 1 .. k - 1 PROVE i + 1 \in Owed(u, n, ms) <=> i \in Owed(u, to, r)
      <3>1. i + 1 \in 2 .. k /\ i + 1 \in 1 .. k /\ r[i] = ms[i + 1]
        BY <1>1
      <3>2. i + 1 \in Owed(u, n, ms) <=> ms[i + 1].u = u /\ ms[i + 1].n > n
        BY <3>1 DEF Owed
      <3>3. i \in Owed(u, to, r) <=> ms[i + 1].u = u /\ ms[i + 1].n > to
        BY <1>1, <3>1 DEF Owed
      <3>4. ms[i + 1].u = u => ms[i + 1].n > m.n
        BY <1>5, <3>1
      <3>5. m.n \in Nat /\ m.n > n /\ ms[i + 1].n \in Nat
        BY <1>1, <1>2, <1>5, <2>0, <3>1
      <3>6. ms[i + 1].u = u => ms[i + 1].n > n
        BY <3>4, <3>5
      <3> QED
        BY <1>3, <1>5, <3>2, <3>3, <3>4, <3>6
    <2>3. ASSUME NEW i \in Owed(u, n, ms), i # 1 PROVE \E j \in Owed(u, to, r) : i = j + 1
      <3>1. i \in 1 .. k
        BY DEF Owed
      <3>2. i - 1 \in 1 .. k - 1 /\ i = (i - 1) + 1
        BY <2>3, <3>1
      <3> QED
        BY <2>2, <3>2
    <2>4. ASSUME NEW j \in Owed(u, to, r) PROVE j + 1 \in Owed(u, n, ms)
      <3>1. j \in 1 .. k - 1
        BY <1>1 DEF Owed
      <3> QED
        BY <2>2, <3>1
    <2> QED
      BY <2>1, <2>3, <2>4
  <1>6. ASSUME NEW u \in H
        PROVE  Owed(u, to, r) \subseteq Nat /\ \A i \in Owed(u, to, r) : r[i] = ms[i + 1]
    BY <1>1 DEF Owed
  <1>7. ASSUME NEW u \in H, NEW i \in Owed(u, to, r), \A j \in Owed(u, to, r) : j <= i
        PROVE  ~r[i].del
    <2>1. i + 1 \in Owed(u, n, ms)
      BY <1>4, <1>5
    <2>2. \A j \in Owed(u, n, ms) : j <= i + 1
      <3>1. ASSUME NEW j \in Owed(u, to, r) PROVE j + 1 <= i + 1
        BY <1>6, <1>7
      <3>2. 1 <= i + 1
        BY <1>6
      <3> QED
        BY <1>4, <1>5, <3>1, <3>2
    <2> QED
      BY <1>6, <2>1, <2>2 DEF Covers
  <1>8. ASSUME NEW u \in H, Owed(u, to, r) = {}
        PROVE  (IF fresh THEN Store(map, m) ELSE map)[u] = "held"
    <2>1. CASE fresh /\ u = m.u
      <3>1. Owed(u, n, ms) = {1}
        BY <1>5, <1>8, <2>1
      <3>2. ~ms[1].del
        BY <3>1 DEF Covers
      <3> QED
        BY <1>1, <2>1, <3>2 DEF Store, Maps
    <2>2. CASE ~fresh \/ u # m.u
      <3>1. Owed(u, n, ms) = {}
        BY <1>4, <1>8, <2>2
      <3>2. map[u] = "held"
        BY <3>1 DEF Covers
      <3> QED
        BY <2>2, <3>2 DEF Store, Maps
    <2> QED
      BY <2>1, <2>2
  <1> QED
    BY <1>0, <1>3, <1>7, <1>8 DEF Covers

NatBelow == OpToRel(<, Nat)

\* Of a set of numbers up to a bound one is the greatest.
LEMMA GreatestIsMember ==
  ASSUME NEW k \in Nat, NEW F, F \subseteq 1 .. k, F # {}
  PROVE  \E i \in F : \A j \in F : j <= i
  <1> DEFINE up == {b \in Nat : \A j \in F : j <= b}
  <1>1. k \in up
    OBVIOUS
  <1>2. PICK b \in up : \A c \in up : ~ (<<c, b>> \in NatBelow)
    <2>1. IsWellFoundedOn(NatBelow, Nat)
      BY NatLessThanWellFounded DEF NatBelow
    <2>2. up \subseteq Nat /\ up # {}
      BY <1>1
    <2> QED
      BY <2>1, <2>2, WFMin
  <1>3. b \in Nat /\ (\A j \in F : j <= b) /\ \A c \in up : c >= b
    <2>1. \A c, d \in Nat : c < d => <<c, d>> \in NatBelow
      BY DEF NatBelow, OpToRel
    <2>2. b \in Nat /\ \A j \in F : j <= b
      OBVIOUS
    <2>3. \A c \in up : c \in Nat /\ ~(c < b)
      BY <1>2, <2>1, <2>2
    <2> HIDE DEF up
    <2> QED
      BY <2>2, <2>3
  <1>4. b \in F
    <2> SUFFICES ASSUME b \notin F PROVE FALSE
      OBVIOUS
    <2>1. b # 0
      <3>1. PICK j \in F : j \in 1 .. k
        OBVIOUS
      <3> QED
        BY <1>3, <3>1
    <2>2. b - 1 \in Nat /\ \A j \in F : j <= b - 1
      BY <1>3, <2>1
    <2>3. b - 1 \in up
      BY <2>2
    <2> QED
      BY <1>3, <2>1, <2>3
  <1> QED
    BY <1>3, <1>4

\* The messages bring every value that is not in the map.
LEMMA CoversAfter ==
  ASSUME NEW H \in SUBSET Updates, NEW map \in Maps, NEW n \in Nat,
         NEW ms \in Seq(Messages), Covers(H, map, n, ms)
  PROVE  H \subseteq Held(After(map, n, ms))
  <1> PICK k \in Nat : k = Len(ms)
    OBVIOUS
  <1>1. DOMAIN ms = 1 .. k
    OBVIOUS
  <1>2. ASSUME NEW u \in H PROVE After(map, n, ms)[u] = "held"
    <2>0. u \in Updates
      OBVIOUS
    <2>1. PICK F : F = Owed(u, n, ms)
      OBVIOUS
    <2>2. {i \in {i \in DOMAIN ms : ms[i].n > n} : ms[i].u = u} = F /\ F \subseteq 1 .. k
      BY <1>1, <2>1 DEF Owed
    <2>3. After(map, n, ms)[u] =
            IF F = {} THEN map[u] ELSE IF ms[Max(F)].del THEN "gone" ELSE "held"
      BY <2>0, <2>2 DEF After, Apply
    <2>4. CASE F = {}
      BY <2>1, <2>3, <2>4 DEF Covers
    <2>5. CASE F # {}
      <3>1. PICK i \in F : \A j \in F : j <= i
        BY <2>2, <2>5, GreatestIsMember
      <3>2. Max(F) \in F /\ \A j \in F : Max(F) >= j
        BY <3>1, <2>2 DEF Max
      <3>3. Max(F) = i
        BY <2>2, <3>1, <3>2
      <3>4. ~ms[i].del
        BY <2>1, <3>1 DEF Covers
      <3> QED
        BY <2>3, <2>5, <3>3, <3>4
    <2> QED
      BY <2>4, <2>5
  <1> QED
    BY <1>2 DEF Held

-----------------------------------------------------------------------------
(* What a step of one server leaves of it                                  *)

\* A value that the peer holds is not spoken of by messages of its earlier lives.
NewsOfNow(s) ==
  state[s] # "ACTIVE" /\ s \notin skewed =>
    \A i \in 1 .. Len(feed[s]) :
      feed[s][i].u \in Held(kvmap[Peer(s)]) => feed[s][i].life = life[Peer(s)]

NoOldNews == \A s \in Servers : CloneTypes /\ FeedOK(s) /\ OldOK(s) => NewsOfNow(s)

LEMMA OldIsGone == NoOldNews
  <1> SUFFICES ASSUME CloneTypes, NEW s \in Servers, FeedOK(s), OldOK(s), state[s] # "ACTIVE",
                      s \notin skewed, NEW u \in Held(kvmap[Peer(s)]),
                      NEW i \in 1 .. Len(feed[s]), feed[s][i].u = u
               PROVE  feed[s][i].life = life[Peer(s)]
    BY DEF NewsOfNow, NoOldNews
  <1>1. u \in Updates /\ kvmap[Peer(s)][u] # "none"
    BY DEF Held
  <1>2. u \in Nat /\ u # 0
    BY <1>1, CloneAssumption DEF Updates
  <1>3. i \notin Old(s)
    <2> SUFFICES ASSUME i \in Old(s) PROVE FALSE
      OBVIOUS
    <2>1. Before(u, Peer(s)) /\ OwnOnly(Peer(s))
      BY DEF OldOK
    <2>2. u \in got[Peer(s)]
      BY <1>1, <2>1 DEF OwnOnly
    <2>3. u < u
      BY <2>1, <2>2 DEF Before
    <2> QED
      BY <1>2, <2>3
  <1>4. feed[s][i].life <= life[Peer(s)] /\ ~(feed[s][i].life < life[Peer(s)])
    BY <1>2, <1>3 DEF FeedOK, Old
  <1>5. feed[s][i].life \in Nat /\ life[Peer(s)] \in Nat
    BY FeedTyped DEF MessageFields
  <1> QED
    BY <1>4, <1>5

\* What the peer makes follow its own maps.
Led(r) ==
  \A map \in Maps, n \in Nat, L \in Nat :
    Includes(r, map, n, L) /\ Follows(r, map, n, L) => Follows(r, map, n, L)'

LEMMA PeerFollows ==
  ASSUME CloneTypes, NEW r \in Servers, Same(r), Led(r), snap'[r] = snap[r],
         SnapOK(r), MapOK(r), FollowOK(r)
  PROVE  FollowOK(r)'
  <1> SUFFICES ASSUME state'[r] = "PASSIVE"
               PROVE  /\ \A shot \in snap'[r] : Follows(r, shot.kv, shot.n, shot.life)'
                      /\ ~Blank(r)' /\ r \notin skewed' => Follows(r, kvmap[r], sequence[r], from[r])'
    BY DEF FollowOK
  <1>1. state[r] = "PASSIVE"
    BY DEF Same
  <1>2. ASSUME NEW shot \in snap'[r] PROVE Follows(r, shot.kv, shot.n, shot.life)'
    <2>0. shot \in snap[r] /\ shot \in Shots
      BY DEF CloneTypes
    <2>1. shot \in snap[r] /\ shot.kv \in Maps /\ shot.n \in Nat /\ shot.life \in Nat
      BY <2>0 DEF Shots
    <2>2. Includes(r, shot.kv, shot.n, shot.life) /\ Follows(r, shot.kv, shot.n, shot.life)
      BY <1>1, <2>1 DEF SnapOK, FollowOK
    <2> QED
      BY <2>1, <2>2 DEF Led
  <1>3. ASSUME ~Blank(r)', r \notin skewed' PROVE Follows(r, kvmap[r], sequence[r], from[r])'
    <2>1. ~Blank(r) /\ r \notin skewed
      BY <1>3 DEF Blank, Same
    <2>2. PICK map, n, L : map = kvmap[r] /\ n = sequence[r] /\ L = from[r]
      OBVIOUS
    <2>3. map \in Maps /\ n \in Nat /\ L \in Nat
      BY <2>2 DEF CloneTypes
    <2>4. Includes(r, map, n, L) /\ Follows(r, map, n, L)
      BY <1>1, <2>1, <2>2 DEF MapOK, FollowOK
    <2>5. Follows(r, map, n, L)'
      BY <2>3, <2>4 DEF Led
    <2>6. map = kvmap'[r] /\ n = sequence'[r] /\ L = from'[r]
      BY <2>2 DEF Same
    <2> QED
      BY <2>5, <2>6 DEF Follows
  <1> QED
    BY <1>2, <1>3

\* A server that ends, begins or is not active has no map of this life at its peer.
LEMMA NotLed ==
  ASSUME CloneTypes, CloneTypes', NEW s \in Servers, NEW r, r = Peer(s),
         \/ ~Up(s)' \/ life'[s] > life[s]
         \/ state[s] # "ACTIVE" /\ life'[s] = life[s] /\ (Up(s)' => Up(s))
  PROVE  Led(r)
  <1>1. Peer(r) = s /\ life[s] \in Nat /\ life'[s] \in Nat
    BY PeerPeer DEF CloneTypes
  <1> QED
    BY <1>1 DEF Led, Follows, Includes

LEMMA LedStill ==
  ASSUME CloneTypes, CloneTypes', NEW s \in Servers, NEW r, r = Peer(s),
         state'[s] = state[s], life'[s] = life[s], kvmap'[s] = kvmap[s],
         \/ feed'[r] = feed[r]
         \/ \E m \in Messages : feed[r] = <<>> /\ feed'[r] = <<m>> /\ m.u = 0
  PROVE  Led(r)
  <1>1. Peer(r) = s
    BY PeerPeer
  <1> SUFFICES ASSUME NEW map \in Maps, NEW n \in Nat, NEW L \in Nat,
                      Follows(r, map, n, L), L = life'[s], Up(s)'
               PROVE  state'[s] = "ACTIVE" /\ Covers(Held(kvmap'[s]), map, n, feed'[r])
    BY <1>1 DEF Led, Follows
  <1>2. state[s] = "ACTIVE" /\ Covers(Held(kvmap[s]), map, n, feed[r])
    BY <1>1 DEF Follows, Up
  <1>3. CASE feed'[r] = feed[r]
    BY <1>2, <1>3
  <1>4. ASSUME NEW m \in Messages, feed[r] = <<>>, feed'[r] = <<m>>, m.u = 0
        PROVE  Covers(Held(kvmap'[s]), map, n, feed'[r])
    <2>1. Held(kvmap[s]) \subseteq Updates /\ 0 \notin Updates
      BY CloneAssumption, UpdatesAreNumbers DEF Held
    <2> QED
      BY <1>2, <1>4, <2>1, CoversHugz
  <1> QED
    BY <1>2, <1>3, <1>4

LEMMA LedByMessage ==
  ASSUME CloneTypes, CloneTypes', NEW s \in Servers, NEW r, r = Peer(s),
         state'[s] = state[s], life'[s] = life[s],
         NEW m \in Messages, m.n = sequence[s] + 1, m.u \in Updates,
         kvmap'[s] = Store(kvmap[s], m), feed'[r] = feed[r] \o <<m>>
  PROVE  Led(r)
  <1>1. Peer(r) = s /\ r \in Servers
    BY PeerPeer
  <1> SUFFICES ASSUME NEW map \in Maps, NEW n \in Nat, NEW L \in Nat, Includes(r, map, n, L),
                      Follows(r, map, n, L), L = life'[s], Up(s)'
               PROVE  state'[s] = "ACTIVE" /\ Covers(Held(kvmap'[s]), map, n, feed'[r])
    BY <1>1 DEF Led, Follows
  <1>2. state[s] = "ACTIVE" /\ Covers(Held(kvmap[s]), map, n, feed[r]) /\ Up(s)
    BY <1>1 DEF Follows, Up
  <1>3. m.n > n
    <2>1. n <= sequence[s] /\ sequence[s] \in Nat
      BY <1>1, <1>2 DEF Includes, CloneTypes
    <2> QED
      BY <2>1
  <1>4. feed[r] \in Seq(Messages) /\ kvmap[s] \in Maps /\ m.del \in BOOLEAN
    BY <1>1 DEF CloneTypes, Messages
  <1>5. PICK H, new : H = Held(kvmap[s]) /\ new = Held(kvmap'[s])
    OBVIOUS
  <1>6. H \in SUBSET Updates /\ new \in SUBSET Updates
    BY <1>5 DEF Held
  <1>7. \A u \in new : IF u = m.u THEN ~m.del ELSE u \in H
    BY <1>4, <1>5 DEF Held, Store, Maps
  <1>8. Covers(new, map, n, feed[r] \o <<m>>)
    BY <1>2, <1>3, <1>4, <1>5, <1>6, <1>7, CoversSend
  <1> QED
    BY <1>2, <1>5, <1>8

\* Nothing that is sent is old.
LEMMA OldOut ==
  ASSUME CloneTypes, CloneTypes', NEW s \in Servers, NEW r, r = Peer(s), FeedOut(s, r),
         life'[s] = life[s]
  PROVE  \A i \in Old(r)' : i \in Old(r) /\ feed'[r][i].u = feed[r][i].u
  <1>1. Peer(r) = s /\ r \in Servers /\ life[s] \in Nat
    BY PeerPeer DEF CloneTypes
  <1>2. feed[r] \in Seq(Messages)
    BY <1>1 DEF CloneTypes
  <1>3. CASE feed'[r] = feed[r]
    BY <1>1, <1>3 DEF Old
  <1>4. ASSUME NEW ms \in Seq(Messages), Publishes(s, ms), feed'[r] = feed[r] \o ms
        PROVE  \A i \in Old(r)' : i \in Old(r) /\ feed'[r][i].u = feed[r][i].u
    <2>1. PICK k \in Nat, l \in Nat : k = Len(feed[r]) /\ l = Len(ms)
      BY <1>2
    <2>2. PICK q : q = feed'[r]
      OBVIOUS
    <2>3. /\ Len(q) = k + l /\ \A i \in 1 .. k : q[i] = feed[r][i]
          /\ \A i \in 1 .. l : q[k + i] = ms[i]
          /\ \A i \in 1 .. k + l : i \notin 1 .. k => i - k \in 1 .. l
      BY <1>2, <1>4, <2>1, <2>2, Joined
    <2>4. \A i \in 1 .. l : ms[i].life = life[s]
      BY <1>4, <2>1 DEF Publishes
    <2>5. ASSUME NEW i \in 1 .. k + l, i \notin 1 .. k PROVE q[i].life = life[s]
      <3>1. i - k \in 1 .. l /\ k + (i - k) = i
        BY <2>3, <2>5
      <3>2. q[i] = ms[i - k]
        BY <2>3, <3>1
      <3> QED
        BY <2>4, <3>1, <3>2
    <2>6. ASSUME NEW i \in Old(r)' PROVE i \in Old(r) /\ feed'[r][i].u = feed[r][i].u
      <3>1. i \in 1 .. k + l /\ q[i].u # 0 /\ q[i].life < life[s]
        BY <1>1, <2>2, <2>3, <2>6 DEF Old
      <3>2. i \in 1 .. k
        BY <1>1, <2>5, <3>1
      <3> QED
        BY <1>1, <2>1, <2>2, <2>3, <3>1, <3>2 DEF Old
    <2> QED
      BY <2>6
  <1>5. ASSUME NEW m \in Messages, feed'[r] = <<m>>, m.u = 0 PROVE Old(r)' = {}
    BY <1>5 DEF Old
  <1> QED
    BY <1>3, <1>4, <1>5 DEF FeedOut

LEMMA OldOfPeer ==
  ASSUME CloneTypes, CloneTypes', NEW s \in Servers, NEW r, r = Peer(s), OldOK(r), Same(r),
         life'[s] = life[s], FeedOut(s, r),
         \A v \in Nat : Before(v, s) => Before(v, s)', OwnOnly(s) => OwnOnly(s)'
  PROVE  OldOK(r)'
  <1>1. Peer(r) = s /\ r \in Servers
    BY PeerPeer
  <1> SUFFICES ASSUME NEW i \in Old(r)'
               PROVE  /\ Before(feed[r][i].u, s)'
                      /\ state'[r] # "ACTIVE" /\ r \notin skewed' => OwnOnly(s)'
    BY <1>1 DEF OldOK
  <1>2. i \in Old(r) /\ feed'[r][i].u = feed[r][i].u
    BY OldOut
  <1>3. Before(feed[r][i].u, s) /\ (state[r] # "ACTIVE" /\ r \notin skewed => OwnOnly(s))
    BY <1>1, <1>2 DEF OldOK
  <1>4. feed[r][i].u \in Nat
    <2>1. MessageFields(feed[r][i])
      BY <1>1, <1>2, FeedTyped DEF Old
    <2> QED
      BY <2>1, CloneAssumption DEF MessageFields
  <1>5. PICK v \in Nat : v = feed[r][i].u /\ v = feed'[r][i].u
    BY <1>2, <1>4
  <1>6. Before(v, s)'
    BY <1>3, <1>5
  <1> QED
    BY <1>3, <1>5, <1>6 DEF Same, Before

\* What is left of the list of a server is what it was.
LEMMA OldIn ==
  ASSUME CloneTypes, CloneTypes', NEW s \in Servers, FeedIn(s), life'[Peer(s)] = life[Peer(s)],
         NEW i \in Old(s)'
  PROVE  \E j \in Old(s) : feed'[s][i] = feed[s][j]
  <1>1. feed[s] \in Seq(Messages)
    BY DEF CloneTypes
  <1>2. PICK k \in Nat : k = Len(feed[s])
    BY <1>1
  <1>3. CASE feed'[s] = feed[s]
    BY <1>3 DEF Old
  <1>4. CASE feed'[s] = <<>>
    BY <1>4 DEF Old
  <1>5. CASE feed[s] # <<>> /\ feed'[s] = Tail(feed[s])
    <2>1. PICK q : q = feed'[s]
      OBVIOUS
    <2>2. Len(q) = k - 1 /\ k >= 1 /\ \A l \in 1 .. k - 1 : q[l] = feed[s][l + 1]
      BY <1>1, <1>2, <1>5, <2>1
    <2>3. i \in 1 .. k - 1 /\ q[i].u # 0 /\ q[i].life < life[Peer(s)]
      BY <2>1, <2>2 DEF Old
    <2>4. i + 1 \in 1 .. k /\ q[i] = feed[s][i + 1]
      BY <2>2, <2>3
    <2>5. i + 1 \in Old(s)
      BY <1>2, <2>3, <2>4 DEF Old
    <2> QED
      BY <2>1, <2>4, <2>5
  <1> QED
    BY <1>3, <1>4, <1>5 DEF FeedIn

LEMMA OldOfOwn ==
  ASSUME CloneTypes, CloneTypes', NEW s \in Servers, NEW r, r = Peer(s), OldOK(s), FeedIn(s),
         Same(r), \A v \in Nat : Before(v, r) => Before(v, r)',
         \/ feed'[s] = <<>>
         \/ state'[s] # "ACTIVE" /\ s \notin skewed' =>
              state[s] # "ACTIVE" /\ s \notin skewed /\ (OwnOnly(r) => OwnOnly(r)')
  PROVE  OldOK(s)'
  <1> SUFFICES ASSUME NEW i \in Old(s)'
               PROVE  /\ Before(feed[s][i].u, r)'
                      /\ state'[s] # "ACTIVE" /\ s \notin skewed' => OwnOnly(r)'
    BY DEF OldOK
  <1>1. PICK j \in Old(s) : feed'[s][i] = feed[s][j]
    <2>1. life'[r] = life[r]
      BY DEF Same
    <2> QED
      BY <2>1, OldIn
  <1>2. Before(feed[s][j].u, r) /\ (state[s] # "ACTIVE" /\ s \notin skewed => OwnOnly(r))
    BY DEF OldOK
  <1>3. feed[s][j].u \in Nat
    <2>1. MessageFields(feed[s][j])
      BY FeedTyped DEF Old
    <2> QED
      BY <2>1, CloneAssumption DEF MessageFields
  <1>4. PICK v \in Nat : v = feed[s][j].u /\ v = feed'[s][i].u
    BY <1>1, <1>3
  <1>5. Before(v, r)'
    BY <1>2, <1>4
  <1>6. feed'[s] # <<>>
    BY DEF Old
  <1> QED
    BY <1>2, <1>4, <1>5, <1>6 DEF Before

\* The peer learns nothing.
LEMMA PeerOwn ==
  ASSUME NEW r \in Servers, Same(r), snap'[r] = snap[r], NoNews(r) => NoNews(r)', OwnOnly(r)
  PROVE  OwnOnly(r)'
  BY DEF OwnOnly, Same

\* The invariant of both from that of each.
LEMMA Both ==
  ASSUME CloneTypes, Following, NEW s \in Servers, NEW r, r = Peer(s), Same(r),
         SkewedOK(s)', OldOK(s)', FollowOK(s)', OldOK(r)', FollowOK(r)'
  PROVE  Following'
  <1>1. r \in Servers /\ \A q \in Servers : q = s \/ q = r
    BY PeerFacts
  <1>2. SkewedOK(r)'
    BY <1>1 DEF Following, SkewedOK, Same, Blank
  <1>3. ASSUME NEW q \in Servers PROVE (SkewedOK(q) /\ OldOK(q) /\ FollowOK(q))'
    <2>1. q = s \/ q = r
      BY <1>1
    <2> QED
      BY <1>2, <2>1
  <1> QED
    BY <1>3 DEF Following

\* A step of one server, from what it does to that server and to its peer's messages.
LEMMA StepFollows ==
  ASSUME CloneTypes, CloneTypes', Stores, Following, NEW s \in Servers, NEW r, r = Peer(s),
         Alone(s, r), life'[s] = life[s], SkewedOK(s)', FollowOK(s)',
         FollowOK(r)' \/ (Led(r) /\ snap'[r] = snap[r]),
         \A v \in Nat : Before(v, s) => Before(v, s)', OwnOnly(s) => OwnOnly(s)',
         \/ feed'[s] = <<>>
         \/ state'[s] # "ACTIVE" /\ s \notin skewed' =>
              /\ state[s] # "ACTIVE" /\ s \notin skewed
              /\ snap'[r] = snap[r] /\ (NoNews(r) => NoNews(r)')
  PROVE  Following'
  <1>0. r \in Servers
    BY PeerPeer
  <1>1. Same(r) /\ collector'[r] = collector[r] /\ FeedOut(s, r) /\ FeedIn(s)
    BY DEF Alone
  <1>2. OldOK(s) /\ OldOK(r) /\ FollowOK(r) /\ SnapOK(r) /\ MapOK(r)
    BY <1>0 DEF Following, Stores, OwnOK
  <1>3. FollowOK(r)'
    BY <1>0, <1>1, <1>2, PeerFollows
  <1>4. OldOK(r)'
    BY <1>1, <1>2, OldOfPeer
  <1>5. \A v \in Nat : Before(v, r) => Before(v, r)'
    BY <1>1 DEF Before, Same
  <1>6. snap'[r] = snap[r] /\ (NoNews(r) => NoNews(r)') => (OwnOnly(r) => OwnOnly(r)')
    BY <1>0, <1>1, PeerOwn
  <1>7. OldOK(s)'
    BY <1>1, <1>2, <1>5, <1>6, OldOfOwn
  <1> QED
    BY <1>1, <1>3, <1>4, <1>7, Both

\* A step that the stores do not see.
Idle == UNCHANGED <<state, stuck, life, storeVars, feed, snap, collector>>

LEMMA IdleFollows ==
  ASSUME Following, Idle
  PROVE  Following'
  BY DEF Idle, storeVars, Following, SkewedOK, Blank, OldOK, Old, Before, OwnOnly, NoNews,
         FollowOK, Follows, Up

LEMMA EndsFollows ==
  ASSUME PairTypes, CloneTypes, CloneTypes', Stores, Following, NEW s \in Servers, Ends(s)
  PROVE  Following'
  <1>0. PICK r \in Servers : r = Peer(s) /\ r # s
    BY PeerPeer
  <1>2. /\ state'[s] = "down" /\ kvmap'[s] = Empty /\ pending'[s] = <<>>
        /\ got'[s] = {} /\ s \notin skewed' /\ collector'[s] = <<>>
        /\ feed'[s] = <<>> /\ snap'[s] = {} /\ UNCHANGED <<life, sets>>
    BY <1>0 DEF Ends, Die, Gone, PairTypes, CloneTypes
  <1>3. /\ Same(r) /\ collector'[r] = collector[r] /\ feed'[r] = feed[r] /\ snap'[r] = snap[r]
    BY <1>0 DEF Ends, Die, Gone, PairTypes, CloneTypes, Same
  <1>4. Grows(s)
    BY <1>2 DEF Grows, Up, CloneTypes
  <1>5. Alone(s, r)
    BY <1>2, <1>3, <1>4 DEF Alone, FeedOut, FeedIn
  <1>6. SkewedOK(s)' /\ FollowOK(s)'
    BY <1>2 DEF SkewedOK, FollowOK
  <1>7. Led(r)
    BY <1>0, <1>2, NotLed DEF Up
  <1>8. \A v \in Nat : Before(v, s)'
    BY <1>2 DEF Before
  <1>9. OwnOnly(s)'
    <2>1. About(<<>>) = {}
      BY AboutOne
    <2> QED
      BY <1>2, <2>1, EmptyFacts DEF OwnOnly, NoNews
  <1> QED
    BY <1>0, <1>2, <1>3, <1>5, <1>6, <1>7, <1>8, <1>9, StepFollows

LEMMA RestartFollows ==
  ASSUME PairTypes, CloneTypes, CloneTypes', Stores, Following, NEW s \in Servers, CloneRestart(s)
  PROVE  Following'
  <1>0. PICK r \in Servers : r = Peer(s) /\ r # s /\ Peer(r) = s
    BY PeerPeer
  <1>1. /\ state[s] = "down" /\ state'[s] \in {"PRIMARY", "BACKUP"} /\ life'[s] = life[s] + 1
        /\ UNCHANGED <<stuck, storeVars, sets, collector, feed, asks, snap>>
    BY PeerFacts DEF CloneRestart, Restart, Up, PairTypes, CloneTypes, cloneVars, netVars
  <1>2. Same(r)
    BY <1>0, <1>1 DEF CloneRestart, Restart, Same, storeVars, PairTypes, CloneTypes
  <1>3. OwnOK(s) /\ SnapOK(s) /\ OldOK(s) /\ FollowOK(r) /\ SnapOK(r) /\ MapOK(r)
    BY <1>0 DEF Stores, Following, OwnOK
  <1>4. /\ kvmap[s] = Empty /\ About(pending[s]) = got[s] /\ feed[s] = <<>> /\ got[s] = {}
        /\ collector[s] = <<>> /\ s \notin skewed /\ s \notin stuck
    BY <1>1, <1>3 DEF OwnOK, BlankOK, Blank, StuckOK
  <1>5. snap[s] = {}
    BY <1>3, <1>4 DEF SnapOK
  <1>6. SkewedOK(s)' /\ FollowOK(s)'
    BY <1>1, <1>4 DEF SkewedOK, FollowOK, storeVars
  <1>7. OldOK(s)'
    BY <1>1, <1>4 DEF OldOK, Old
  <1>8. Before(0, s)' /\ \A v : Before(v, s)'
    BY <1>1, <1>4 DEF Before, storeVars
  <1>9. OwnOnly(s)'
    BY <1>1, <1>4, <1>5, EmptyFacts DEF OwnOnly, NoNews, storeVars
  <1>10. OldOK(r)'
    BY <1>0, <1>8, <1>9 DEF OldOK
  <1>11. Led(r)
    <2>1. life[s] \in Nat
      BY DEF CloneTypes
    <2>2. life'[s] > life[s]
      BY <1>1, <2>1
    <2> QED
      BY <1>0, <2>2, NotLed
  <1>12. FollowOK(r)'
    BY <1>1, <1>2, <1>3, <1>11, PeerFollows
  <1> QED
    BY <1>0, <1>2, <1>6, <1>7, <1>10, <1>12, Both

\* The state change handlers.
LEMMA HandlersFollow ==
  ASSUME PairTypes, CloneTypes, CloneTypes', Stores, Following, NEW s \in Servers,
         NEW r, r = Peer(s), NEW new,
         Runs(s), state' = [state EXCEPT ![s] = new], StateHandlers(s), Alone(s, r),
         UNCHANGED <<stuck, life, collector>>, snap'[s] = snap[s],
         new \in {state[s], "ACTIVE"} \/ (new = "PASSIVE" /\ state[s] \in {"PRIMARY", "BACKUP"}),
         FollowOK(r)' \/ snap'[r] = snap[r], snap'[r] = snap[r] \/ new = "ACTIVE"
  PROVE  Following'
  <1>0. r \in Servers /\ r # s /\ Peer(r) = s
    BY PeerPeer
  <1>1. /\ state'[s] = new /\ life'[s] = life[s] /\ Same(r)
        /\ s \notin stuck /\ s \notin stuck' /\ Up(s) /\ collector'[s] = collector[s]
    BY DEF Alone, Runs, PairTypes
  <1>2. SkewedOK(s) /\ FollowOK(s) /\ OwnOK(s) /\ SnapOK(s)
    BY DEF Following, Stores
  <1>3. snap[s] = {}
    BY <1>1, <1>2 DEF SnapOK
  <1>4. CASE new = state[s]
    <2>1. UNCHANGED <<storeVars, feed>>
      BY <1>1, <1>4 DEF StateHandlers
    <2>2. SkewedOK(s)'
      BY <1>1, <1>2, <1>4, <2>1 DEF SkewedOK, Blank, storeVars
    <2>3. FollowOK(s)'
      <3>1. Blank(s)' <=> Blank(s)
        BY <1>1, <1>4, <2>1 DEF Blank, storeVars
      <3>2. Up(r)' <=> Up(r)
        BY <1>1 DEF Up, Same
      <3> QED
        BY <1>1, <1>2, <1>3, <1>4, <2>1, <3>1, <3>2 DEF FollowOK, Follows, Same, storeVars
    <2>4. Led(r)
      BY <1>0, <1>1, <1>4, <2>1, LedStill DEF storeVars
    <2>5. \A v \in Nat : Before(v, s) => Before(v, s)'
      BY <1>1, <2>1 DEF Before, storeVars
    <2>6. OwnOnly(s) => OwnOnly(s)'
      BY <2>1 DEF OwnOnly, NoNews, storeVars
    <2>7. NoNews(r) => NoNews(r)'
      BY <2>1 DEF NoNews
    <2> QED
      BY <1>1, <1>4, <2>1, <2>2, <2>3, <2>4, <2>5, <2>6, <2>7, StepFollows DEF storeVars
  <1>5. CASE new = "ACTIVE" /\ new # state[s]
    <2>1. NewActive(s)
      BY <1>1, <1>5 DEF StateHandlers
    <2>2. PICK ms \in Seq(Messages) : Taking(s, ms)
      BY <2>1, NewActiveTypes
    <2>3. PICK map : map = Apply(kvmap[s], pending[s], DOMAIN pending[s])
      OBVIOUS
    <2>4. /\ kvmap'[s] = map /\ pending'[s] = <<>> /\ feed'[s] = <<>> /\ got'[s] = got[s]
          /\ UNCHANGED <<mapped, skewed>>
      BY <1>0, <2>2, <2>3 DEF Taking, CloneTypes
    <2>5. SkewedOK(s)'
      BY <1>1, <1>2, <1>5, <2>4 DEF SkewedOK, Blank
    <2>6. FollowOK(s)'
      BY <1>1, <1>5 DEF FollowOK
    <2>7. Led(r)
      BY <1>0, <1>1, <1>5, NotLed
    <2>8. \A v \in Nat : Before(v, s) => Before(v, s)'
      BY <1>1, <2>4 DEF Before
    <2>9. OwnOnly(s) => OwnOnly(s)'
      <3>1. About(<<>>) = {}
        BY AboutOne
      <3>2. kvmap[s] \in Maps
        BY DEF CloneTypes
      <3>3. \A u \in Updates : kvmap[s][u] # "none" \/ u \in About(pending[s]) <=> map[u] # "none"
        BY <2>3, <3>2, ApplyFacts
      <3> QED
        BY <2>4, <3>1, <3>3 DEF OwnOnly, NoNews
    <2> QED
      BY <1>1, <2>4, <2>5, <2>6, <2>7, <2>8, <2>9, StepFollows
  <1>6. CASE new = "PASSIVE" /\ state[s] \in {"PRIMARY", "BACKUP"}
    <2>1. /\ mapped' = mapped \ {s} /\ kvmap'[s] = Empty
          /\ UNCHANGED <<sequence, pending, feed, got, from, skewed>>
      BY <1>1, <1>6 DEF StateHandlers, NewPassive, CloneTypes
    <2>2. s \notin skewed
      BY <1>2, <1>6 DEF SkewedOK, Blank
    <2>3. SkewedOK(s)'
      BY <2>1, <2>2 DEF SkewedOK
    <2>4. FollowOK(s)'
      BY <1>3, <2>1 DEF FollowOK, Blank
    <2>5. Led(r)
      BY <1>0, <1>1, <1>6, NotLed
    <2>6. \A v \in Nat : Before(v, s) => Before(v, s)'
      BY <1>1, <2>1 DEF Before
    <2>7. OwnOnly(s) => OwnOnly(s)'
      BY <1>3, <2>1, EmptyFacts DEF OwnOnly, NoNews
    <2>8. NoNews(r) => NoNews(r)'
      BY <2>1 DEF NoNews
    <2> QED
      BY <1>1, <1>6, <2>1, <2>2, <2>3, <2>4, <2>5, <2>6, <2>7, <2>8, StepFollows
  <1> QED
    BY <1>4, <1>5, <1>6

LEMMA TurnedFollows ==
  ASSUME PairTypes, CloneTypes, CloneTypes', Stores, Following, NEW s \in Servers, Turned(s)
  PROVE  Following'
  <1>0. PICK r \in Servers : r = Peer(s) /\ r # s
    BY PeerPeer
  <1>1. PICK event \in inbox[s] :
          /\ state' = [state EXCEPT ![s] = Heard(s, event)]
          /\ Heard(s, event) = "ACTIVE" => s \in mapped \/ pending[s] = <<>>
    BY DEF Turned
  <1>2. PICK new : new = Heard(s, event)
    OBVIOUS
  <1>3. state[s] \in States
    BY DEF Turned, Runs, Up, PairTypes
  <1>4. new \in {state[s], "ACTIVE"} \/ (new = "PASSIVE" /\ state[s] \in {"PRIMARY", "BACKUP"})
    BY <1>2, <1>3, Moved DEF Heard
  <1>5. NetTypes' /\ RestTypes'
    BY DEF Turned, NetTypes, RestTypes, CloneTypes, clientVars
  <1>6. /\ Runs(s) /\ state' = [state EXCEPT ![s] = new] /\ StateHandlers(s)
        /\ UNCHANGED <<stuck, life, sets, collector, asks, snap>>
    BY <1>1, <1>2 DEF Turned
  <1>7. Alone(s, Peer(s))
    BY <1>1, <1>2, <1>4, <1>5, <1>6, HandlersKeep
  <1> QED
    BY <1>0, <1>4, <1>6, <1>7, HandlersFollow

\* A snapshot is of the map as it is, by an active server.
LEMMA VotedFollows ==
  ASSUME PairTypes, CloneTypes, CloneTypes', Stores, Stores', Following, NEW s \in Servers,
         NEW who \in Askers, Voted(s, who), kind # "poc"
  PROVE  Following'
  <1>0. PICK r \in Servers : r = Peer(s) /\ r # s /\ Peer(r) = s
    BY PeerPeer
  <1>1. PICK new : new = Move(state[s], "REQUEST", expired[s])
    OBVIOUS
  <1>2. /\ Runs(s) /\ state' = [state EXCEPT ![s] = new] /\ StateHandlers(s)
        /\ UNCHANGED <<stuck, clientVars, life, late, sets, collector, joined>>
        /\ asks' = [asks EXCEPT ![s] = @ \ {who}] /\ who \in asks[s]
    BY <1>1 DEF Voted, PairTypes
  <1>3. state[s] \in States
    BY <1>2 DEF Runs, Up, PairTypes
  <1>4. new \in {state[s], "ACTIVE"}
    BY <1>1, <1>3, Moved DEF PairTypes
  <1>5. new # state[s] => s \in mapped
    <2>1. ~Accepts(s) => new = state[s]
      BY <1>1, <1>3, Moved DEF Accepts, PairTypes
    <2> QED
      BY <2>1 DEF Voted
  <1>6. Accepts(s) => new = "ACTIVE"
    BY <1>1, <1>3 DEF Accepts, Exception, Move, States
  <1>7. Alone(s, r)
    <2>1. NetTypes' /\ RestTypes'
      BY TypeParts
    <2>2. /\ new \in {state[s], "ACTIVE"} \/ (new = "PASSIVE" /\ state[s] \in {"PRIMARY", "BACKUP"})
          /\ new # state[s] /\ new = "ACTIVE" => s \in mapped \/ pending[s] = <<>>
      BY <1>4, <1>5
    <2>3. /\ Runs(s) /\ state' = [state EXCEPT ![s] = new] /\ StateHandlers(s)
          /\ UNCHANGED <<stuck, life, sets, collector>>
      BY <1>2
    <2> QED
      BY <1>0, <2>1, <2>2, <2>3, HandlersKeep
  <1>8. CASE snap' = snap
    BY <1>0, <1>2, <1>4, <1>7, <1>8, HandlersFollow
  <1>9. CASE snap' # snap
    <2>1. Accepts(s) /\ who = "peer"
          /\ snap' = [snap EXCEPT ![r] = {[kv |-> kvmap'[s], n |-> sequence'[s], life |-> life[s]]}]
      BY <1>0, <1>9 DEF Voted
    <2>2. PICK map, n, L, shot : map = kvmap'[s] /\ n = sequence'[s] /\ L = life[s]
                                 /\ shot = [kv |-> map, n |-> n, life |-> L]
      OBVIOUS
    <2>3. snap'[r] = {shot} /\ snap'[s] = snap[s] /\ new = "ACTIVE"
          /\ shot.kv = map /\ shot.n = n /\ shot.life = L
      BY <1>0, <1>6, <2>1, <2>2 DEF CloneTypes
    <2>4. state'[s] = "ACTIVE" /\ life'[s] = L /\ Up(s)'
      BY <1>2, <2>2, <2>3 DEF PairTypes, Up
    <2>5. r \in stuck /\ r \in stuck'
      BY <1>0, <1>2, <2>1 DEF Stores, SnapOK
    <2>6. SkewedOK(r) /\ OldOK(r) /\ Same(r)
      BY <1>7 DEF Following, Alone
    <2>7. Blank(r) /\ Blank(r)' /\ r \notin skewed /\ r \notin skewed'
      BY <2>5, <2>6 DEF Blank, SkewedOK, Same
    <2>8. ASSUME state'[r] = "PASSIVE" PROVE FollowOK(r)'
      <3>1. FeedOK(r)'
        BY DEF Stores
      <3>2. OldOK(r)'
        <4>1. \A v \in Nat : Before(v, s) => Before(v, s)'
          <5>1. got'[s] = got[s]
            BY <1>2 DEF StateHandlers, storeVars, NewActive, NewPassive
          <5> QED
            BY <1>2, <5>1 DEF Before
        <4>2. FeedOut(s, r) /\ life'[s] = life[s]
          BY <1>7, <2>2, <2>4 DEF Alone
        <4>3. OwnOnly(s) => OwnOnly(s)'
          <5>1. CASE new = state[s]
            <6>1. UNCHANGED <<storeVars, feed>>
              BY <1>2, <5>1 DEF StateHandlers, PairTypes
            <6> QED
              BY <2>3, <6>1 DEF OwnOnly, NoNews, storeVars
          <5>2. CASE new # state[s]
            <6>1. NewActive(s)
              BY <1>2, <2>3, <5>2 DEF StateHandlers, PairTypes
            <6>2. PICK ms \in Seq(Messages) : Taking(s, ms)
              BY <6>1, NewActiveTypes
            <6>3. PICK new0 : new0 = Apply(kvmap[s], pending[s], DOMAIN pending[s])
              OBVIOUS
            <6>4. kvmap'[s] = new0 /\ pending'[s] = <<>> /\ feed'[s] = <<>> /\ got'[s] = got[s]
              BY <1>0, <6>2, <6>3 DEF Taking, CloneTypes
            <6>5. About(<<>>) = {} /\ kvmap[s] \in Maps
              BY AboutOne DEF CloneTypes
            <6>6. \A u \in Updates : kvmap[s][u] # "none" \/ u \in About(pending[s]) <=> new0[u] # "none"
              BY <6>3, <6>5, ApplyFacts
            <6> QED
              BY <2>3, <6>4, <6>5, <6>6 DEF OwnOnly, NoNews
          <5> QED
            BY <5>1, <5>2
        <4> QED
          BY <1>0, <2>6, <4>1, <4>2, <4>3, OldOfPeer
      <3>3. Held(map) \in SUBSET Updates /\ n \in Nat /\ feed'[r] \in Seq(Messages)
        BY <2>2 DEF Held, CloneTypes
      <3>4. ASSUME NEW u \in Held(map) PROVE map[u] = "held" /\ Owed(u, n, feed'[r]) = {}
        <4>1. map[u] = "held" /\ u \in Updates /\ u # 0
          BY CloneAssumption, UpdatesAreNumbers DEF Held
        <4>2. ASSUME NEW i \in 1 .. Len(feed'[r]), feed'[r][i].u = u PROVE ~(feed'[r][i].n > n)
          <5>1. feed'[r][i].life = life'[s]
            <6>1. NoOldNews'
              BY OldIsGone, PTL
            <6>2. NewsOfNow(r)'
              BY <3>1, <3>2, <6>1 DEF NoOldNews
            <6> QED
              BY <1>0, <2>2, <2>7, <2>8, <4>2, <6>2 DEF NewsOfNow
          <5>2. feed'[r][i].n <= sequence'[s]
            BY <1>0, <2>4, <3>1, <4>1, <4>2, <5>1 DEF FeedOK
          <5>3. feed'[r][i].n \in Nat
            <6>1. feed'[r][i] \in Messages
              BY <3>3, <4>2
            <6> QED
              BY <6>1 DEF Messages
          <5> QED
            BY <2>2, <3>3, <5>2, <5>3
        <4> QED
          BY <4>1, <4>2 DEF Owed
      <3>5. Covers(Held(map), map, n, feed'[r])
        BY <3>3, <3>4, CoversNow
      <3>6. Follows(r, map, n, L)'
        BY <1>0, <2>2, <2>4, <3>5 DEF Follows
      <3>7. \A x \in snap'[r] : Follows(r, x.kv, x.n, x.life)'
        BY <2>3, <3>6 DEF Follows
      <3> QED
        BY <2>7, <3>7 DEF FollowOK
    <2>9. FollowOK(r)'
      BY <2>8 DEF FollowOK
    <2> QED
      BY <1>0, <1>2, <1>4, <1>7, <2>3, <2>9, HandlersFollow
  <1> QED
    BY <1>8, <1>9

\* A server goes on as it is.
LEMMA OwnFollows ==
  ASSUME NEW s \in Servers, NEW r, r = Peer(s), Same(r), SkewedOK(s), FollowOK(s),
         state'[s] = state[s], kvmap'[s] = kvmap[s], sequence'[s] = sequence[s],
         from'[s] = from[s], feed'[s] = feed[s], snap'[s] = snap[s],
         s \in mapped' <=> s \in mapped, s \in stuck' <=> s \in stuck,
         s \in skewed' <=> s \in skewed
  PROVE  SkewedOK(s)' /\ FollowOK(s)'
  <1>1. Blank(s)' <=> Blank(s)
    BY DEF Blank
  <1>2. Up(r)' <=> Up(r)
    BY DEF Up, Same
  <1> QED
    BY <1>1, <1>2 DEF SkewedOK, FollowOK, Follows, Same

\* What a server tells its peer under the next number.
LEMMA PublishFollows ==
  ASSUME CloneTypes, CloneTypes', Stores, Following, NEW s \in Servers, NEW r, r = Peer(s),
         Same(r), snap'[r] = snap[r], state'[s] = state[s], life'[s] = life[s],
         NEW p \in Pendings, NEW m \in Messages, m = Message(s, sequence[s] + 1, p),
         m.n = sequence[s] + 1, m.u = p.u, Publish(s, <<m>>), kvmap'[s] = Store(kvmap[s], p)
  PROVE  FollowOK(r)'
  <1>0. r \in Servers /\ r # s
    BY PeerPeer
  <1>1. FollowOK(r) /\ SnapOK(r) /\ MapOK(r)
    BY <1>0 DEF Following, Stores, OwnOK
  <1>2. CASE Up(r) /\ state[r] # "ACTIVE"
    <2>1. feed'[r] = feed[r] \o <<m>>
      <3>1. feed' = [feed EXCEPT ![r] = feed[r] \o <<m>>]
        BY <1>2, PublishTypes
      <3> QED
        BY <1>0, <3>1 DEF CloneTypes
    <2>2. m.del = p.del /\ m.u \in Updates
      BY DEF Message, Pendings
    <2>3. kvmap'[s] = Store(kvmap[s], m)
      BY <2>2 DEF Store
    <2>4. Led(r)
      BY <1>0, <2>1, <2>2, <2>3, LedByMessage
    <2> QED
      BY <1>0, <1>1, <2>4, PeerFollows
  <1>3. CASE ~(Up(r) /\ state[r] # "ACTIVE")
    BY <1>3 DEF Up, Same, FollowOK
  <1> QED
    BY <1>2, <1>3

\* What comes from the collector is newer than all of before.
LEMMA BeforeTaken ==
  ASSUME CloneTypes, NEW s \in Servers, collector[s] # <<>>,
         got'[s] = got[s] \cup {Head(collector[s])}, collector'[s] = Tail(collector[s])
  PROVE  \A v \in Nat : Before(v, s) => Before(v, s)'
  <1>1. PICK q \in Seq(Updates), k \in Nat : q = collector[s] /\ k = Len(q)
    BY DEF CloneTypes
  <1>2. PICK t : t = Tail(q)
    OBVIOUS
  <1>3. /\ Head(q) = q[1] /\ 1 \in 1 .. k /\ Len(t) = k - 1
        /\ \A j \in 1 .. k - 1 : t[j] = q[j + 1]
    BY <1>1, <1>2
  <1>4. ASSUME NEW v \in Nat, Before(v, s) PROVE Before(v, s)'
    <2>1. (\A u \in got[s] : v < u) /\ \A j \in 1 .. k : v < q[j]
      BY <1>1, <1>4 DEF Before
    <2>2. \A u \in got'[s] : v < u
      BY <1>1, <1>3, <2>1
    <2>3. \A j \in 1 .. k - 1 : v < t[j]
      <3>1. ASSUME NEW j \in 1 .. k - 1 PROVE j + 1 \in 1 .. k
        OBVIOUS
      <3> QED
        BY <1>3, <2>1, <3>1
    <2> QED
      BY <1>1, <1>2, <1>3, <2>2, <2>3 DEF Before
  <1> QED
    BY <1>4

LEMMA CollectorFollows ==
  ASSUME PairTypes, CloneTypes, CloneTypes', Stores, Following, NEW s \in Servers,
         Collector(s), ~Ends(s)
  PROVE  Following'
  <1>0. PICK r \in Servers : r = Peer(s) /\ r # s
    BY PeerPeer
  <1>1. PICK u : u = Head(collector[s])
    OBVIOUS
  <1>2. u \in Updates /\ u <= sets /\ collector[s] # <<>>
    BY <1>1, Collected DEF Collector, Stores, OwnOK
  <1>3. PICK p \in Pendings : p = [u |-> u, del |-> FALSE] /\ p.u = u
    <2>1. [u |-> u, del |-> FALSE] \in Pendings /\ [u |-> u, del |-> FALSE].u = u
      BY <1>2 DEF Pendings
    <2> QED
      BY <2>1
  <1>4. ~(state[s] = "ACTIVE" /\ s \notin mapped)
    BY DEF Collector, Abort, Ends
  <1>5. /\ Up(s) /\ UNCHANGED <<state, stuck, life, mapped, from, skewed, sets, asks, snap>>
        /\ collector' = [collector EXCEPT ![s] = Tail(@)]
        /\ got' = [got EXCEPT ![s] = @ \cup {u}]
        /\ IF state[s] = "ACTIVE"
           THEN /\ sequence' = [sequence EXCEPT ![s] = @ + 1]
                /\ Publish(s, <<Message(s, sequence[s] + 1, p)>>)
                /\ kvmap' = [kvmap EXCEPT ![s] = Store(@, p)]
                /\ UNCHANGED pending
           ELSE /\ pending' = [pending EXCEPT ![s] = With(@, p)]
                /\ UNCHANGED <<sequence, kvmap, feed>>
    BY <1>1, <1>3, <1>4 DEF Collector, Runs, vars, news
  <1>6. collector'[s] = Tail(collector[s]) /\ got'[s] = got[s] \cup {u}
        /\ collector'[r] = collector[r]
    BY <1>0, <1>5 DEF CloneTypes
  <1>7. \A v \in Nat : Before(v, s) => Before(v, s)'
    BY <1>1, <1>2, <1>6, BeforeTaken
  <1>8. Same(r)
    BY ZenonT(60), <1>0, <1>5 DEF Same, CloneTypes
  <1>9. SkewedOK(s) /\ FollowOK(s)
    BY DEF Following
  <1>10. CASE state[s] = "ACTIVE"
    <2>1. PICK m \in Messages : /\ m = Message(s, sequence[s] + 1, p) /\ m.n = sequence[s] + 1
                                /\ m.u = u /\ m.life = life[s]
      BY <1>3, NextMessage
    <2>2. Publish(s, <<m>>) /\ UNCHANGED pending
      BY <1>5, <1>10, <2>1
    <2>3. PICK map \in Maps : /\ map = Store(kvmap[s], p) /\ map[u] # "none"
                              /\ \A v \in Updates : kvmap[s][v] # "none" => map[v] # "none"
                              /\ \A v \in Updates : v # u => map[v] = kvmap[s][v]
      BY <1>3, Stored
    <2>4. sequence'[s] = sequence[s] + 1 /\ kvmap'[s] = map
      BY <1>5, <1>10, <2>3 DEF CloneTypes
    <2>5. FeedOut(s, r) /\ feed'[s] = feed[s]
      BY <1>0, <1>2, <1>5, <2>1, <2>2, <2>3, <2>4, OneMessage
    <2>6. Alone(s, r)
      BY <1>5, <1>6, <1>8, <2>5 DEF Alone, FeedIn
    <2>7. FollowOK(r)'
      BY <1>0, <1>3, <1>5, <1>8, <2>1, <2>2, <2>3, <2>4, PublishFollows
    <2>8. SkewedOK(s)' /\ FollowOK(s)'
      BY <1>5, <1>9, <1>10 DEF SkewedOK, FollowOK, Blank
    <2>9. OwnOnly(s) => OwnOnly(s)'
      BY <1>5, <1>6, <2>2, <2>3, <2>4, <2>5 DEF OwnOnly, NoNews
    <2> QED
      BY <1>0, <1>5, <1>7, <1>10, <2>6, <2>7, <2>8, <2>9, StepFollows
  <1>11. CASE state[s] # "ACTIVE"
    <2>1. UNCHANGED <<sequence, kvmap, feed>> /\ pending'[s] = With(pending[s], p)
      BY <1>5, <1>11 DEF CloneTypes
    <2>2. About(pending'[s]) \subseteq About(pending[s]) \cup {u}
      <3>1. pending[s] \in Seq(Pendings)
        BY DEF CloneTypes
      <3> QED
        BY <1>3, <2>1, <3>1, WithFacts
    <2>3. Grows(s)
      <3>1. life[s] \in Nat /\ sequence[s] \in Nat
        BY DEF CloneTypes
      <3> QED
        BY <1>5, <2>1, <3>1 DEF Grows, Up
    <2>4. Alone(s, r)
      BY <1>5, <1>6, <1>8, <2>1, <2>3 DEF Alone, FeedIn, FeedOut
    <2>5. Led(r)
      BY <1>0, <1>5, <2>1, LedStill
    <2>6. SkewedOK(s)' /\ FollowOK(s)'
      BY <1>0, <1>5, <1>8, <1>9, <2>1, OwnFollows
    <2>7. OwnOnly(s) => OwnOnly(s)'
      BY <1>5, <1>6, <2>1, <2>2 DEF OwnOnly, NoNews
    <2>8. NoNews(r) => NoNews(r)'
      BY <2>1 DEF NoNews
    <2> QED
      BY <1>0, <1>5, <1>7, <2>4, <2>5, <2>6, <2>7, <2>8, StepFollows
  <1> QED
    BY <1>10, <1>11

LEMMA FlushFollows ==
  ASSUME PairTypes, CloneTypes, CloneTypes', Stores, Following, NEW s \in Servers, FlushTtl(s)
  PROVE  Following'
  <1>0. PICK r \in Servers : r = Peer(s) /\ r # s
    BY PeerPeer
  <1>1. PICK u \in Updates : /\ kvmap[s][u] = "held"
                             /\ Runs(s) /\ s \in mapped
                             /\ sequence' = [sequence EXCEPT ![s] = @ + 1]
                             /\ Publish(s, <<Message(s, sequence[s] + 1, [u |-> u, del |-> TRUE])>>)
                             /\ kvmap' = [kvmap EXCEPT ![s] = Store(@, [u |-> u, del |-> TRUE])]
                             /\ skewed' = IF state[s] = "PASSIVE" THEN skewed \cup {s} ELSE skewed
                             /\ UNCHANGED <<vars, mapped, pending, got, from, sets, collector,
                                            asks, snap, agentVars, replies, joined>>
    BY DEF FlushTtl, Held
  <1>2. PICK p \in Pendings : p = [u |-> u, del |-> TRUE] /\ p.u = u
    <2>1. [u |-> u, del |-> TRUE] \in Pendings /\ [u |-> u, del |-> TRUE].u = u
      BY DEF Pendings
    <2> QED
      BY <2>1
  <1>3. PICK m \in Messages : /\ m = Message(s, sequence[s] + 1, p) /\ m.n = sequence[s] + 1
                              /\ m.u = u /\ m.life = life[s]
    BY <1>2, NextMessage
  <1>4. PICK map \in Maps : /\ map = Store(kvmap[s], p) /\ map[u] # "none"
                            /\ \A v \in Updates : kvmap[s][v] # "none" => map[v] # "none"
                            /\ \A v \in Updates : v # u => map[v] = kvmap[s][v]
    BY <1>2, Stored
  <1>5. /\ Publish(s, <<m>>) /\ Up(s) /\ s \notin stuck
        /\ skewed' = IF state[s] = "PASSIVE" THEN skewed \cup {s} ELSE skewed
        /\ UNCHANGED <<state, stuck, life, mapped, pending, got, from, sets, collector, snap>>
    BY <1>1, <1>2, <1>3 DEF vars, Runs
  <1>6. sequence'[s] = sequence[s] + 1 /\ kvmap'[s] = map
    BY <1>1, <1>2, <1>4 DEF CloneTypes
  <1>7. OwnOK(s) /\ SnapOK(s) /\ SkewedOK(s)
    BY DEF Stores, Following
  <1>8. u <= sets
    BY <1>1, <1>7 DEF OwnOK, SentOK
  <1>9. FeedOut(s, r) /\ feed'[s] = feed[s]
    BY <1>0, <1>3, <1>4, <1>5, <1>6, <1>8, OneMessage
  <1>10. ~Blank(s) /\ state[s] \in {"ACTIVE", "PASSIVE"}
    <2>1. kvmap[s] # Empty
      BY <1>1, EmptyFacts
    <2>2. ~Blank(s)
      BY <1>7, <2>1 DEF OwnOK, BlankOK
    <2> QED
      BY <2>2 DEF Blank, PairTypes, States
  <1>11. Same(r)
    BY <1>0, <1>1, <1>5 DEF Same, CloneTypes
  <1>12. Alone(s, r)
    BY <1>5, <1>9, <1>11 DEF Alone, FeedIn
  <1>13. FollowOK(r)'
    BY <1>0, <1>2, <1>3, <1>4, <1>5, <1>6, <1>11, PublishFollows
  <1>14. SkewedOK(s)'
    BY <1>5, <1>10 DEF SkewedOK, Blank
  <1>15. FollowOK(s)'
    <2>1. snap'[s] = {}
      BY <1>5, <1>7 DEF SnapOK
    <2>2. state'[s] = "PASSIVE" => s \in skewed'
      BY <1>5
    <2> QED
      BY <2>1, <2>2 DEF FollowOK
  <1>16. \A v \in Nat : Before(v, s) => Before(v, s)'
    BY <1>5 DEF Before
  <1>17. OwnOnly(s) => OwnOnly(s)'
    <2>1. ASSUME NEW v \in Updates, map[v] # "none" PROVE kvmap[s][v] # "none"
      BY <1>1, <1>4, <2>1
    <2> QED
      BY <1>5, <1>6, <1>9, <2>1 DEF OwnOnly, NoNews
  <1>18. state'[s] # "ACTIVE" => s \in skewed'
    BY <1>5, <1>10
  <1> QED
    BY <1>0, <1>5, <1>12, <1>13, <1>14, <1>15, <1>16, <1>17, <1>18, StepFollows

LEMMA HugzFollows ==
  ASSUME PairTypes, CloneTypes, CloneTypes', Stores, Following, NEW s \in Servers, SendHugz(s)
  PROVE  Following'
  <1>0. PICK r \in Servers : r = Peer(s) /\ r # s
    BY PeerPeer
  <1>1. PICK m : m = Message(s, sequence[s], [u |-> 0, del |-> FALSE])
    OBVIOUS
  <1>2. m \in Messages /\ m.u = 0 /\ m.life = life[s]
    <2>1. PICK p : p = [u |-> 0, del |-> FALSE]
      OBVIOUS
    <2>2. p.u = 0 /\ p.del = FALSE /\ p.u \in 0 .. MaxUpdates /\ p.del \in BOOLEAN
      BY <2>1, CloneAssumption
    <2>3. PICK k \in Nat : k = sequence[s]
      BY DEF CloneTypes
    <2>4. m = Message(s, k, p)
      BY <1>1, <2>1, <2>3
    <2> QED
      BY <2>2, <2>3, <2>4, MessageTyped
  <1>3. /\ Up(r) /\ feed[r] = <<>> /\ feed' = [feed EXCEPT ![r] = <<m>>]
        /\ UNCHANGED <<state, stuck, life, late, clientVars, storeVars, sets, collector,
                       asks, snap, joined>>
    BY <1>0, <1>1 DEF SendHugz, vars, sockVars
  <1>4. feed'[r] = <<m>> /\ feed'[s] = feed[s]
    BY <1>0, <1>3 DEF CloneTypes
  <1>6. Same(r) /\ Same(s)
    BY <1>3 DEF Same, storeVars
  <1>7. Grows(s)
    BY <1>6, SameGrows
  <1>9. Alone(s, r)
    BY <1>2, <1>3, <1>4, <1>6, <1>7 DEF Alone, FeedIn, FeedOut
  <1>10. SkewedOK(s)' /\ FollowOK(s)'
    <2>1. SkewedOK(s) /\ FollowOK(s)
      BY DEF Following
    <2> QED
      BY <1>0, <1>3, <1>4, <1>6, <2>1, OwnFollows DEF Same
  <1>11. Led(r)
    BY <1>0, <1>2, <1>3, <1>4, <1>6, LedStill DEF Same
  <1>12. \A v \in Nat : Before(v, s) => Before(v, s)'
    BY <1>3, <1>6 DEF Before, Same
  <1>13. OwnOnly(s) => OwnOnly(s)'
    BY <1>3, <1>4, <1>6 DEF OwnOnly, NoNews, Same
  <1>14. NoNews(r)'
    BY <1>2, <1>4 DEF NoNews
  <1> QED
    BY <1>0, <1>3, <1>6, <1>9, <1>10, <1>11, <1>12, <1>13, <1>14, StepFollows DEF Same

LEMMA AskFollows ==
  ASSUME PairTypes, CloneTypes, CloneTypes', Stores, Following, NEW s \in Servers, AskSnapshot(s)
  PROVE  Following'
  <1>0. PICK r \in Servers : r = Peer(s) /\ r # s
    BY PeerPeer
  <1>1. /\ Up(s) /\ s \notin stuck /\ state[s] = "PASSIVE" /\ s \notin mapped
        /\ stuck' = stuck \cup {s}
        /\ mapped' = mapped \cup {s} /\ UNCHANGED <<state, life, kvmap, sequence, pending, got, from,
                       skewed, sets, collector, feed, snap>>
    BY DEF AskSnapshot, Runs
  <1>2. Same(r)
    BY <1>0, <1>1 DEF Same
  <1>3. Grows(s)
    <2>1. life[s] \in Nat /\ sequence[s] \in Nat
      BY DEF CloneTypes
    <2> QED
      BY <1>1, <2>1 DEF Grows, Up
  <1>4. Alone(s, r)
    BY <1>1, <1>2, <1>3 DEF Alone, FeedIn, FeedOut
  <1>5. SkewedOK(s) /\ SnapOK(s)
    BY DEF Following, Stores
  <1>6. s \notin skewed /\ snap[s] = {}
    BY <1>1, <1>5 DEF SkewedOK, Blank, SnapOK
  <1>7. SkewedOK(s)' /\ FollowOK(s)'
    BY <1>1, <1>6 DEF SkewedOK, FollowOK, Blank
  <1>8. Led(r)
    BY <1>0, <1>1, NotLed
  <1>9. \A v \in Nat : Before(v, s) => Before(v, s)'
    BY <1>1 DEF Before
  <1>10. OwnOnly(s) => OwnOnly(s)'
    BY <1>1 DEF OwnOnly, NoNews
  <1>11. NoNews(r) => NoNews(r)'
    BY <1>1 DEF NoNews
  <1> QED
    BY <1>0, <1>1, <1>4, <1>7, <1>8, <1>9, <1>10, <1>11, StepFollows

LEMMA SubscriberFollows ==
  ASSUME PairTypes, CloneTypes, CloneTypes', Stores, Following, NEW s \in Servers,
         SnapshotArrives(s) \/ Subscriber(s)
  PROVE  Following'
  <1>0. PICK r \in Servers : r = Peer(s) /\ r # s
    BY PeerPeer
  <1>1. PICK map \in Maps, n \in Nat, L \in Nat : GoesOn(s, r, map, n, L)
    BY <1>0, SubscriberCases
  <1>2. /\ Subscribe(s, map, n, L) /\ feed[s] # <<>> /\ state[s] = "PASSIVE" /\ s \in mapped
        /\ s \notin stuck' /\ stuck' \subseteq stuck /\ (r \in stuck' <=> r \in stuck)
        /\ snap' = [snap EXCEPT ![s] = {}] /\ UNCHANGED <<state, life>> /\ n >= sequence[s]
        /\ \A u \in Updates : kvmap[s][u] # "none" => map[u] # "none"
    BY <1>1 DEF GoesOn
  <1>3. SkewedOK(s) /\ OldOK(s) /\ FollowOK(s) /\ FeedOK(s) /\ OwnOK(s) /\ SnapOK(s)
    BY DEF Following, Stores
  <1>4. PICK m \in Messages : m = Head(feed[s])
    <2>1. feed[s] \in Seq(Messages)
      BY DEF CloneTypes
    <2> QED
      BY <1>2, <2>1
  <1>5. PICK p : p = [u |-> m.u, del |-> m.del]
    OBVIOUS
  <1>6. PICK fresh : fresh = (m.u # 0 /\ m.n > n)
    OBVIOUS
  <1>7. /\ feed'[s] = Tail(feed[s]) /\ feed'[r] = feed[r]
        /\ pending'[s] = IF m.u = 0 THEN pending[s] ELSE With(pending[s], p)
        /\ kvmap'[s] = (IF fresh THEN Store(map, p) ELSE map)
        /\ sequence'[s] = (IF fresh THEN m.n ELSE n)
        /\ skewed' = (IF m.u # 0 /\ m.life # L THEN skewed \cup {s} ELSE skewed)
        /\ from'[s] = L /\ snap'[s] = {} /\ snap'[r] = snap[r]
        /\ UNCHANGED <<mapped, got, sets, collector>>
    BY <1>0, <1>2, <1>4, <1>5, <1>6 DEF Subscribe, CloneTypes
  <1>8. Store(map, p) = Store(map, m)
    BY <1>5 DEF Store
  <1>9. Same(r)
    BY <1>0, <1>2, <1>7 DEF Same, Subscribe, CloneTypes
  <1>10. FeedIn(s)
    BY <1>2, <1>7 DEF FeedIn
  <1>11. Grows(s)
    <2>1. sequence[s] \in Nat /\ life[s] \in Nat /\ m.n \in Nat /\ m.del \in BOOLEAN
      BY DEF CloneTypes, Messages
    <2>2. sequence'[s] >= sequence[s]
      <3>1. CASE fresh
        <4>1. m.n > n /\ sequence'[s] = m.n
          BY <1>6, <1>7, <3>1
        <4> QED
          BY <1>2, <2>1, <4>1
      <3>2. CASE ~fresh
        BY <1>2, <1>7, <3>2
      <3> QED
        BY <3>1, <3>2
    <2>3. \A u \in Updates : map[u] # "none" => Store(map, m)[u] # "none"
      BY <2>1, StoreFacts
    <2>4. \A u \in Updates : kvmap[s][u] # "none" => kvmap'[s][u] # "none"
      BY <1>2, <1>7, <1>8, <2>3
    <2> QED
      BY <1>2, <2>1, <2>2, <2>4 DEF Grows, Up
  <1>12. Alone(s, r)
    BY <1>7, <1>9, <1>10, <1>11 DEF Alone, FeedOut
  <1>13. Led(r)
    <2>1. state[s] # "ACTIVE" /\ life'[s] = life[s] /\ state'[s] = state[s]
      BY <1>2
    <2> QED
      BY <1>0, <2>1, NotLed DEF Up
  <1>14. \A v \in Nat : Before(v, s) => Before(v, s)'
    BY <1>7 DEF Before
  <1>15. Follows(s, map, n, L) \/ s \in skewed
    <2>1. CASE s \notin stuck /\ map = kvmap[s] /\ n = sequence[s] /\ L = from[s]
      BY <1>2, <1>3, <2>1 DEF FollowOK, Blank
    <2>2. CASE s \in stuck /\ \E shot \in snap[s] : map = shot.kv /\ n = shot.n /\ L = shot.life
      BY <1>2, <1>3, <2>2 DEF FollowOK
    <2> QED
      BY <1>1, <2>1, <2>2 DEF GoesOn
  <1>16. SkewedOK(s)'
    BY <1>2, <1>7 DEF SkewedOK, Blank
  <1>17. FollowOK(s)'
    <2> SUFFICES ASSUME s \notin skewed', L = life'[r], Up(r)'
                 PROVE  /\ state'[r] = "ACTIVE"
                        /\ Covers(Held(kvmap'[r]), kvmap'[s], sequence'[s], feed'[s])
      BY <1>0, <1>7 DEF FollowOK, Follows
    <2>1. s \notin skewed /\ (m.u # 0 => m.life = L) /\ L = life[r] /\ Up(r)
      BY <1>7, <1>9 DEF Same, Up
    <2>2. state[r] = "ACTIVE" /\ Covers(Held(kvmap[r]), map, n, feed[s])
      BY <1>0, <1>15, <2>1 DEF Follows
    <2>3. NewsOfNow(s)
      BY <1>3, OldIsGone DEF NoOldNews
    <2>4. PICK H : H = Held(kvmap[r])
      OBVIOUS
    <2>5. PICK ms \in Seq(Messages), k \in Nat : ms = feed[s] /\ k = Len(ms)
      BY DEF CloneTypes
    <2>6. 0 \notin Updates /\ H \in SUBSET Updates
      BY <2>4, CloneAssumption, UpdatesAreNumbers DEF Held
    <2>7. ASSUME fresh, NEW u \in H, NEW i \in 2 .. k, ms[i].u = u
          PROVE  ms[i].n > m.n
      <3>1. i \in 1 .. k /\ 1 \in 1 .. k /\ 1 < i /\ u # 0
        BY <2>6, <2>7
      <3>2. ms[i].life = L
        BY <1>0, <1>2, <2>1, <2>3, <2>4, <2>5, <2>7, <3>1 DEF NewsOfNow
      <3>3. ms[1] = m /\ m.u # 0 /\ m.life = L
        <4>1. ms # <<>> /\ m = Head(ms)
          BY <1>2, <1>4, <2>5
        <4>2. m.u # 0
          BY <1>6, <2>7
        <4> QED
          BY <2>1, <4>1, <4>2
      <3>4. ms[1].n < ms[i].n
        BY <1>3, <2>5, <2>7, <3>1, <3>2, <3>3 DEF FeedOK
      <3>5. ms[i] \in Messages
        BY <2>5, <3>1
      <3>6. ms[i].n \in Nat /\ m.n \in Nat
        BY <3>5 DEF Messages
      <3> QED
        BY <3>3, <3>4, <3>6
    <2>8. Covers(H, IF fresh THEN Store(map, m) ELSE map, IF fresh THEN m.n ELSE n, Tail(ms))
      BY <1>2, <1>4, <1>6, <2>2, <2>4, <2>5, <2>6, <2>7, CoversTake
    <2>9. kvmap'[r] = kvmap[r] /\ state'[r] = state[r]
      BY <1>9 DEF Same
    <2> QED
      BY <1>7, <1>8, <2>2, <2>4, <2>5, <2>8, <2>9
  <1>18. OwnOnly(s) => OwnOnly(s)'
    <2> SUFFICES ASSUME OwnOnly(s) PROVE OwnOnly(s)'
      OBVIOUS
    <2>1. snap[s] = {} /\ NoNews(s)
      BY DEF OwnOnly
    <2>2. map = kvmap[s]
      BY <1>1, <2>1 DEF GoesOn
    <2>3. PICK q \in Seq(Messages), k \in Nat : q = feed[s] /\ k = Len(q)
      BY DEF CloneTypes
    <2>4. 1 \in 1 .. k /\ m = q[1]
      BY <1>2, <1>4, <2>3
    <2>5. m.u = 0
      BY <2>1, <2>3, <2>4 DEF NoNews
    <2>6. NoNews(s)'
      <3>1. PICK t : t = Tail(q)
        OBVIOUS
      <3>2. Len(t) = k - 1 /\ \A i \in 1 .. k - 1 : t[i] = q[i + 1] /\ i + 1 \in 1 .. k
        BY <1>2, <2>3, <3>1
      <3>3. \A i \in 1 .. k - 1 : t[i].u = 0
        BY SMTT(40), <2>1, <2>3, <3>2 DEF NoNews
      <3> QED
        BY <1>7, <2>3, <3>1, <3>2, <3>3 DEF NoNews
    <2> QED
      BY <1>6, <1>7, <2>2, <2>5, <2>6 DEF OwnOnly
  <1>19. state[s] # "ACTIVE" /\ (s \notin skewed' => s \notin skewed)
    BY <1>2, <1>7
  <1>20. NoNews(r) => NoNews(r)'
    BY <1>7 DEF NoNews
  <1> QED
    BY <1>0, <1>2, <1>7, <1>12, <1>13, <1>14, <1>16, <1>17, <1>18, <1>19, <1>20, StepFollows

\* The writer's next update is newer than everything of before.
LEMMA SetFollows ==
  ASSUME CloneTypes, CloneTypes', Stores, Following, Set
  PROVE  Following'
  <1>1. /\ sets' = sets + 1 /\ sets \in Nat
        /\ UNCHANGED <<state, stuck, life, storeVars, feed, snap>>
    BY DEF Set, vars, CloneTypes
  <1>2. ASSUME NEW q \in Servers
        PROVE  collector'[q] = collector[q] \/ collector'[q] = Append(collector[q], sets + 1)
    BY DEF Set
  <1>3. ASSUME NEW q \in Servers, NEW v \in Nat, v <= sets, Before(v, q) PROVE Before(v, q)'
    <2>1. PICK c \in Seq(Updates), k \in Nat : c = collector[q] /\ k = Len(c)
      BY DEF CloneTypes
    <2>2. (\A u \in got[q] : v < u) /\ \A j \in 1 .. k : v < c[j]
      BY <1>3, <2>1 DEF Before
    <2>3. \A u \in got'[q] : v < u
      BY <1>1, <2>2 DEF storeVars
    <2>4. CASE collector'[q] = collector[q]
      BY <1>3, <2>3, <2>4 DEF Before
    <2>5. CASE collector'[q] = Append(collector[q], sets + 1)
      <3>1. PICK t : t = Append(c, sets + 1)
        OBVIOUS
      <3>2. Len(t) = k + 1 /\ t[k + 1] = sets + 1 /\ \A j \in 1 .. k : t[j] = c[j]
        BY <2>1, <3>1
      <3>3. v < sets + 1
        BY <1>1, <1>3
      <3>4. \A j \in 1 .. k + 1 : j \in 1 .. k \/ j = k + 1
        OBVIOUS
      <3>5. \A j \in 1 .. k + 1 : v < t[j]
        BY <2>2, <3>2, <3>3, <3>4
      <3> QED
        BY <2>1, <2>3, <2>5, <3>1, <3>2, <3>5 DEF Before
    <2> QED
      BY <1>2, <2>4, <2>5
  <1>4. ASSUME NEW s \in Servers PROVE (SkewedOK(s) /\ FollowOK(s))'
    <2>1. SkewedOK(s) /\ FollowOK(s)
      BY DEF Following
    <2> QED
      BY <1>1, <2>1 DEF SkewedOK, FollowOK, Follows, Blank, Up, storeVars
  <1>5. ASSUME NEW s \in Servers PROVE OldOK(s)'
    <2> SUFFICES ASSUME NEW i \in Old(s)'
                 PROVE  /\ Before(feed[s][i].u, Peer(s))'
                        /\ state'[s] # "ACTIVE" /\ s \notin skewed' => OwnOnly(Peer(s))'
      BY DEF OldOK
    <2>1. i \in Old(s) /\ i \in 1 .. Len(feed[s])
      BY <1>1 DEF Old
    <2>2. Before(feed[s][i].u, Peer(s)) /\ (state[s] # "ACTIVE" /\ s \notin skewed => OwnOnly(Peer(s)))
      BY <2>1 DEF Following, OldOK
    <2>3. feed[s][i].u <= sets
      <3>1. feed[s][i] \in ToSet(feed[s])
        <4>1. PICK q \in Seq(Messages), k \in Nat : q = feed[s] /\ k = Len(q)
          BY DEF CloneTypes
        <4> QED
          BY <2>1, <4>1, Elements
      <3> QED
        BY <3>1 DEF Stores, OwnOK, SentOK, About
    <2>4. feed[s][i].u \in Nat
      <3>1. MessageFields(feed[s][i])
        BY <2>1, FeedTyped
      <3> QED
        BY <3>1, CloneAssumption DEF MessageFields
    <2>5. PICK v \in Nat : v = feed[s][i].u /\ v = feed'[s][i].u
      BY <1>1, <2>4
    <2>6. Before(v, Peer(s))'
      BY <1>3, <2>2, <2>3, <2>5, PeerPeer
    <2>7. OwnOnly(Peer(s)) => OwnOnly(Peer(s))'
      BY <1>1 DEF OwnOnly, NoNews, storeVars
    <2> QED
      BY <1>1, <2>2, <2>5, <2>6, <2>7 DEF Before, storeVars
  <1> QED
    BY <1>4, <1>5 DEF Following

LEMMA ServerFollows ==
  ASSUME PairTypes, OneNews, CloneTypes, CloneTypes', Stores, Stores', Following,
         kind # "poc", NEW s \in Servers, ServerStep(s)
  PROVE  Following'
  <1>1. CASE CloneSendState(s) \/ CloneExpire(s)
    <2>1. Idle
      BY <1>1 DEF CloneSendState, CloneExpire, SendState, Expire, Idle, cloneVars, netVars
    <2> QED
      BY <2>1, IdleFollows
  <1>2. CASE CloneCrash(s)
    <2>1. Ends(s)
      BY <1>2 DEF CloneCrash, Crash, Ends
    <2> QED
      BY <2>1, EndsFollows
  <1>3. CASE CloneRecvState(s)
    BY <1>3, RecvCases, EndsFollows, TurnedFollows
  <1>4. ASSUME NEW who \in Askers, Snapshots(s, who) PROVE Following'
    BY <1>4, SnapshotCases, EndsFollows, VotedFollows
  <1>5. CASE Collector(s)
    BY <1>5, EndsFollows, CollectorFollows
  <1> QED
    BY <1>1, <1>2, <1>3, <1>4, <1>5, RestartFollows, FlushFollows, HugzFollows, AskFollows,
       SubscriberFollows DEF ServerStep

LEMMA FollowNext == StoreInv /\ StoreInv' /\ FollowInv /\ [Next]_allVars => FollowInv'
  <1> SUFFICES ASSUME StoreInv, StoreInv', FollowInv, [Next]_allVars, kind' \in {"clone", "reader"}
               PROVE  Following'
    BY DEF FollowInv
  <1>1. /\ PairTypes /\ OneNews /\ CloneTypes /\ OthersOK /\ Stores /\ CloneTypes' /\ Stores'
    BY DEF StoreInv, IInv
  <1>2. kind' = kind
    BY <1>1, NewsStaysOne
  <1>3. /\ kind # "poc" /\ kind \notin Pairs /\ kind \notin Singles /\ Following
    BY <1>2 DEF FollowInv, Pairs, Singles
  <1>4. CASE Set
    BY <1>1, <1>3, <1>4, SetFollows
  <1>5. CASE \E s \in Servers : ServerStep(s)
    BY <1>1, <1>3, <1>5, ServerFollows
  <1>6. CASE AgentStep
    <2>1. Idle
      BY <1>6 DEF AgentStep, AgentConnect, AgentSnapshot, AgentUpdate, AgentFailover, Ask, Idle,
                  vars, netVars
    <2> QED
      BY <1>3, <2>1, IdleFollows
  <1>7. CASE UNCHANGED allVars
    <2>1. Idle
      BY <1>7 DEF Idle, allVars, vars, cloneVars, netVars
    <2> QED
      BY <1>3, <2>1, IdleFollows
  <1> QED
    BY <1>3, <1>4, <1>5, <1>6, <1>7 DEF Next, PairNext, AgentJoins, Singles

LEMMA FollowInit == CloneInit => FollowInv
  <1> SUFFICES ASSUME CloneInit, kind \in {"clone", "reader"} PROVE Following
    BY DEF FollowInv
  <1>1. /\ \A s \in Servers : /\ feed[s] = <<>> /\ state[s] # "PASSIVE"
        /\ skewed = {}
    BY PeerFacts DEF CloneInit, Init, ToServers, First, Singles
  <1> QED
    BY <1>1 DEF Following, SkewedOK, OldOK, Old, FollowOK

LEMMA FollowInvKeeps == StoreInv /\ FollowInv => PassiveFollows
  <1> SUFFICES ASSUME StoreInv, FollowInv, NEW s \in Servers \ (skewed \cup stuck),
                      state[s] = "PASSIVE", s \in mapped, state[Peer(s)] = "ACTIVE",
                      from[s] = life[Peer(s)]
               PROVE  Held(kvmap[Peer(s)]) \subseteq Held(After(kvmap[s], sequence[s], feed[s]))
    BY DEF PassiveFollows
  <1>1. PairTypes /\ CloneTypes /\ OthersOK
    BY DEF StoreInv, IInv
  <1>2. kind \notin Pairs
    <2>1. from[s] # 0
      BY <1>1, PeerPeer DEF CloneTypes
    <2> QED
      BY <1>1, <2>1 DEF OthersOK
  <1>3. kind \notin Singles
    BY <1>1 DEF OthersOK, First
  <1>4. Following
    BY <1>1, <1>2, <1>3 DEF FollowInv, PairTypes, Kinds
  <1>5. Covers(Held(kvmap[Peer(s)]), kvmap[s], sequence[s], feed[s])
    BY <1>4 DEF Following, FollowOK, Follows, Blank, Up
  <1>6. /\ Held(kvmap[Peer(s)]) \in SUBSET Updates /\ kvmap[s] \in Maps /\ sequence[s] \in Nat
        /\ feed[s] \in Seq(Messages)
    BY <1>1 DEF Held, CloneTypes
  <1> QED
    BY <1>5, <1>6, CoversAfter

\* clonesrv6.c:380-398: a passive server that has its snapshot from the active one, and has
\* flushed nothing, lacks no value of the active server's map but those on their way.
THEOREM PassiveServerFollows == Spec => []PassiveFollows
  BY StoreInit, StoreNext, FollowInit, FollowNext, FollowInvKeeps, PTL DEF Spec

-----------------------------------------------------------------------------
(* A client that reads follows                                             *)

\* What a server has published or is to tell of, and the last number that it has used.
Made(s) == IF kind = "feed" THEN 1 .. sets ELSE Held(kvmap[s])
Latest(s) == IF kind = "feed" THEN sets ELSE sequence[s]

\* The updates of a server come in the order of their numbers, and none comes twice.
NumbersOK(s) ==
  Up(s) =>
    /\ taken[s] <= Latest(s)
    /\ \A i \in 1 .. Len(afeed[s]) :
         /\ afeed[s][i].u # 0
         /\ taken[s] < afeed[s][i].n /\ afeed[s][i].n <= Latest(s)
    /\ \A i, j \in 1 .. Len(afeed[s]) : i < j => afeed[s][i].n < afeed[s][j].n

\* A map with a number that lacks only what is on its way, and what is in M.
Serves(s, map, n, M) ==
  state[s] = "ACTIVE" /\ n <= Latest(s) /\ Covers(Made(s) \ M, map, n, afeed[s])

Unknown(s, map) == {u \in missed[s] : map[u] = "none"}

\* A snapshot of now, or one that lacks only what is on its way unless the client has
\* read past it.
ShotOK(s, map, n) ==
  /\ state[s] = "ACTIVE" /\ n <= Latest(s)
  /\ \A u \in Updates : map[u] # "none" => kvmap[s][u] # "none"
  /\ n >= taken[s] => Serves(s, map, n, Unknown(s, map))

RepliesOK(s) ==
  Up(s) => \A i \in 1 .. Len(replies[s]) : ShotOK(s, replies[s][i].kv, replies[s][i].n)

AgentMapOK(s) ==
  mode = "ACTIVE" /\ at = s /\ Up(s) /\ alife = life[s]
    => Serves(s, akvmap, asequence, missed[s])

\* With two servers a subscription is there from the start.
HearsAll == kind = "reader" => \A s \in Servers : Up(s) => s \in joined /\ missed[s] = {}

\* The client of one server asks once, and each update reaches the server once.
OneReply ==
  kind \in Singles =>
    /\ at = "p" /\ Len(replies["p"]) <= 1
    /\ mode = "SYNCING" \/ (replies["p"] = <<>> /\ "agent" \notin asks["p"])
    /\ replies["p"] # <<>> => "agent" \notin asks["p"]
    /\ "again" \notin asks["p"]
    /\ \A u \in Updates : kvmap["p"][u] # "none" => u \in got["p"]

\* The thread that keeps the map has taken the updates up to its number, the others are
\* on their way to it; until the client has its snapshot it reads none of those.
LagOK ==
  kind = "feed" =>
    /\ sequence["p"] <= sets /\ Len(collector["p"]) = sets - sequence["p"]
    /\ \A i \in 1 .. Len(collector["p"]) : collector["p"][i] = sequence["p"] + i
    /\ \A u \in Updates : kvmap["p"][u] = IF u <= sequence["p"] THEN "held" ELSE "none"
    /\ \A i \in 1 .. Len(afeed["p"]) :
         afeed["p"][i].u = afeed["p"][i].n /\ ~afeed["p"][i].del
    /\ mode # "ACTIVE" =>
         \A u \in 1 .. sets \ missed["p"] :
           \E i \in 1 .. Len(afeed["p"]) : afeed["p"][i].u = u

ReadsOK(s) == NumbersOK(s) /\ RepliesOK(s) /\ AgentMapOK(s)

Reading ==
  /\ life = [s \in Servers |-> 1] /\ taken \in [Servers -> Nat]
  /\ (\A s \in Servers : ReadsOK(s)) /\ HearsAll /\ OneReply /\ LagOK

ReadInv == IF kind \in Readers THEN Reading ELSE mode = "INITIAL"

-----------------------------------------------------------------------------
(* What the updates of a server make of the agent's map                    *)

\* Fewer values, or more in the map.
LEMMA CoversLess ==
  ASSUME NEW H, NEW less, less \subseteq H, NEW map, NEW more, NEW n, NEW ms, Covers(H, map, n, ms),
         \A u \in less : map[u] = "held" => more[u] = "held"
  PROVE  Covers(less, more, n, ms)
  BY DEF Covers

\* The lists of a server grow by messages with numbers that rise.
LEMMA NumbersGrow ==
  ASSUME NEW s \in Servers, CloneTypes, CloneTypes', AgentTypes, AgentTypes', NumbersOK(s), Up(s),
         taken \in [Servers -> Nat], taken'[s] = taken[s],
         NEW ms \in Seq(Messages), Latest(s) \in Nat, Latest(s)' \in Nat, Latest(s)' >= Latest(s),
         afeed'[s] = afeed[s] \o ms \/ afeed'[s] = afeed[s],
         \A i \in 1 .. Len(ms) : /\ ms[i].u # 0 /\ ms[i].n > Latest(s) /\ ms[i].n <= Latest(s)'
                                 /\ \A j \in 1 .. Len(ms) : i < j => ms[i].n < ms[j].n
  PROVE  NumbersOK(s)'
  <1>1. PICK f \in Seq(Messages) : f = afeed[s]
    BY DEF AgentTypes
  <1>2. PICK t \in Nat, k \in Nat, k2 \in Nat :
          t = taken[s] /\ k = Latest(s) /\ k2 = Latest(s)' /\ k2 >= k /\ t <= k
    BY DEF NumbersOK
  <1>3. /\ \A i \in 1 .. Len(f) : f[i].u # 0 /\ t < f[i].n /\ f[i].n <= k
        /\ \A i, j \in 1 .. Len(f) : i < j => f[i].n < f[j].n
    BY <1>1, <1>2 DEF NumbersOK
  <1>4. /\ \A i \in 1 .. Len(f) : f[i].n \in Nat
        /\ \A i \in 1 .. Len(ms) : ms[i].n \in Nat /\ ms[i].u # 0 /\ ms[i].n > k /\ ms[i].n <= k2
        /\ \A i, j \in 1 .. Len(ms) : i < j => ms[i].n < ms[j].n
    <2>1. \A m \in Messages : m.n \in Nat
      BY DEF Messages
    <2>2. \A i \in 1 .. Len(f) : f[i].n \in Nat
      BY <2>1
    <2>3. \A i \in 1 .. Len(ms) : ms[i].n \in Nat
      BY <2>1
    <2> QED
      BY <1>2, <2>2, <2>3
  <1>5. CASE afeed'[s] = f
    <2>1. t <= k2 /\ \A i \in 1 .. Len(f) : f[i].n <= k2
      BY <1>2, <1>3, <1>4
    <2> QED
      BY <1>2, <1>3, <1>5, <2>1 DEF NumbersOK
  <1>6. CASE afeed'[s] = f \o ms
    <2>1. PICK g \in Seq(Messages) : g = f \o ms
      BY Joined
    <2>2. /\ Len(g) = Len(f) + Len(ms) /\ Len(f) \in Nat /\ Len(ms) \in Nat
          /\ \A i \in 1 .. Len(f) : g[i] = f[i]
          /\ \A i \in 1 .. Len(g) : i > Len(f) => i - Len(f) \in 1 .. Len(ms) /\ g[i] = ms[i - Len(f)]
      BY <2>1
    <2>3. ASSUME NEW i \in 1 .. Len(g) PROVE g[i].u # 0 /\ t < g[i].n /\ g[i].n <= k2
      <3>1. CASE i <= Len(f)
        <4>1. i \in 1 .. Len(f) /\ g[i] = f[i]
          BY <2>2, <3>1
        <4> QED
          BY <1>2, <1>3, <1>4, <4>1
      <3>2. CASE i > Len(f)
        <4>1. PICK j \in 1 .. Len(ms) : g[i] = ms[j]
          BY <2>2, <3>2
        <4>2. ms[j].n \in Nat /\ ms[j].u # 0 /\ ms[j].n > k /\ ms[j].n <= k2
          BY <1>4
        <4> QED
          BY <1>2, <4>1, <4>2
      <3> QED
        BY <2>2, <3>1, <3>2
    <2>4. ASSUME NEW i \in 1 .. Len(g), NEW j \in 1 .. Len(g), i < j PROVE g[i].n < g[j].n
      <3>1. CASE j <= Len(f)
        <4>1. i \in 1 .. Len(f) /\ j \in 1 .. Len(f) /\ g[i] = f[i] /\ g[j] = f[j]
          BY <2>2, <2>4, <3>1
        <4> QED
          BY <1>3, <2>4, <4>1
      <3>2. CASE i > Len(f)
        <4>1. j > Len(f) /\ i - Len(f) < j - Len(f)
          BY <2>2, <2>4, <3>2
        <4> QED
          BY <1>4, <2>2, <3>2, <4>1
      <3>3. CASE i <= Len(f) /\ j > Len(f)
        <4>1. i \in 1 .. Len(f) /\ g[i] = f[i] /\ j - Len(f) \in 1 .. Len(ms) /\ g[j] = ms[j - Len(f)]
          BY <2>2, <3>3
        <4>2. f[i].n \in Nat /\ f[i].n <= k /\ g[j].n \in Nat /\ g[j].n > k
          BY <1>3, <1>4, <4>1
        <4> QED
          BY SMTT(40), <1>2, <4>1, <4>2
      <3> QED
        BY <2>2, <3>1, <3>2, <3>3
    <2>5. t <= k2 /\ afeed'[s] = g
      BY <1>2, <1>6, <2>1
    <2> QED
      BY <1>2, <2>3, <2>4, <2>5 DEF NumbersOK
  <1> QED
    BY <1>1, <1>5, <1>6

\* A server tells its clients of one update.
Told(s, m) ==
  /\ m.u \in Updates /\ m.n = Latest(s) + 1 /\ Latest(s)' = Latest(s) + 1
  /\ Broadcast(s, <<m>>)
  /\ \A u \in Made(s)' : IF u = m.u THEN ~m.del ELSE u \in Made(s)
  /\ \A u \in Updates : kvmap[s][u] # "none" => kvmap'[s][u] # "none"
  /\ s \notin joined /\ ~m.del => kvmap[s][m.u] = "none"

LEMMA ToldNumbers ==
  ASSUME NEW s \in Servers, CloneTypes, CloneTypes', AgentTypes, AgentTypes', NumbersOK(s), Up(s),
         taken \in [Servers -> Nat], taken'[s] = taken[s],
         NEW m \in Messages, Told(s, m), Latest(s) \in Nat
  PROVE  NumbersOK(s)'
  <1>0. PICK ms : ms = <<m>>
    OBVIOUS
  <1>1. ms \in Seq(Messages) /\ ms = <<m>>
    BY <1>0
  <1>2. Len(ms) = 1 /\ ms[1] = m /\ m.u # 0
    BY <1>1, AboutOne, UpdatesAreNumbers, CloneAssumption DEF Told
  <1>3. afeed'[s] = afeed[s] \o ms \/ afeed'[s] = afeed[s]
    BY <1>1 DEF Told, Broadcast, AgentTypes
  <1>4. Latest(s)' \in Nat /\ Latest(s)' >= Latest(s) /\ m.n > Latest(s) /\ m.n <= Latest(s)'
    BY DEF Told
  <1>5. \A i \in 1 .. Len(ms) :
          /\ ms[i].u # 0 /\ ms[i].n > Latest(s) /\ ms[i].n <= Latest(s)'
          /\ \A j \in 1 .. Len(ms) : i < j => ms[i].n < ms[j].n
    <2>1. \A i \in 1 .. Len(ms) : i = 1
      BY <1>2
    <2> QED
      BY <1>2, <1>4, <2>1
  <1> QED
    BY <1>1, <1>3, <1>4, <1>5, NumbersGrow

\* A map that a server has given goes on to serve, and so does that of the client.
Keeps(s) ==
  \A map \in Maps, n \in Nat :
    /\ Serves(s, map, n, missed[s]) => Serves(s, map, n, missed[s])'
    /\ (\A u \in Updates : map[u] # "none" => kvmap[s][u] # "none")
       /\ Serves(s, map, n, Unknown(s, map)) => Serves(s, map, n, Unknown(s, map))'

\* The list of the client has grown by what is newer, or not at all.
LEMMA ServesOn ==
  ASSUME NEW s \in Servers, AgentTypes, state'[s] = state[s], NEW map \in Maps, NEW n \in Nat,
         NEW M, NEW N, Serves(s, map, n, M),
         Made(s) \subseteq Updates, Made(s)' \subseteq Updates,
         Latest(s) \in Nat, Latest(s)' \in Nat, Latest(s)' >= Latest(s),
         \/ afeed'[s] = afeed[s] /\ Made(s)' \ N \subseteq Made(s) \ M
         \/ /\ N = M
            /\ \E m \in Messages :
                 /\ afeed'[s] = afeed[s] \o <<m>> /\ m.n > Latest(s)
                 /\ \A u \in Made(s)' : IF u = m.u THEN ~m.del ELSE u \in Made(s)
  PROVE  state'[s] = "ACTIVE" /\ n <= Latest(s)' /\ Covers(Made(s)' \ N, map, n, afeed'[s])
  <1>1. PICK H, new, f : H = Made(s) \ M /\ new = Made(s)' \ N /\ f = afeed[s]
    OBVIOUS
  <1>2. H \in SUBSET Updates /\ new \in SUBSET Updates /\ f \in Seq(Messages)
    BY <1>1 DEF AgentTypes
  <1>3. state'[s] = "ACTIVE" /\ n <= Latest(s) /\ n <= Latest(s)' /\ Covers(H, map, n, f)
    BY <1>1 DEF Serves
  <1>4. CASE afeed'[s] = f /\ new \subseteq H
    <2>1. Covers(new, map, n, f)
      BY <1>3, <1>4, CoversLess
    <2> QED
      BY <1>1, <1>3, <1>4, <2>1
  <1>5. ASSUME NEW m \in Messages, N = M, afeed'[s] = f \o <<m>>, m.n > Latest(s),
               \A u \in Made(s)' : IF u = m.u THEN ~m.del ELSE u \in Made(s)
        PROVE  Covers(new, map, n, afeed'[s])
    <2>1. m.n > n
      BY <1>3, <1>5 DEF Messages
    <2>2. \A u \in new : IF u = m.u THEN ~m.del ELSE u \in H
      BY <1>1, <1>5
    <2>3. Covers(new, map, n, f \o <<m>>)
      BY <1>2, <1>3, <2>1, <2>2, CoversSend
    <2> QED
      BY <1>5, <2>3
  <1> QED
    BY <1>1, <1>3, <1>4, <1>5

LEMMA ToldServes ==
  ASSUME NEW s \in Servers, CloneTypes, AgentTypes, kind \in Readers, state'[s] = state[s],
         NEW m \in Messages, Told(s, m), Latest(s) \in Nat,
         Made(s) \subseteq Updates, Made(s)' \subseteq Updates
  PROVE  Keeps(s)
  <1>1. Latest(s)' \in Nat /\ Latest(s)' >= Latest(s) /\ m.n > Latest(s)
    BY DEF Told
  <1>2. CASE s \in joined
    <2>1. afeed'[s] = afeed[s] \o <<m>> /\ missed' = missed
      BY <1>2 DEF Told, Broadcast, AgentTypes
    <2>2. \A u \in Made(s)' : IF u = m.u THEN ~m.del ELSE u \in Made(s)
      BY DEF Told
    <2>3. ASSUME NEW map \in Maps, NEW n \in Nat, NEW M, Serves(s, map, n, M)
          PROVE  state'[s] = "ACTIVE" /\ n <= Latest(s)' /\ Covers(Made(s)' \ M, map, n, afeed'[s])
      BY <1>1, <2>1, <2>2, <2>3, ServesOn
    <2> QED
      BY <2>1, <2>3 DEF Keeps, Serves, Unknown
  <1>3. CASE s \notin joined
    <2>1. afeed'[s] = afeed[s] /\ missed'[s] = missed[s] \cup {m.u}
      <3>1. {p.u : p \in ToSet(<<m>>)} = {m.u}
        BY AboutOne DEF About
      <3> QED
        BY <1>3, <3>1 DEF Told, Broadcast, AgentTypes
    <2>2. \A u \in Made(s)' : IF u = m.u THEN ~m.del /\ kvmap[s][u] = "none" ELSE u \in Made(s)
      BY <1>3 DEF Told
    <2>3. ASSUME NEW map \in Maps, NEW n \in Nat, NEW M, NEW N, Serves(s, map, n, M),
                 Made(s)' \ N \subseteq Made(s) \ M
          PROVE  state'[s] = "ACTIVE" /\ n <= Latest(s)' /\ Covers(Made(s)' \ N, map, n, afeed'[s])
      BY <1>1, <2>1, <2>3, ServesOn
    <2>4. ASSUME NEW map \in Maps, NEW n \in Nat, Serves(s, map, n, missed[s])
          PROVE  Serves(s, map, n, missed[s])'
      <3>1. Made(s)' \ missed'[s] \subseteq Made(s) \ missed[s]
        BY <2>1, <2>2
      <3> QED
        BY <2>3, <2>4, <3>1 DEF Serves
    <2>5. ASSUME NEW map \in Maps, NEW n \in Nat, Serves(s, map, n, Unknown(s, map)),
                 \A u \in Updates : map[u] # "none" => kvmap[s][u] # "none"
          PROVE  Serves(s, map, n, Unknown(s, map))'
      <3>1. PICK M, N : M = Unknown(s, map) /\ N = Unknown(s, map)'
        OBVIOUS
      <3>2. Made(s)' \ N \subseteq Made(s) \ M
        BY <2>1, <2>2, <2>5, <3>1 DEF Unknown
      <3>3. state'[s] = "ACTIVE" /\ n <= Latest(s)' /\ Covers(Made(s)' \ N, map, n, afeed'[s])
        BY <2>3, <2>5, <3>1, <3>2
      <3> QED
        BY <3>1, <3>3 DEF Serves
    <2> QED
      BY <2>4, <2>5 DEF Keeps
  <1> QED
    BY <1>2, <1>3

\* Nothing changes that the client could see.
Hushed(s) ==
  /\ state'[s] = state[s] /\ afeed'[s] = afeed[s] /\ missed'[s] = missed[s]
  /\ Made(s)' = Made(s) /\ Latest(s)' = Latest(s)

LEMMA HushedKeeps ==
  ASSUME NEW s \in Servers, Hushed(s)
  PROVE  Keeps(s)
  BY DEF Hushed, Keeps, Serves, Unknown

\* A server, as a client sees it.
Apart(r) == Hushed(r) /\ kvmap'[r] = kvmap[r]

LEMMA LatestIsNat ==
  ASSUME NEW s \in Servers
  PROVE  /\ CloneTypes => Latest(s) \in Nat /\ Made(s) \subseteq Updates
         /\ CloneTypes' => Latest(s)' \in Nat /\ Made(s)' \subseteq Updates
  <1>1. ASSUME NEW k \in 0 .. MaxUpdates PROVE k \in Nat /\ 1 .. k \subseteq Updates
    BY CloneAssumption DEF Updates
  <1>2. CloneTypes => Latest(s) \in Nat /\ Made(s) \subseteq Updates
    BY <1>1 DEF CloneTypes, Latest, Made, Held
  <1>3. CloneTypes' => Latest(s)' \in Nat /\ Made(s)' \subseteq Updates
    BY <1>1 DEF CloneTypes, Latest, Made, Held
  <1> QED
    BY <1>2, <1>3

LEMMA ApartReads ==
  ASSUME NEW r \in Servers, ReadsOK(r), Apart(r), replies'[r] = replies[r],
         UNCHANGED <<life, agentVars>>
  PROVE  ReadsOK(r)'
  <1>1. NumbersOK(r)'
    BY DEF ReadsOK, NumbersOK, Apart, Hushed, agentVars, Up
  <1>2. RepliesOK(r)'
    BY DEF ReadsOK, RepliesOK, ShotOK, Serves, Unknown, Apart, Hushed, agentVars, Up
  <1>3. AgentMapOK(r)'
    BY DEF ReadsOK, AgentMapOK, Serves, Apart, Hushed, agentVars, Up
  <1> QED
    BY <1>1, <1>2, <1>3 DEF ReadsOK

\* Nobody reads from a server that is down.
LEMMA DownReads ==
  ASSUME NEW s \in Servers, ~Up(s)'
  PROVE  ReadsOK(s)'
  BY DEF ReadsOK, NumbersOK, RepliesOK, AgentMapOK

\* The snapshots on their way stay good, when what comes is as good.
LEMMA ShotsOn ==
  ASSUME NEW s \in Servers, AgentTypes, RepliesOK(s), Up(s)' => Up(s),
         \A map \in Maps, n \in Nat : ShotOK(s, map, n) => ShotOK(s, map, n)',
         \A i \in 1 .. Len(replies'[s]) :
           \/ \E j \in 1 .. Len(replies[s]) : replies'[s][i] = replies[s][j]
           \/ \E map \in Maps, n \in Nat :
                replies'[s][i].kv = map /\ replies'[s][i].n = n /\ ShotOK(s, map, n)'
  PROVE  RepliesOK(s)'
  <1> SUFFICES ASSUME Up(s)', NEW i \in 1 .. Len(replies'[s])
               PROVE  ShotOK(s, replies[s][i].kv, replies[s][i].n)'
    BY DEF RepliesOK
  <1>1. \E map \in Maps, n \in Nat :
          replies'[s][i].kv = map /\ replies'[s][i].n = n /\ ShotOK(s, map, n)'
    <2>1. ASSUME NEW j \in 1 .. Len(replies[s]), replies'[s][i] = replies[s][j]
          PROVE  \E map \in Maps, n \in Nat :
                   replies'[s][i].kv = map /\ replies'[s][i].n = n /\ ShotOK(s, map, n)'
      <3>1. replies[s] \in Seq(Shots)
        BY DEF AgentTypes
      <3>2. replies[s][j] \in Shots
        BY <3>1
      <3>3. PICK map \in Maps, n \in Nat : map = replies[s][j].kv /\ n = replies[s][j].n
        BY <3>2 DEF Shots
      <3>4. ShotOK(s, map, n)
        BY <3>3 DEF RepliesOK
      <3> QED
        BY <2>1, <3>3, <3>4
    <2> QED
      BY <2>1
  <1>2. PICK map \in Maps, n \in Nat :
          replies'[s][i].kv = map /\ replies'[s][i].n = n /\ ShotOK(s, map, n)'
    BY <1>1
  <1> QED
    BY <1>2 DEF ShotOK, Serves, Unknown

\* A server tells of more, and what it has given goes on to serve.
LEMMA KeepsReads ==
  ASSUME NEW s \in Servers, CloneTypes, CloneTypes', AgentTypes, ReadsOK(s), NumbersOK(s)', Keeps(s),
         state'[s] = state[s], \A u \in Updates : kvmap[s][u] # "none" => kvmap'[s][u] # "none",
         Latest(s)' >= Latest(s), replies'[s] = replies[s], UNCHANGED <<life, agentVars>>
  PROVE  ReadsOK(s)'
  <1>0. Latest(s) \in Nat /\ Latest(s)' \in Nat /\ (Up(s)' <=> Up(s))
    BY LatestIsNat DEF Up
  <1>1. ASSUME NEW map \in Maps, NEW n \in Nat, ShotOK(s, map, n) PROVE ShotOK(s, map, n)'
    <2>1. n <= Latest(s)'
      BY <1>0, <1>1 DEF ShotOK
    <2>2. \A u \in Updates : map[u] # "none" => kvmap'[s][u] # "none"
      BY <1>1 DEF ShotOK
    <2>3. n >= taken'[s] => Serves(s, map, n, Unknown(s, map))'
      BY <1>1 DEF ShotOK, Keeps, agentVars
    <2> QED
      BY <1>1, <2>1, <2>2, <2>3 DEF ShotOK
  <1>2. RepliesOK(s)'
    BY <1>0, <1>1, ShotsOn DEF ReadsOK
  <1>3. AgentMapOK(s)'
    <2>1. PICK map \in Maps, n \in Nat : map = akvmap /\ n = asequence /\ map = akvmap' /\ n = asequence'
      BY DEF AgentTypes, agentVars
    <2>2. ASSUME mode' = "ACTIVE", at' = s, Up(s)', alife' = life'[s] PROVE Serves(s, map, n, missed[s])'
      <3>1. Serves(s, map, n, missed[s])
        BY <1>0, <2>1, <2>2 DEF ReadsOK, AgentMapOK, agentVars
      <3> QED
        BY <3>1 DEF Keeps
    <2> QED
      BY <2>1, <2>2 DEF AgentMapOK, Serves
  <1> QED
    BY <1>2, <1>3 DEF ReadsOK

\* A server that is not active has given nothing.
LEMMA NotServing ==
  ASSUME NEW s \in Servers, AgentTypes, ReadsOK(s), Up(s), state[s] # "ACTIVE"
  PROVE  replies[s] = <<>> /\ ~(mode = "ACTIVE" /\ at = s /\ alife = life[s])
  <1>1. PICK list \in Seq(Shots) : list = replies[s]
    BY DEF AgentTypes
  <1>2. Len(list) = 0
    <2>1. ASSUME Len(list) # 0 PROVE FALSE
      <3>1. 1 \in 1 .. Len(list)
        BY <2>1
      <3>2. ShotOK(s, list[1].kv, list[1].n)
        BY <1>1, <3>1 DEF ReadsOK, RepliesOK
      <3> QED
        BY <3>2 DEF ShotOK
    <2> QED
      BY <2>1
  <1>3. list = <<>>
    BY <1>2
  <1> QED
    BY <1>1, <1>3 DEF ReadsOK, AgentMapOK, Serves

\* Its own steps, with a first snapshot or without.
LEMMA FirstReads ==
  ASSUME NEW s \in Servers, AgentTypes, ReadsOK(s), Up(s), state[s] # "ACTIVE", NumbersOK(s)',
         UNCHANGED <<life, agentVars>>, replies'[s] = replies[s] \/ RepliesOK(s)'
  PROVE  ReadsOK(s)'
  <1>1. replies[s] = <<>> /\ ~(mode = "ACTIVE" /\ at = s /\ alife = life[s])
    BY NotServing
  <1>2. RepliesOK(s)'
    BY <1>1 DEF RepliesOK
  <1>3. AgentMapOK(s)'
    BY <1>1 DEF AgentMapOK, agentVars
  <1> QED
    BY <1>2, <1>3 DEF ReadsOK

LEMMA NumbersStay ==
  ASSUME NEW s \in Servers, CloneTypes, CloneTypes', AgentTypes, NumbersOK(s), Up(s)' => Up(s),
         taken \in [Servers -> Nat], taken'[s] = taken[s], afeed'[s] = afeed[s], Latest(s)' >= Latest(s)
  PROVE  NumbersOK(s)'
  <1>1. PICK f \in Seq(Messages), t \in Nat, k \in Nat, k2 \in Nat :
          f = afeed[s] /\ t = taken[s] /\ k = Latest(s) /\ k2 = Latest(s)' /\ k2 >= k
    BY LatestIsNat DEF AgentTypes
  <1>2. \A i \in 1 .. Len(f) : f[i].n \in Nat
    <2>1. \A i \in 1 .. Len(f) : f[i] \in Messages
      OBVIOUS
    <2> QED
      BY <2>1 DEF Messages
  <1> SUFFICES ASSUME Up(s)'
               PROVE  /\ t <= k2
                      /\ \A i \in 1 .. Len(f) : f[i].u # 0 /\ t < f[i].n /\ f[i].n <= k2
                      /\ \A i, j \in 1 .. Len(f) : i < j => f[i].n < f[j].n
    BY <1>1 DEF NumbersOK
  <1>3. /\ t <= k
        /\ \A i \in 1 .. Len(f) : f[i].u # 0 /\ t < f[i].n /\ f[i].n <= k
        /\ \A i, j \in 1 .. Len(f) : i < j => f[i].n < f[j].n
    BY <1>1 DEF NumbersOK
  <1> QED
    BY <1>1, <1>2, <1>3

-----------------------------------------------------------------------------
(* The steps of a server, as a client sees them                            *)

\* A change of state publishes what was pending; nothing else is seen.
LEMMA HandlersRead ==
  ASSUME PairTypes, CloneTypes, CloneTypes', AgentTypes, AgentTypes', NEW s \in Servers, NEW new,
         Up(s), state' = [state EXCEPT ![s] = new], StateHandlers(s), UNCHANGED <<kind, sets, taken>>,
         kind = "feed" => state' = state, taken \in [Servers -> Nat], NumbersOK(s)
  PROVE  /\ NumbersOK(s)'
         /\ \A r \in Servers : r # s \/ state' = state => Apart(r)
         /\ s \in joined \/ state' = state => missed' = missed
  <1>1. CASE state' = state
    <2>1. UNCHANGED <<storeVars, feed, news>>
      BY <1>1 DEF StateHandlers
    <2>2. ASSUME NEW r \in Servers PROVE Apart(r)
      BY <1>1, <2>1 DEF Apart, Hushed, Made, Latest, storeVars, news
    <2>3. NumbersOK(s)'
      BY <1>1, <2>1 DEF NumbersOK, Latest, storeVars, news, Up
    <2> QED
      BY <2>1, <2>2, <2>3 DEF news
  <1>2. CASE state' # state
    <2>0. kind # "feed" /\ state'[s] # state[s] /\ \A r \in Servers : r # s => state'[r] = state[r]
      BY <1>2 DEF PairTypes
    <2>1. CASE NewActive(s)
      <3>1. PICK ms \in Seq(Messages) :
              /\ Taking(s, ms) /\ Len(ms) \in Nat
              /\ \A i \in 1 .. Len(ms) : ms[i].n = sequence[s] + i /\ ms[i].u \in Updates
        BY <2>1, NewActiveTypes
      <3>2. PICK k \in Nat, l \in Nat : k = sequence[s] /\ l = Len(ms)
        BY <3>1 DEF CloneTypes
      <3>3. Latest(s) = k /\ Latest(s)' = k + l
        BY <2>0, <3>1, <3>2 DEF Latest, Taking, CloneTypes
      <3>4. afeed'[s] = afeed[s] \o ms \/ afeed'[s] = afeed[s]
        BY <3>1 DEF Taking, Broadcast, AgentTypes
      <3>5. \A i \in 1 .. l : ms[i].u # 0
        BY <3>1, <3>2, UpdatesAreNumbers, CloneAssumption
      <3>6. \A i \in 1 .. l : /\ ms[i].n > k /\ ms[i].n <= k + l
                              /\ \A j \in 1 .. l : i < j => ms[i].n < ms[j].n
        BY <3>1, <3>2
      <3>7. NumbersOK(s)'
        <4>1. Latest(s) \in Nat /\ Latest(s)' \in Nat /\ Latest(s)' >= Latest(s) /\ taken'[s] = taken[s]
          BY <3>2, <3>3
        <4>2. \A i \in 1 .. Len(ms) : /\ ms[i].u # 0 /\ ms[i].n > Latest(s) /\ ms[i].n <= Latest(s)'
                                      /\ \A j \in 1 .. Len(ms) : i < j => ms[i].n < ms[j].n
          BY <3>2, <3>3, <3>5, <3>6
        <4> QED
          BY <3>1, <3>4, <4>1, <4>2, NumbersGrow
      <3>8. ASSUME NEW r \in Servers, r # s PROVE Apart(r)
        <4>1. sequence'[r] = sequence[r] /\ kvmap'[r] = kvmap[r]
          BY <3>1, <3>8 DEF Taking, CloneTypes
        <4>2. afeed'[r] = afeed[r] /\ missed'[r] = missed[r]
          BY <3>1, <3>8 DEF Taking, Broadcast, AgentTypes
        <4> QED
          BY <2>0, <3>8, <4>1, <4>2 DEF Apart, Hushed, Made, Latest
      <3>9. s \in joined => missed' = missed
        BY <3>1 DEF Taking, Broadcast
      <3> QED
        BY <1>2, <3>7, <3>8, <3>9
    <2>2. CASE NewPassive(s)
      <3>1. UNCHANGED <<sequence, afeed, missed>> /\ \A r \in Servers : r # s => kvmap'[r] = kvmap[r]
        BY <2>2 DEF NewPassive, CloneTypes, news
      <3>2. NumbersOK(s)'
        BY <3>1 DEF NumbersOK, Latest, Up
      <3>3. ASSUME NEW r \in Servers, r # s PROVE Apart(r)
        BY <2>0, <3>1, <3>3 DEF Apart, Hushed, Made, Latest
      <3> QED
        BY <1>2, <3>1, <3>2, <3>3
    <2> QED
      BY <2>0, <2>1, <2>2 DEF StateHandlers
  <1> QED
    BY <1>1, <1>2

\* A snapshot of now.
LEMMA ShotOfNow ==
  ASSUME NEW s \in Servers, CloneTypes', AgentTypes', NumbersOK(s)', kind' # "feed",
         state'[s] = "ACTIVE", NEW map, map = kvmap'[s], NEW n, n = sequence'[s]
  PROVE  map \in Maps /\ n \in Nat /\ ShotOK(s, map, n)'
  <1>1. PICK f \in Seq(Messages) : f = afeed'[s]
    BY DEF AgentTypes
  <1>2. map \in Maps /\ n \in Nat /\ Latest(s)' = n /\ Made(s)' = Held(map)
    BY DEF CloneTypes, Latest, Made
  <1>3. \A i \in 1 .. Len(f) : f[i].n \in Nat /\ f[i].n <= n
    <2>1. \A i \in 1 .. Len(f) : f[i] \in Messages
      OBVIOUS
    <2> QED
      BY <1>1, <1>2, <2>1 DEF NumbersOK, Messages, Up
  <1>4. ASSUME NEW N PROVE Covers(Made(s)' \ N, map, n, f)
    <2>1. PICK H \in SUBSET Updates : H = Held(map) \ N
      BY DEF Held
    <2>2. \A u \in H : map[u] = "held" /\ Owed(u, n, f) = {}
      <3>1. \A u \in H : Owed(u, n, f) = {}
        BY <1>2, <1>3 DEF Owed
      <3> QED
        BY <2>1, <3>1 DEF Held
    <2> QED
      BY <1>2, <2>1, <2>2, CoversNow
  <1>5. PICK N : N = Unknown(s, map)'
    OBVIOUS
  <1>6. Serves(s, map, n, Unknown(s, map))'
    <2>1. Covers(Made(s)' \ N, map, n, f)
      BY <1>4
    <2>2. n <= Latest(s)'
      BY <1>2
    <2> QED
      BY <1>1, <1>5, <2>1, <2>2 DEF Serves
  <1> QED
    BY <1>2, <1>6 DEF ShotOK

\* The state manager's snapshot lacks the updates that the pipe still holds; the client
\* has missed those, or finds them in its socket.
LEMMA ShotOfFeed ==
  ASSUME CloneTypes, AgentTypes, LagOK, kind = "feed", state["p"] = "ACTIVE", mode # "ACTIVE"
  PROVE  ShotOK("p", kvmap["p"], sequence["p"])
  <1>1. PICK f \in Seq(Messages), map \in Maps, n \in Nat, k \in Nat :
          f = afeed["p"] /\ map = kvmap["p"] /\ n = sequence["p"] /\ k = sets
    BY SMTT(40), PeerFacts, CloneAssumption DEF AgentTypes, CloneTypes
  <1>2. /\ n <= k /\ k <= MaxUpdates
        /\ \A u \in Updates : map[u] = IF u <= n THEN "held" ELSE "none"
        /\ \A i \in 1 .. Len(f) : f[i].u = f[i].n /\ ~f[i].del
        /\ \A u \in 1 .. k \ missed["p"] : \E i \in 1 .. Len(f) : f[i].u = u
    <2>1. k \in 0 .. MaxUpdates
      BY <1>1 DEF CloneTypes
    <2>2. k <= MaxUpdates
      BY <2>1, CloneAssumption
    <2> QED
      BY <1>1, <2>2 DEF LagOK
  <1>3. Made("p") = 1 .. k /\ Latest("p") = k /\ 1 .. k \subseteq Updates
    BY <1>1, <1>2, CloneAssumption DEF Made, Latest, Updates
  <1>4. PICK N : N = Unknown("p", map)
    OBVIOUS
  <1>5. ASSUME NEW u \in 1 .. k \ N
        PROVE  /\ Owed(u, n, f) = {} => map[u] = "held"
               /\ \A i \in Owed(u, n, f) : ~f[i].del
    <2>1. CASE u <= n
      BY <1>2, <1>3, <2>1 DEF Owed
    <2>2. CASE u > n
      <3>1. map[u] = "none" /\ u \notin missed["p"]
        BY <1>2, <1>3, <1>4, <2>2 DEF Unknown
      <3>2. PICK i \in 1 .. Len(f) : f[i].u = u /\ f[i].n = u
        BY <1>2, <3>1
      <3>3. i \in Owed(u, n, f)
        BY <2>2, <3>2 DEF Owed
      <3> QED
        BY <1>2, <3>3 DEF Owed
    <2> QED
      BY <2>1, <2>2
  <1>6. Covers(1 .. k \ N, map, n, f)
    BY <1>5 DEF Covers
  <1>7. Serves("p", map, n, Unknown("p", map))
    BY <1>1, <1>2, <1>3, <1>4, <1>6 DEF Serves
  <1> QED
    BY <1>1, <1>2, <1>3, <1>7 DEF ShotOK

\* The list of snapshots with one more.
LEMMA ShotAdded ==
  ASSUME NEW s \in Servers, AgentTypes, RepliesOK(s), Up(s)' => Up(s),
         NEW shot, replies' = [replies EXCEPT ![s] = Append(@, shot)],
         NEW map \in Maps, NEW n \in Nat, shot.kv = map, shot.n = n, ShotOK(s, map, n)',
         replies[s] = <<>>
           \/ \A m \in Maps, k \in Nat : ShotOK(s, m, k) => ShotOK(s, m, k)'
  PROVE  RepliesOK(s)'
  <1>1. PICK list \in Seq(Shots) : list = replies[s]
    BY DEF AgentTypes
  <1>2. PICK more : more = Append(list, shot)
    OBVIOUS
  <1>3. Len(more) = Len(list) + 1 /\ more[Len(list) + 1] = shot /\ replies'[s] = more
        /\ \A i \in 1 .. Len(list) : more[i] = list[i]
    BY <1>1, <1>2 DEF AgentTypes
  <1>4. ASSUME NEW i \in 1 .. Len(replies'[s])
        PROVE  \/ i \in 1 .. Len(list) /\ replies'[s][i] = list[i]
               \/ /\ replies'[s][i].kv = map /\ replies'[s][i].n = n /\ ShotOK(s, map, n)'
    <2>1. i \in 1 .. Len(list) \/ i = Len(list) + 1
      BY <1>3
    <2> QED
      BY <1>3, <2>1
  <1>5. CASE \A m \in Maps, k \in Nat : ShotOK(s, m, k) => ShotOK(s, m, k)'
    BY <1>1, <1>4, <1>5, ShotsOn
  <1>6. CASE list = <<>>
    <2>1. \A i \in 1 .. Len(replies'[s]) : replies'[s][i].kv = map /\ replies'[s][i].n = n
      BY <1>4, <1>6
    <2> SUFFICES ASSUME NEW i \in 1 .. Len(replies'[s]) PROVE ShotOK(s, replies[s][i].kv, replies[s][i].n)'
      BY DEF RepliesOK
    <2> QED
      BY <2>1 DEF ShotOK, Serves, Unknown
  <1> QED
    BY <1>1, <1>5, <1>6

\* s_snapshots, and the vote that the request is.
LEMMA VotedReads ==
  ASSUME PairTypes, CloneTypes, CloneTypes', AgentTypes, AgentTypes', kind \in Readers, kind' = kind,
         Reading, OthersOK, NEW s \in Servers, NEW who, Voted(s, who),
         kind \in Singles => state' = state
  PROVE  /\ \A r \in Servers : ReadsOK(r)'
         /\ s \in joined \/ state' = state => missed' = missed
  <1>1. PICK new : new = Move(state[s], "REQUEST", expired[s])
    OBVIOUS
  <1>2. /\ Up(s) /\ state' = [state EXCEPT ![s] = new] /\ StateHandlers(s)
        /\ UNCHANGED <<kind, sets, life, agentVars, taken>>
    BY <1>1 DEF Voted, PairTypes, Runs, agentVars
  <1>3. state[s] \in States /\ expired[s] \in BOOLEAN
    BY <1>2 DEF Up, PairTypes
  <1>4. new \in {state[s], "ACTIVE"} /\ state'[s] = new
    BY <1>1, <1>2, <1>3, Moved DEF PairTypes
  <1>5. Accepts(s) => new = "ACTIVE"
    <2>1. kind # "poc"
      BY DEF Readers, Singles
    <2> QED
      BY <1>1, <1>3, <2>1 DEF Accepts, Exception, Move, States
  <1>6. taken \in [Servers -> Nat] /\ \A r \in Servers : ReadsOK(r)
    BY DEF Reading
  <1>7. kind = "feed" => state' = state
    BY DEF Singles
  <1>8. /\ NumbersOK(s)'
        /\ \A r \in Servers : r # s \/ state' = state => Apart(r)
        /\ s \in joined \/ state' = state => missed' = missed
    BY <1>2, <1>6, <1>7, HandlersRead DEF ReadsOK
  <1>9. ASSUME NEW r \in Servers, r # s PROVE ReadsOK(r)'
    <2>1. replies'[r] = replies[r]
      BY <1>9 DEF Voted, AgentTypes
    <2> QED
      BY <1>2, <1>6, <1>8, <1>9, <2>1, ApartReads
  <1>10. CASE replies' = replies
    <2>1. CASE state' = state
      BY <1>2, <1>6, <1>8, <1>10, <2>1, ApartReads
    <2>2. CASE state' # state
      <3>1. state[s] # "ACTIVE"
        BY <1>2, <1>4, <2>2 DEF PairTypes
      <3>2. ReadsOK(s) /\ replies'[s] = replies[s] /\ UNCHANGED <<life, agentVars>>
        BY <1>2, <1>6, <1>10
      <3> QED
        BY <1>2, <1>8, <1>9, <3>1, <3>2, FirstReads
    <2> QED
      BY <1>8, <1>9, <2>1, <2>2
  <1>11. CASE replies' # replies
    <2>1. PICK map, n, shot :
            /\ map = kvmap'[s] /\ n = sequence'[s] /\ shot = [kv |-> map, n |-> n, life |-> life[s]]
      OBVIOUS
    <2>2. Accepts(s) /\ who # "peer" /\ replies' = [replies EXCEPT ![s] = Append(@, shot)]
      BY <1>11, <2>1 DEF Voted
    <2>3. new = "ACTIVE" /\ shot.kv = map /\ shot.n = n /\ who \in asks[s]
      BY <1>5, <2>1, <2>2 DEF Voted
    <2>4. map \in Maps /\ n \in Nat /\ ShotOK(s, map, n)'
      <3>1. CASE kind # "feed"
        BY <1>2, <1>4, <1>8, <2>1, <2>3, <3>1, ShotOfNow
      <3>2. CASE kind = "feed"
        <4>0. kind \in Singles
          BY <3>2 DEF Singles
        <4>1. s = "p"
          BY <1>2, <4>0, SingleState, PeerFacts DEF Up
        <4>2. state["p"] = "ACTIVE" /\ mode # "ACTIVE" /\ LagOK
          <5>1. OneReply /\ LagOK /\ state["p"] = "ACTIVE"
            BY <4>0, SingleState DEF Reading
          <5>2. who = "agent"
            <6>1. who \in asks["p"] /\ who # "peer" /\ "again" \notin asks["p"]
              BY <2>2, <2>3, <4>0, <4>1, <5>1 DEF OneReply
            <6>2. asks["p"] \subseteq {"peer", "agent", "again"}
              BY <4>1 DEF CloneTypes, Askers
            <6> QED
              BY <6>1, <6>2
          <5> QED
            BY <2>3, <4>0, <4>1, <5>1, <5>2 DEF OneReply
        <4>3. UNCHANGED <<storeVars, feed, news>> /\ Apart("p")
          BY <1>2, <1>7, <1>8, <3>2, <4>1 DEF StateHandlers
        <4>4. map = kvmap["p"] /\ n = sequence["p"]
          BY <2>1, <4>1, <4>3 DEF storeVars
        <4>5. map \in Maps /\ n \in Nat
          BY <4>1, <4>4 DEF CloneTypes
        <4>6. ShotOK("p", map, n)
          BY <3>2, <4>2, <4>4, ShotOfFeed
        <4>7. ShotOK("p", map, n)'
          BY <1>2, <4>3, <4>6 DEF ShotOK, Serves, Unknown, Apart, Hushed
        <4> QED
          BY <4>1, <4>5, <4>7
      <3> QED
        BY <3>1, <3>2
    <2>5. CASE state[s] = "ACTIVE"
      <3>1. state' = state /\ Apart(s)
        <4>1. state' = state
          BY <1>2, <2>3, <2>5 DEF PairTypes
        <4> QED
          BY <1>8, <4>1
      <3>2. ASSUME NEW m \in Maps, NEW k \in Nat, ShotOK(s, m, k) PROVE ShotOK(s, m, k)'
        BY <1>2, <3>1, <3>2 DEF ShotOK, Serves, Unknown, Apart, Hushed
      <3>3. RepliesOK(s)'
        <4>1. RepliesOK(s) /\ (Up(s)' => Up(s))
          BY <1>2, <1>6 DEF ReadsOK
        <4> QED
          BY <2>2, <2>3, <2>4, <3>2, <4>1, ShotAdded
      <3>4. AgentMapOK(s)'
        BY <1>2, <1>6, <3>1 DEF ReadsOK, AgentMapOK, Serves, Apart, Hushed, agentVars, Up
      <3> QED
        BY <1>8, <1>9, <3>3, <3>4 DEF ReadsOK
    <2>6. CASE state[s] # "ACTIVE"
      <3>1. replies[s] = <<>>
        BY <1>2, <1>6, <2>6, NotServing
      <3>2. RepliesOK(s)'
        <4>1. RepliesOK(s) /\ (Up(s)' => Up(s))
          BY <1>2, <1>6 DEF ReadsOK
        <4> QED
          BY <2>2, <2>3, <2>4, <3>1, <4>1, ShotAdded
      <3>3. ReadsOK(s)'
        BY <1>2, <1>6, <1>8, <2>6, <3>2, FirstReads
      <3> QED
        BY <1>8, <1>9, <3>3
    <2> QED
      BY <2>5, <2>6
  <1> QED
    BY <1>10, <1>11

\* A server that tells of one update, active or not.
LEMMA ToldReads ==
  ASSUME NEW s \in Servers, CloneTypes, CloneTypes', AgentTypes, AgentTypes', kind \in Readers,
         Up(s), ReadsOK(s), taken \in [Servers -> Nat], NEW m \in Messages, Told(s, m),
         UNCHANGED <<state, life, agentVars, replies>>
  PROVE  ReadsOK(s)'
  <1>1. /\ Latest(s) \in Nat /\ Made(s) \subseteq Updates /\ Made(s)' \subseteq Updates
        /\ Latest(s)' >= Latest(s)
    BY LatestIsNat DEF Told
  <1>2. taken'[s] = taken[s]
    BY DEF agentVars
  <1>3. NumbersOK(s)'
    BY <1>1, <1>2, ToldNumbers DEF ReadsOK
  <1>4. Keeps(s)
    BY <1>1, ToldServes
  <1> QED
    BY <1>1, <1>3, <1>4, KeepsReads DEF Told

\* The others, when one server tells of an update.
LEMMA OthersApart ==
  ASSUME CloneTypes, AgentTypes, NEW s \in Servers, NEW ms, Broadcast(s, ms), NEW r \in Servers, r # s,
         state'[r] = state[r], kvmap'[r] = kvmap[r], sequence'[r] = sequence[r],
         UNCHANGED <<kind, sets>>
  PROVE  Apart(r)
  <1>1. afeed'[r] = afeed[r] /\ missed'[r] = missed[r]
    BY DEF Broadcast, AgentTypes
  <1> QED
    BY <1>1 DEF Apart, Hushed, Made, Latest

\* What the server stores with it.
LEMMA StoreTold ==
  ASSUME CloneTypes, CloneTypes', NEW s \in Servers, kind # "feed", kind' = kind, NEW p \in Pendings,
         NEW m \in Messages, m = Message(s, sequence[s] + 1, p), Broadcast(s, <<m>>),
         sequence' = [sequence EXCEPT ![s] = @ + 1],
         kvmap' = [kvmap EXCEPT ![s] = Store(@, p)],
         s \in joined \/ p.del \/ kvmap[s][p.u] = "none"
  PROVE  Told(s, m)
  <1>1. m.n = sequence[s] + 1 /\ m.u = p.u /\ m.del = p.del
    BY DEF Message
  <1>2. p.u \in Updates /\ p.del \in BOOLEAN
    BY DEF Pendings
  <1>3. Latest(s) = sequence[s] /\ Latest(s)' = sequence[s] + 1
    BY DEF Latest, CloneTypes
  <1>4. PICK map \in Maps : /\ map = Store(kvmap[s], p)
                            /\ \A v \in Updates : kvmap[s][v] # "none" => map[v] # "none"
                            /\ \A v \in Updates : v # p.u => map[v] = kvmap[s][v]
    BY Stored
  <1>5. kvmap'[s] = map
    BY <1>4 DEF CloneTypes
  <1>6. map[p.u] = IF p.del THEN "gone" ELSE "held"
    <2>1. PICK old \in Maps : old = kvmap[s]
      BY DEF CloneTypes
    <2>2. PICK v : v = IF p.del THEN "gone" ELSE "held"
      OBVIOUS
    <2>3. map = [old EXCEPT ![p.u] = v]
      BY <1>4, <2>1, <2>2 DEF Store
    <2> QED
      BY <1>2, <2>1, <2>2, <2>3 DEF Maps
  <1>7. Made(s) = Held(kvmap[s]) /\ Made(s)' = Held(map)
    BY <1>5 DEF Made
  <1>8. \A u \in Made(s)' : IF u = m.u THEN ~m.del ELSE u \in Made(s)
    BY <1>1, <1>2, <1>4, <1>6, <1>7 DEF Held
  <1> QED
    BY <1>1, <1>2, <1>3, <1>4, <1>5, <1>8 DEF Told

\* s_collector
LEMMA CollectorReads ==
  ASSUME PairTypes, CloneTypes, CloneTypes', AgentTypes, AgentTypes', Stores, kind \in Readers,
         kind # "feed", Reading, OthersOK, NEW s \in Servers, Collector(s), ~Ends(s)
  PROVE  /\ \A r \in Servers : ReadsOK(r)'
         /\ s \in joined => missed' = missed
         /\ kind = "single" /\ s = "p" => \A u \in Updates : kvmap'["p"][u] # "none" => u \in got'["p"]
         /\ UNCHANGED <<vars, sets, asks, agentVars, replies, joined>>
  <1>0. ~(state[s] = "ACTIVE" /\ s \notin mapped) /\ Up(s)
    BY DEF Collector, Abort, Ends, Runs
  <1>1. /\ UNCHANGED <<vars, sets, asks, agentVars, replies, joined>>
        /\ UNCHANGED <<kind, state, life>>
    BY <1>0 DEF Collector, vars
  <1>2. taken \in [Servers -> Nat] /\ \A r \in Servers : ReadsOK(r)
    BY DEF Reading
  <1>3. PICK u \in Updates : u = Head(collector[s]) /\ u \notin got[s]
    BY Collected DEF Stores, OwnOK, Collector
  <1>4. PICK p \in Pendings : p = [u |-> u, del |-> FALSE] /\ p.u = u /\ p.del = FALSE
    <2>1. PICK p : p = [u |-> u, del |-> FALSE]
      OBVIOUS
    <2>2. p \in Pendings /\ p.u = u /\ p.del = FALSE
      BY <2>1 DEF Pendings
    <2> QED
      BY <2>1, <2>2
  <1>5. got'[s] = got[s] \cup {u}
    BY <1>0, <1>3 DEF Collector, CloneTypes
  <1>6. CASE state[s] = "ACTIVE"
    <2>1. PICK m \in Messages : m = Message(s, sequence[s] + 1, p) /\ m.u = u
      BY <1>4, NextMessage
    <2>2. /\ sequence' = [sequence EXCEPT ![s] = @ + 1]
          /\ kvmap' = [kvmap EXCEPT ![s] = Store(@, p)]
          /\ Broadcast(s, <<m>>)
      BY <1>0, <1>3, <1>4, <1>6, <2>1 DEF Collector, Publish
    <2>3. s \in joined \/ kvmap[s][u] = "none"
      <3>1. CASE kind = "reader"
        BY <1>0, <3>1 DEF Reading, HearsAll
      <3>2. CASE kind \in Singles
        <4>1. s = "p"
          BY <1>0, <3>2, SingleState, PeerFacts DEF Up
        <4> QED
          BY <1>3, <3>2, <4>1 DEF Reading, OneReply
      <3> QED
        BY <3>1, <3>2 DEF Readers
    <2>4. Told(s, m)
      BY <1>1, <1>4, <2>1, <2>2, <2>3, StoreTold
    <2>5. ReadsOK(s)'
      BY <1>0, <1>1, <1>2, <2>4, ToldReads
    <2>6. ASSUME NEW r \in Servers, r # s PROVE ReadsOK(r)'
      <3>1. Apart(r)
        BY <1>1, <2>2, <2>6, OthersApart DEF CloneTypes
      <3> QED
        BY <1>1, <1>2, <3>1, ApartReads
    <2>7. s \in joined => missed' = missed
      BY <2>2 DEF Broadcast
    <2>8. ASSUME kind = "single", s = "p", NEW v \in Updates, kvmap'["p"][v] # "none"
          PROVE  v \in got'["p"]
      <3>1. OneReply
        BY DEF Reading
      <3>2. v = u \/ kvmap'["p"][v] = kvmap["p"][v]
        <4>1. PICK map \in Maps : /\ map = Store(kvmap[s], p)
                                  /\ \A w \in Updates : w # p.u => map[w] = kvmap[s][w]
          BY Stored
        <4>2. kvmap'["p"] = map
          BY <2>2, <2>8, <4>1 DEF CloneTypes
        <4> QED
          BY <1>4, <2>8, <4>1, <4>2
      <3> QED
        BY <1>5, <2>8, <3>1, <3>2 DEF OneReply, Singles
    <2> QED
      BY <1>1, <2>5, <2>6, <2>7, <2>8
  <1>7. CASE state[s] # "ACTIVE"
    <2>1. UNCHANGED <<sequence, kvmap, news>>
      BY <1>0, <1>7 DEF Collector
    <2>2. ASSUME NEW r \in Servers PROVE ReadsOK(r)'
      <3>1. Apart(r)
        BY <1>1, <2>1 DEF Apart, Hushed, Made, Latest, news
      <3> QED
        BY <1>1, <1>2, <3>1, ApartReads
    <2>3. kind = "single" /\ s = "p" => \A v \in Updates : kvmap'["p"][v] # "none" => v \in got'["p"]
      BY <1>5, <2>1 DEF Reading, OneReply, Singles
    <2> QED
      BY <1>1, <2>1, <2>2, <2>3 DEF news
  <1> QED
    BY <1>6, <1>7

\* s_flush_ttl
LEMMA FlushReads ==
  ASSUME PairTypes, CloneTypes, CloneTypes', AgentTypes, AgentTypes', Stores, kind \in Readers,
         kind # "feed", Reading, NEW s \in Servers, FlushTtl(s)
  PROVE  /\ \A r \in Servers : ReadsOK(r)'
         /\ s \in joined => missed' = missed
         /\ kind = "single" /\ s = "p" => \A u \in Updates : kvmap'["p"][u] # "none" => u \in got'["p"]
         /\ UNCHANGED <<vars, sets, asks, agentVars, replies, joined>>
  <1>1. PICK u \in Updates :
          /\ kvmap[s][u] = "held" /\ Runs(s)
          /\ sequence' = [sequence EXCEPT ![s] = @ + 1]
          /\ Publish(s, <<Message(s, sequence[s] + 1, [u |-> u, del |-> TRUE])>>)
          /\ kvmap' = [kvmap EXCEPT ![s] = Store(@, [u |-> u, del |-> TRUE])]
          /\ UNCHANGED <<vars, sets, asks, agentVars, replies, joined, got>>
    BY DEF FlushTtl, Held
  <1>2. taken \in [Servers -> Nat] /\ (\A r \in Servers : ReadsOK(r)) /\ Up(s)
        /\ UNCHANGED <<kind, state, life>>
    BY <1>1 DEF Reading, Runs, vars
  <1>3. PICK p \in Pendings : p = [u |-> u, del |-> TRUE] /\ p.u = u /\ p.del = TRUE
    <2>1. PICK p : p = [u |-> u, del |-> TRUE]
      OBVIOUS
    <2>2. p \in Pendings /\ p.u = u /\ p.del = TRUE
      BY <2>1 DEF Pendings
    <2> QED
      BY <2>1, <2>2
  <1>4. PICK m \in Messages : m = Message(s, sequence[s] + 1, p) /\ m.u = u
    BY <1>3, NextMessage
  <1>5. Broadcast(s, <<m>>)
    BY <1>1, <1>3, <1>4 DEF Publish
  <1>6. Told(s, m)
    BY <1>1, <1>2, <1>3, <1>4, <1>5, StoreTold
  <1>7. ReadsOK(s)'
    BY <1>1, <1>2, <1>6, ToldReads
  <1>8. ASSUME NEW r \in Servers, r # s PROVE ReadsOK(r)'
    <2>1. Apart(r)
      BY <1>1, <1>2, <1>5, <1>8, OthersApart DEF CloneTypes
    <2> QED
      BY <1>1, <1>2, <2>1, ApartReads
  <1>9. s \in joined => missed' = missed
    BY <1>5 DEF Broadcast
  <1>10. ASSUME kind = "single", s = "p", NEW v \in Updates, kvmap'["p"][v] # "none"
         PROVE  v \in got'["p"]
    <2>1. OneReply
      BY DEF Reading
    <2>2. kvmap["p"][v] # "none"
      <3>1. PICK map \in Maps : /\ map = Store(kvmap[s], p)
                                /\ \A w \in Updates : w # p.u => map[w] = kvmap[s][w]
        BY Stored
      <3>2. kvmap'["p"] = map
        BY <1>1, <1>3, <1>10, <3>1 DEF CloneTypes
      <3> QED
        BY <1>1, <1>3, <1>10, <3>1, <3>2
    <2> QED
      BY <1>1, <1>10, <2>1, <2>2 DEF OneReply, Singles
  <1> QED
    BY <1>1, <1>7, <1>8, <1>9, <1>10

\* The process of a server ends.
LEMMA EndsReads ==
  ASSUME PairTypes, CloneTypes, AgentTypes, NEW s \in Servers, kind' = kind, Ends(s),
         \A r \in Servers : ReadsOK(r)
  PROVE  /\ \A r \in Servers : ReadsOK(r)' /\ (Up(r)' => Up(r) /\ r # s)
         /\ joined' = joined \ {s} /\ \A r \in Servers : r # s => missed'[r] = missed[r]
  <1>1. state' = [state EXCEPT ![s] = "down"] /\ Gone(s) /\ UNCHANGED <<life, agentVars>>
    BY DEF Ends, Die
  <1>2. ~Up(s)'
    BY <1>1 DEF PairTypes, Up
  <1>3. ASSUME NEW r \in Servers, r # s
        PROVE  Apart(r) /\ replies'[r] = replies[r] /\ (Up(r)' <=> Up(r)) /\ missed'[r] = missed[r]
    <2>1. /\ state'[r] = state[r] /\ kvmap'[r] = kvmap[r] /\ sequence'[r] = sequence[r]
          /\ missed'[r] = missed[r] /\ UNCHANGED <<sets, afeed, replies>>
      BY <1>1, <1>3 DEF Gone, PairTypes, CloneTypes, AgentTypes
    <2> QED
      BY <2>1 DEF Apart, Hushed, Made, Latest, Up
  <1>4. ASSUME NEW r \in Servers PROVE ReadsOK(r)'
    BY <1>1, <1>2, <1>3, DownReads, ApartReads
  <1> QED
    BY <1>1, <1>2, <1>3, <1>4 DEF Gone

\* s_subscriber: a passive server that its peer tells of an update serves nobody.
LEMMA SubscriberReads ==
  ASSUME PairTypes, CloneTypes, CloneTypes', AgentTypes, AgentTypes', Stores, kind = "reader", kind' = kind,
         NEW s \in Servers, SnapshotArrives(s) \/ Subscriber(s),
         taken \in [Servers -> Nat], \A r \in Servers : ReadsOK(r)
  PROVE  /\ \A r \in Servers : ReadsOK(r)'
         /\ UNCHANGED <<state, life, agentVars, joined, missed>>
  <1>1. PICK map \in Maps, n \in Nat, L \in Nat : GoesOn(s, Peer(s), map, n, L)
    BY SubscriberCases
  <1>2. /\ Subscribe(s, map, n, L) /\ feed[s] # <<>> /\ state[s] = "PASSIVE"
        /\ UNCHANGED <<state, life>> /\ n >= sequence[s]
    BY <1>1 DEF GoesOn
  <1>3. PICK m, fresh : m = Head(feed[s]) /\ fresh = (m.u # 0 /\ m.n > n)
    OBVIOUS
  <1>4. m.n \in Nat
    <2>1. PICK f \in Seq(Messages) : f = feed[s]
      BY DEF CloneTypes
    <2>2. m \in Messages
      BY <1>2, <1>3, <2>1
    <2> QED
      BY <2>2 DEF Messages
  <1>5. /\ sequence' = [sequence EXCEPT ![s] = IF fresh THEN m.n ELSE n]
        /\ \A r \in Servers : r # s => kvmap'[r] = kvmap[r]
        /\ UNCHANGED <<sets, agentVars, sockVars>>
    BY <1>2, <1>3 DEF Subscribe, CloneTypes
  <1>6. UNCHANGED <<afeed, missed, joined, replies>>
    BY <1>5 DEF sockVars, news
  <1>7. Latest(s) = sequence[s] /\ Latest(s)' = sequence'[s] /\ sequence'[s] >= sequence[s]
    <2>1. sequence[s] \in Nat /\ sequence'[s] = IF fresh THEN m.n ELSE n
      BY <1>5 DEF CloneTypes
    <2>2. sequence'[s] >= sequence[s]
      <3>1. PICK k \in Nat : k = sequence[s]
        BY <2>1
      <3>2. CASE fresh
        <4>1. m.n > n /\ n >= k /\ sequence'[s] = m.n
          BY <1>2, <1>3, <2>1, <3>1, <3>2
        <4> QED
          BY <1>4, <3>1, <4>1
      <3>3. CASE ~fresh
        BY <1>2, <2>1, <3>1, <3>3
      <3> QED
        BY <3>2, <3>3
    <2> QED
      BY <2>2 DEF Latest
  <1>8. ReadsOK(s)'
    <2>1. NumbersOK(s) /\ (Up(s)' => Up(s)) /\ taken'[s] = taken[s] /\ afeed'[s] = afeed[s]
      BY <1>2, <1>5, <1>6 DEF ReadsOK, Up, agentVars
    <2>2. NumbersOK(s)'
      BY <1>7, <2>1, NumbersStay
    <2>3. Up(s)
      BY <1>2 DEF Up
    <2> QED
      BY <1>2, <1>5, <1>6, <2>2, <2>3, FirstReads
  <1>9. ASSUME NEW r \in Servers, r # s PROVE ReadsOK(r)'
    <2>1. sequence'[r] = sequence[r] /\ kvmap'[r] = kvmap[r]
      BY <1>5, <1>9 DEF CloneTypes
    <2>2. Apart(r)
      BY <1>2, <1>5, <1>6, <2>1 DEF Apart, Hushed, Made, Latest
    <2> QED
      BY <1>2, <1>5, <1>6, <2>2, ApartReads
  <1> QED
    BY <1>2, <1>5, <1>6, <1>8, <1>9

-----------------------------------------------------------------------------
(* The steps of the client                                                 *)

\* It asks for a snapshot.
LEMMA AskReads ==
  ASSUME NEW s \in Servers, Ask(s), NEW r \in Servers, ReadsOK(r)
  PROVE  ReadsOK(r)'
  <1>1. /\ UNCHANGED <<kind, state, life, kvmap, sequence, sets, afeed, missed, replies, taken>>
        /\ mode' = "SYNCING"
    BY DEF Ask, vars, storeVars, sockVars, news
  <1>2. Made(r)' = Made(r) /\ Latest(r)' = Latest(r) /\ (Up(r)' <=> Up(r))
    BY <1>1 DEF Made, Latest, Up
  <1>3. NumbersOK(r)'
    BY <1>1, <1>2 DEF ReadsOK, NumbersOK
  <1>4. RepliesOK(r)'
    BY <1>1, <1>2 DEF ReadsOK, RepliesOK, ShotOK, Serves, Unknown
  <1> QED
    BY <1>1, <1>3, <1>4 DEF ReadsOK, AgentMapOK

\* It takes a snapshot, which is its map from now on.
LEMMA SnapshotReads ==
  ASSUME CloneTypes, AgentTypes, AgentSnapshot, NEW s, s = at, kind \in Readers,
         Reading, OthersOK
  PROVE  /\ \A r \in Servers : ReadsOK(r)'
         /\ UNCHANGED <<vars, storeVars, netVars, afeed, joined, taken>>
         /\ \E list \in Seq(Shots) :
              /\ list = replies[s] /\ list # <<>> /\ replies' = [replies EXCEPT ![s] = Tail(list)]
         /\ at' = at /\ mode = "SYNCING" /\ mode' = "ACTIVE"
         /\ \A r \in Servers : missed'[r] \subseteq missed[r]
  <1>0. s \in Servers /\ mode = "SYNCING"
    BY DEF AgentTypes, AgentSnapshot
  <1>1. PICK list \in Seq(Shots) : list = replies[s] /\ list # <<>>
    BY <1>0 DEF AgentTypes, AgentSnapshot
  <1>2. PICK shot \in Shots, rest \in Seq(Shots) : shot = Head(list) /\ rest = Tail(list)
    <2>1. PICK shot, rest : shot = Head(list) /\ rest = Tail(list)
      OBVIOUS
    <2>2. shot \in Shots /\ rest \in Seq(Shots)
      BY <1>1, <2>1
    <2> QED
      BY <2>1, <2>2
  <1>3. PICK map \in Maps, n \in Nat : map = shot.kv /\ n = shot.n
    BY DEF Shots
  <1>4. /\ akvmap' = [u \in Updates |-> IF u \in Held(map) THEN "held" ELSE akvmap[u]]
        /\ asequence' = n /\ alife' = IF n < taken[s] THEN 0 ELSE shot.life
        /\ missed' = [missed EXCEPT ![s] = {u \in missed[s] : map[u] = "none"}]
        /\ replies' = [replies EXCEPT ![s] = rest]
        /\ mode' = "ACTIVE" /\ at' = at
        /\ UNCHANGED <<vars, storeVars, netVars, taken, afeed, joined>>
    BY <1>1, <1>2, <1>3 DEF AgentSnapshot, AgentTypes
  <1>5. UNCHANGED <<kind, state, life, kvmap, sequence, sets>>
    BY <1>4 DEF vars, storeVars, netVars
  <1>6. \A r \in Servers : /\ Made(r)' = Made(r) /\ Latest(r)' = Latest(r) /\ (Up(r)' <=> Up(r))
                           /\ ReadsOK(r)
    BY <1>5 DEF Made, Latest, Up, Reading
  <1>7. ASSUME NEW r \in Servers PROVE NumbersOK(r)'
    BY <1>4, <1>6 DEF ReadsOK, NumbersOK
  <1>8. missed'[s] = Unknown(s, map) /\ missed'[s] \subseteq missed[s]
        /\ \A r \in Servers : r # s => missed'[r] = missed[r] /\ replies'[r] = replies[r]
    BY <1>0, <1>4 DEF AgentTypes, Unknown
  <1>9. ASSUME NEW r \in Servers, r # s PROVE RepliesOK(r)' /\ AgentMapOK(r)'
    <2>1. RepliesOK(r)'
      <3>1. RepliesOK(r)
        BY <1>6 DEF ReadsOK
      <3>2. /\ replies'[r] = replies[r] /\ missed'[r] = missed[r] /\ Made(r)' = Made(r)
            /\ Latest(r)' = Latest(r) /\ (Up(r)' <=> Up(r))
            /\ UNCHANGED <<state, kvmap, taken, afeed>>
        BY <1>4, <1>5, <1>6, <1>8, <1>9
      <3>3. ASSUME NEW m, NEW k, ShotOK(r, m, k) PROVE ShotOK(r, m, k)'
        BY <3>2, <3>3 DEF ShotOK, Serves, Unknown
      <3> SUFFICES ASSUME Up(r)', NEW i \in 1 .. Len(replies'[r])
                   PROVE  ShotOK(r, replies[r][i].kv, replies[r][i].n)'
        BY DEF RepliesOK
      <3>4. PICK m, k : m = replies[r][i].kv /\ k = replies[r][i].n
        OBVIOUS
      <3>5. ShotOK(r, m, k)
        BY <3>1, <3>2, <3>4 DEF RepliesOK
      <3>6. ShotOK(r, m, k)'
        BY <3>3, <3>5
      <3> QED
        BY <3>2, <3>4, <3>6 DEF ShotOK, Serves, Unknown
    <2> QED
      BY <1>4, <1>9, <2>1 DEF AgentMapOK
  <1>10. Len(list) >= 1 /\ list[1] = shot /\ Len(rest) = Len(list) - 1
         /\ \A i \in 1 .. Len(rest) : rest[i] = list[i + 1] /\ i + 1 \in 1 .. Len(list)
    BY <1>1, <1>2
  <1>11. RepliesOK(s)'
    <2>1. CASE kind = "reader"
      <3>1. Up(s) => missed[s] = {}
        BY <1>0, <2>1 DEF Reading, HearsAll
      <3>2. ASSUME NEW m \in Maps, NEW k \in Nat, Up(s), ShotOK(s, m, k) PROVE ShotOK(s, m, k)'
        <4>1. Unknown(s, m) = Unknown(s, m)'
          BY <1>8, <3>1, <3>2 DEF Unknown
        <4> QED
          BY <1>0, <1>4, <1>5, <1>6, <3>2, <4>1 DEF ShotOK, Serves
      <3>3. ASSUME Up(s), NEW i \in 1 .. Len(replies'[s]) PROVE ShotOK(s, replies[s][i].kv, replies[s][i].n)'
        <4>1. replies'[s] = rest
          BY <1>0, <1>4 DEF AgentTypes
        <4>2. rest[i] = list[i + 1] /\ i + 1 \in 1 .. Len(list) /\ list[i + 1] \in Shots
          BY <1>10, <3>3, <4>1
        <4>3. PICK m \in Maps, k \in Nat : m = rest[i].kv /\ k = rest[i].n
          BY <4>2 DEF Shots
        <4>4. ShotOK(s, m, k)
          BY <1>0, <1>1, <1>6, <3>3, <4>2, <4>3 DEF ReadsOK, RepliesOK
        <4>5. ShotOK(s, m, k)'
          BY <3>2, <3>3, <4>4
        <4> QED
          BY <4>1, <4>3, <4>5 DEF ShotOK, Serves, Unknown
      <3> QED
        BY <1>0, <1>6, <3>3 DEF RepliesOK
    <2>2. CASE kind \in Singles
      <3>1. Len(rest) = 0
        <4>1. at = "p" /\ Len(replies["p"]) <= 1
          BY <2>2 DEF Reading, OneReply
        <4>2. Len(list) <= 1
          BY <1>1, <4>1
        <4> QED
          BY <1>10, <4>2
      <3>2. replies'[s] = rest
        BY <1>0, <1>4 DEF AgentTypes
      <3> QED
        BY <3>1, <3>2 DEF RepliesOK
    <2> QED
      BY <2>1, <2>2 DEF Readers
  <1>12. AgentMapOK(s)'
    <2> SUFFICES ASSUME Up(s), alife' = life[s]
                 PROVE  Serves(s, akvmap, asequence, missed[s])'
      BY <1>0, <1>5, <1>6 DEF AgentMapOK
    <2>1. life[s] = 1 /\ taken[s] \in Nat
      BY <1>0 DEF Reading
    <2>2. n >= taken[s]
      <3>1. alife' = 1
        BY <2>1
      <3>2. ~(n < taken[s])
        BY <1>4, <3>1
      <3> QED
        BY <2>1, <3>2
    <2>3. 1 \in 1 .. Len(list)
      BY <1>10
    <2>4. ShotOK(s, list[1].kv, list[1].n)
      BY <1>0, <1>1, <1>6, <2>3 DEF ReadsOK, RepliesOK
    <2>5. Serves(s, map, n, Unknown(s, map))
      BY <1>3, <1>10, <2>2, <2>4 DEF ShotOK
    <2>6. PICK H, more, f : H = Made(s) \ Unknown(s, map) /\ more = akvmap' /\ f = afeed[s]
      OBVIOUS
    <2>7. Covers(H, map, n, f) /\ H \subseteq Updates
      BY <1>0, <2>5, <2>6, LatestIsNat DEF Serves
    <2>8. \A u \in H : map[u] = "held" => more[u] = "held"
      BY <1>4, <2>6, <2>7 DEF Held
    <2>9. Covers(H, more, n, f)
      BY <2>7, <2>8, CoversLess
    <2> QED
      BY <1>0, <1>4, <1>5, <1>6, <1>8, <2>5, <2>6, <2>9 DEF Serves
  <1>13. ASSUME NEW r \in Servers PROVE ReadsOK(r)' /\ missed'[r] \subseteq missed[r]
    <2>1. CASE r = s
      BY <1>7, <1>8, <1>11, <1>12, <2>1 DEF ReadsOK
    <2>2. CASE r # s
      BY <1>7, <1>8, <1>9, <2>2 DEF ReadsOK
    <2> QED
      BY <2>1, <2>2
  <1> QED
    BY <1>0, <1>1, <1>2, <1>4, <1>13

\* The next update of a server, and those behind it.
LEMMA NextUpdate ==
  ASSUME AgentTypes, NEW s \in Servers, NumbersOK(s), Up(s), afeed[s] # <<>>, taken \in [Servers -> Nat]
  PROVE  \E f \in Seq(Messages), rest \in Seq(Messages), m \in Messages :
           /\ f = afeed[s] /\ f # <<>> /\ m = Head(f) /\ rest = Tail(f)
           /\ m.u # 0 /\ m.n > taken[s] /\ m.n <= Latest(s)
           /\ \A i \in 2 .. Len(f) : f[i].n > m.n
           /\ Len(rest) = Len(f) - 1 /\ Len(f) >= 1
           /\ \A i \in 1 .. Len(rest) : rest[i] = f[i + 1] /\ i + 1 \in 2 .. Len(f)
  <1>1. PICK f \in Seq(Messages) : f = afeed[s] /\ f # <<>>
    BY DEF AgentTypes
  <1>2. PICK m \in Messages, rest \in Seq(Messages) : m = Head(f) /\ rest = Tail(f)
    <2>1. PICK m, rest : m = Head(f) /\ rest = Tail(f)
      OBVIOUS
    <2>2. m \in Messages /\ rest \in Seq(Messages)
      BY <1>1, <2>1
    <2> QED
      BY <2>1, <2>2
  <1>3. /\ Len(f) >= 1 /\ f[1] = m /\ Len(rest) = Len(f) - 1
        /\ \A i \in 1 .. Len(rest) : rest[i] = f[i + 1] /\ i + 1 \in 2 .. Len(f)
    BY <1>1, <1>2
  <1>4. \A i \in 1 .. Len(f) : f[i].n \in Nat
    <2>1. \A i \in 1 .. Len(f) : f[i] \in Messages
      OBVIOUS
    <2> QED
      BY <2>1 DEF Messages
  <1>5. /\ \A i \in 1 .. Len(f) : f[i].u # 0 /\ taken[s] < f[i].n /\ f[i].n <= Latest(s)
        /\ \A i, j \in 1 .. Len(f) : i < j => f[i].n < f[j].n
    BY <1>1 DEF NumbersOK
  <1>6. 1 \in 1 .. Len(f) /\ \A i \in 2 .. Len(f) : i \in 1 .. Len(f) /\ 1 < i
    BY <1>3
  <1>7. m.u # 0 /\ m.n > taken[s] /\ m.n <= Latest(s)
    BY <1>3, <1>4, <1>5, <1>6
  <1>8. \A i \in 2 .. Len(f) : f[i].n > m.n
    BY <1>3, <1>4, <1>5, <1>6
  <1> QED
    BY <1>1, <1>2, <1>3, <1>7, <1>8

\* It takes an update, or drops it.
LEMMA UpdateReads ==
  ASSUME CloneTypes, AgentTypes, AgentUpdate, NEW s, s = at, Reading
  PROVE  /\ \A r \in Servers : ReadsOK(r)'
         /\ UNCHANGED <<vars, storeVars, netVars, replies, joined, missed, mode, at>> /\ mode = "ACTIVE"
         /\ taken' \in [Servers -> Nat]
         /\ afeed[s] # <<>> /\ afeed' = [afeed EXCEPT ![s] = Tail(@)]
  <1>0. s \in Servers /\ mode = "ACTIVE" /\ afeed[s] # <<>> /\ taken \in [Servers -> Nat]
    BY DEF AgentTypes, AgentUpdate, Reading
  <1>1. PICK m : m = Head(afeed[s])
    OBVIOUS
  <1>2. /\ taken' = [taken EXCEPT ![s] = m.n] /\ afeed' = [afeed EXCEPT ![s] = Tail(@)]
        /\ UNCHANGED <<vars, storeVars, netVars, mode, at, replies, joined, missed>>
        /\ \/ /\ m.n > asequence /\ asequence' = m.n /\ akvmap' = Store(akvmap, m)
              /\ alife' = IF m.life = alife THEN alife ELSE 0
           \/ ~(m.n > asequence) /\ UNCHANGED <<asequence, akvmap, alife>>
    BY <1>1 DEF AgentUpdate
  <1>3. UNCHANGED <<kind, state, life, kvmap, sequence, sets>>
    BY <1>2 DEF vars, storeVars, netVars
  <1>4. \A r \in Servers : /\ Made(r)' = Made(r) /\ Latest(r)' = Latest(r) /\ (Up(r)' <=> Up(r))
                           /\ ReadsOK(r)
    BY <1>3 DEF Made, Latest, Up, Reading
  <1>5. m.n \in Nat
    <2>1. PICK f \in Seq(Messages) : f = afeed[s]
      BY <1>0 DEF AgentTypes
    <2>2. m \in Messages
      BY <1>0, <1>1, <2>1
    <2> QED
      BY <2>2 DEF Messages
  <1>6. taken' \in [Servers -> Nat]
    BY <1>0, <1>2, <1>5
  <1>7. ASSUME NEW r \in Servers, r # s PROVE ReadsOK(r)'
    <2>1. taken'[r] = taken[r] /\ afeed'[r] = afeed[r]
      BY <1>0, <1>2, <1>7 DEF AgentTypes
    <2>2. NumbersOK(r)' /\ RepliesOK(r)'
      BY <1>2, <1>3, <1>4, <2>1 DEF ReadsOK, NumbersOK, RepliesOK, ShotOK, Serves, Unknown
    <2> QED
      BY <1>2, <1>7, <2>2 DEF ReadsOK, AgentMapOK
  <1>8. CASE ~Up(s)
    BY <1>0, <1>2, <1>4, <1>6, <1>7, <1>8, DownReads
  <1>9. CASE Up(s)
    <2>1. NumbersOK(s)
      BY <1>0, <1>4 DEF ReadsOK
    <2>2. PICK f \in Seq(Messages), rest \in Seq(Messages), e \in Messages :
            /\ f = afeed[s] /\ f # <<>> /\ e = Head(f) /\ rest = Tail(f)
            /\ e.u # 0 /\ e.n > taken[s] /\ e.n <= Latest(s)
            /\ \A i \in 2 .. Len(f) : f[i].n > e.n
            /\ Len(rest) = Len(f) - 1 /\ Len(f) >= 1
            /\ \A i \in 1 .. Len(rest) : rest[i] = f[i + 1] /\ i + 1 \in 2 .. Len(f)
      BY <1>0, <1>9, <2>1, NextUpdate
    <2>3. m = e /\ afeed'[s] = rest /\ taken'[s] = m.n /\ taken[s] \in Nat
      BY <1>0, <1>1, <1>2, <2>2 DEF AgentTypes
    <2>4. NumbersOK(s)'
      <3>1. \A i \in 1 .. Len(f) : f[i].u # 0 /\ f[i].n <= Latest(s)
        BY <1>9, <2>1, <2>2 DEF NumbersOK
      <3>2. \A i \in 1 .. Len(rest) : /\ rest[i].u # 0 /\ m.n < rest[i].n /\ rest[i].n <= Latest(s)
        BY <2>2, <2>3, <3>1
      <3>3. ASSUME NEW i \in 1 .. Len(rest), NEW j \in 1 .. Len(rest), i < j
            PROVE  rest[i].n < rest[j].n
        <4>1. rest[i] = f[i + 1] /\ rest[j] = f[j + 1] /\ i + 1 \in 1 .. Len(f) /\ j + 1 \in 1 .. Len(f)
              /\ i + 1 < j + 1
          BY <2>2, <3>3
        <4> QED
          BY <1>9, <2>1, <2>2, <4>1 DEF NumbersOK
      <3> QED
        BY <1>0, <1>4, <2>2, <2>3, <3>2, <3>3 DEF NumbersOK
    <2>5. PICK H \in SUBSET Updates : H = Made(s)
      BY <1>0, LatestIsNat
    <2>6. ASSUME NEW map \in Maps, NEW n \in Nat, NEW M, Covers(H \ M, map, n, f)
          PROVE  IF m.n > n THEN Covers(H \ M, Store(map, m), m.n, rest)
                 ELSE Covers(H \ M, map, n, rest)
      <3>1. PICK fresh : fresh = (m.u # 0 /\ m.n > n)
        OBVIOUS
      <3>2. Covers(H \ M, IF fresh THEN Store(map, m) ELSE map, IF fresh THEN m.n ELSE n, rest)
        <4>1. fresh => \A u \in H \ M, i \in 2 .. Len(f) : f[i].u = u => f[i].n > m.n
          BY <2>2, <2>3
        <4>2. 0 \notin Updates /\ H \ M \in SUBSET Updates
          BY UpdatesAreNumbers, CloneAssumption
        <4> QED
          BY <2>2, <2>3, <2>6, <3>1, <4>1, <4>2, CoversTake
      <3> QED
        BY <2>2, <2>3, <3>1, <3>2
    <2>7. RepliesOK(s)'
      <3>1. ASSUME NEW map \in Maps, NEW n \in Nat, ShotOK(s, map, n) PROVE ShotOK(s, map, n)'
        <4>1. ASSUME n >= m.n PROVE Covers(H \ Unknown(s, map), map, n, rest)
          <5>1. n >= taken[s] /\ ~(m.n > n)
            BY <1>5, <2>2, <2>3, <4>1
          <5>2. Serves(s, map, n, Unknown(s, map))
            BY <3>1, <5>1 DEF ShotOK
          <5>3. PICK M : M = Unknown(s, map)
            OBVIOUS
          <5>4. Covers(H \ M, map, n, f)
            BY <2>2, <2>5, <5>2, <5>3 DEF Serves
          <5> QED
            BY <2>6, <5>1, <5>3, <5>4
        <4> QED
          BY <1>0, <1>2, <1>3, <1>4, <2>3, <2>5, <3>1, <4>1 DEF ShotOK, Serves, Unknown
      <3>2. \A i \in 1 .. Len(replies'[s]) : \E j \in 1 .. Len(replies[s]) : replies'[s][i] = replies[s][j]
        BY <1>2
      <3> QED
        BY <1>0, <1>4, <3>1, <3>2, ShotsOn DEF ReadsOK
    <2>8. AgentMapOK(s)'
      <3> SUFFICES ASSUME alife' = life[s] PROVE Serves(s, akvmap, asequence, missed[s])'
        BY <1>3 DEF AgentMapOK
      <3>1. alife = life[s]
        BY <1>0, <1>2 DEF Reading
      <3>2. Serves(s, akvmap, asequence, missed[s])
        BY <1>0, <1>4, <1>9, <3>1 DEF ReadsOK, AgentMapOK
      <3>3. akvmap \in Maps /\ asequence \in Nat
        BY DEF AgentTypes
      <3>4. PICK M : M = missed[s]
        OBVIOUS
      <3>5. Covers(H \ M, akvmap, asequence, f)
        BY <2>2, <2>5, <3>2, <3>4 DEF Serves
      <3>6. IF m.n > asequence THEN Covers(H \ M, Store(akvmap, m), m.n, rest)
            ELSE Covers(H \ M, akvmap, asequence, rest)
        BY <2>6, <3>3, <3>5
      <3>7. Covers(H \ M, akvmap', asequence', rest)
        BY <1>2, <3>6
      <3>8. asequence' <= Latest(s)
        BY <1>2, <2>2, <2>3, <3>2 DEF Serves
      <3> QED
        BY <1>0, <1>2, <1>3, <1>4, <2>3, <2>5, <3>2, <3>4, <3>7, <3>8 DEF Serves
    <2>9. ReadsOK(s)'
      BY <2>4, <2>7, <2>8 DEF ReadsOK
    <2> QED
      BY <1>0, <1>2, <1>6, <1>7, <2>9
  <1> QED
    BY <1>8, <1>9

-----------------------------------------------------------------------------
(* The client of the pair                                                  *)

LEMMA ReaderWhole ==
  ASSUME kind = "reader", kind' = kind, Reading, life' = life, taken' \in [Servers -> Nat],
         \A r \in Servers : ReadsOK(r)',
         \A r \in Servers : Up(r)' => Up(r) /\ (r \in joined => r \in joined')
                                      /\ missed'[r] \subseteq missed[r]
  PROVE  Reading'
  <1>1. HearsAll'
    BY DEF Reading, HearsAll
  <1>2. OneReply' /\ LagOK'
    BY DEF OneReply, LagOK, Singles
  <1> QED
    BY <1>1, <1>2 DEF Reading

\* A step of which the client sees nothing.
LEMMA UnseenReads ==
  ASSUME kind = "reader", kind' = kind, Reading,
         UNCHANGED <<state, life, kvmap, sequence, replies, afeed, missed, joined, agentVars>>
  PROVE  Reading'
  <1>1. ASSUME NEW r \in Servers PROVE ReadsOK(r)'
    <2>1. Apart(r)
      BY DEF Apart, Hushed, Made, Latest
    <2> QED
      BY <2>1, ApartReads DEF Reading
  <1>2. taken' \in [Servers -> Nat]
    BY DEF Reading, agentVars
  <1> QED
    BY <1>1, <1>2, ReaderWhole DEF Up

\* A state of the peer turns the server, and publishes what was pending.
LEMMA TurnedReads ==
  ASSUME PairTypes, CloneTypes, CloneTypes', AgentTypes, AgentTypes', kind = "reader", kind' = kind,
         Reading, NEW s \in Servers, Turned(s)
  PROVE  Reading'
  <1>1. PICK event \in inbox[s] : state' = [state EXCEPT ![s] = Heard(s, event)]
    BY DEF Turned
  <1>2. PICK new : new = Heard(s, event)
    OBVIOUS
  <1>3. /\ Up(s) /\ state' = [state EXCEPT ![s] = new] /\ StateHandlers(s)
        /\ UNCHANGED <<kind, sets, life, agentVars, taken, joined, replies>>
    BY <1>1, <1>2 DEF Turned, Runs, agentVars
  <1>4. state[s] \in States /\ state'[s] = new
    BY <1>3 DEF Up, PairTypes
  <1>5. new \in {state[s], "ACTIVE"} \/ (new = "PASSIVE" /\ state[s] \in {"PRIMARY", "BACKUP"})
    <2>1. state[s] \in States
      BY <1>4
    <2> QED
      BY <1>2, <2>1, Moved DEF Heard
  <1>6. taken \in [Servers -> Nat] /\ \A r \in Servers : ReadsOK(r)
    BY DEF Reading
  <1>7. /\ NumbersOK(s)'
        /\ \A r \in Servers : r # s \/ state' = state => Apart(r)
        /\ s \in joined \/ state' = state => missed' = missed
    BY <1>3, <1>6, HandlersRead DEF ReadsOK
  <1>8. ASSUME NEW r \in Servers, r # s \/ state' = state PROVE ReadsOK(r)'
    BY <1>3, <1>6, <1>7, <1>8, ApartReads
  <1>9. state' = state \/ ReadsOK(s)'
    <2>1. CASE new = state[s]
      BY <1>3, <2>1 DEF PairTypes
    <2>2. CASE new # state[s]
      <3>1. state[s] # "ACTIVE"
        BY <1>5, <2>2
      <3> QED
        BY <1>3, <1>6, <1>7, <3>1, FirstReads
    <2> QED
      BY <2>1, <2>2
  <1>10. missed' = missed
    BY <1>3, <1>7 DEF Reading, HearsAll
  <1>11. \A r \in Servers : Up(r)' => Up(r)
    BY <1>3 DEF PairTypes, Up
  <1>12. \A r \in Servers : ReadsOK(r)'
    BY <1>8, <1>9
  <1> QED
    BY <1>3, <1>6, <1>10, <1>11, <1>12, ReaderWhole

LEMMA ServerReads ==
  ASSUME PairTypes, OneNews, CloneTypes, CloneTypes', AgentTypes, AgentTypes', Stores, OthersOK,
         kind = "reader", kind' = kind, Reading, NEW s \in Servers, ServerStep(s)
  PROVE  Reading'
  <1>0. /\ taken \in [Servers -> Nat] /\ (\A r \in Servers : ReadsOK(r))
        /\ \A r \in Servers : Up(r) => r \in joined
        /\ kind \in Readers /\ kind # "feed" /\ kind \notin Singles
    BY DEF Reading, HearsAll, Readers, Singles
  <1>1. CASE CloneSendState(s) \/ CloneExpire(s)
    <2>1. UNCHANGED <<state, life, cloneVars>>
      BY <1>1 DEF CloneSendState, CloneExpire, SendState, Expire
    <2> QED
      BY <2>1, UnseenReads DEF cloneVars, storeVars, sockVars, news
  <1>2. CASE SendHugz(s) \/ AskSnapshot(s)
    <2>1. UNCHANGED <<state, life, kvmap, sequence, agentVars, sockVars>>
      BY <1>2 DEF SendHugz, AskSnapshot, vars, storeVars
    <2> QED
      BY <2>1, UnseenReads DEF sockVars, news
  <1>3. CASE Ends(s)
    <2>1. /\ \A r \in Servers : ReadsOK(r)' /\ (Up(r)' => Up(r) /\ r # s)
          /\ joined' = joined \ {s} /\ \A r \in Servers : r # s => missed'[r] = missed[r]
      BY <1>0, <1>3, EndsReads
    <2>2. life' = life /\ taken' = taken
      BY <1>3 DEF Ends, agentVars
    <2> QED
      BY <1>0, <2>1, <2>2, ReaderWhole
  <1>4. CASE CloneCrash(s)
    BY <1>3, <1>4 DEF CloneCrash, Crash, Ends
  <1>5. CASE CloneRecvState(s)
    BY <1>3, <1>5, RecvCases, TurnedReads
  <1>6. ASSUME NEW who, Voted(s, who) PROVE Reading'
    <2>1. /\ \A r \in Servers : ReadsOK(r)'
          /\ s \in joined \/ state' = state => missed' = missed
      BY <1>0, <1>6, VotedReads
    <2>2. Up(s) /\ UNCHANGED <<life, taken, joined>> /\ \A r \in Servers : Up(r)' => Up(r)
      BY <1>6 DEF Voted, Runs, Up, PairTypes, agentVars
    <2> QED
      BY <1>0, <2>1, <2>2, ReaderWhole
  <1>7. CASE \E who \in Askers : Snapshots(s, who)
    BY <1>3, <1>6, <1>7, SnapshotCases
  <1>8. CASE (Collector(s) /\ ~Ends(s)) \/ FlushTtl(s)
    <2>1. /\ \A r \in Servers : ReadsOK(r)'
          /\ s \in joined => missed' = missed
          /\ UNCHANGED <<vars, sets, asks, agentVars, replies, joined>>
      BY <1>0, <1>8, CollectorReads, FlushReads
    <2>2. Up(s)
      BY <1>8 DEF Collector, FlushTtl, Runs
    <2>3. UNCHANGED <<state, life, taken>>
      BY <2>1 DEF vars, agentVars
    <2> QED
      BY <1>0, <2>1, <2>2, <2>3, ReaderWhole DEF Up
  <1>9. CASE SnapshotArrives(s) \/ Subscriber(s)
    <2>1. /\ \A r \in Servers : ReadsOK(r)'
          /\ UNCHANGED <<state, life, agentVars, joined, missed>>
      BY <1>0, <1>9, SubscriberReads
    <2> QED
      BY <1>0, <2>1, ReaderWhole DEF Up, agentVars
  <1>10. ~CloneRestart(s)
    BY DEF CloneRestart, Restart
  <1> QED
    BY <1>1, <1>2, <1>3, <1>4, <1>5, <1>7, <1>8, <1>9, <1>10 DEF ServerStep

LEMMA ReaderNext ==
  ASSUME PairTypes, OneNews, CloneTypes, CloneTypes', AgentTypes, AgentTypes', Stores, OthersOK,
         kind = "reader", kind' = kind, Reading,
         Set \/ AgentStep \/ \E s \in Servers : ServerStep(s)
  PROVE  Reading'
  <1>0. kind \in Readers /\ at \in Servers /\ Peer(at) \in Servers /\ taken \in [Servers -> Nat]
    BY PeerPeer DEF Readers, AgentTypes, Reading
  <1>1. CASE Set
    BY <1>1, UnseenReads DEF Set, vars, storeVars, sockVars, news
  <1>2. CASE AgentConnect \/ AgentFailover
    <2>1. PICK s \in Servers : Ask(s)
      BY <1>0, <1>2 DEF AgentConnect, AgentFailover
    <2>2. \A r \in Servers : ReadsOK(r)'
      BY <2>1, AskReads DEF Reading
    <2>3. UNCHANGED <<state, life, taken, joined, missed>>
      BY <2>1 DEF Ask, vars, sockVars, news
    <2> QED
      BY <1>0, <2>2, <2>3, ReaderWhole DEF Up
  <1>3. CASE AgentSnapshot
    <2>1. /\ \A r \in Servers : ReadsOK(r)' /\ missed'[r] \subseteq missed[r]
          /\ UNCHANGED <<vars, joined, taken>>
      BY <1>0, <1>3, SnapshotReads
    <2>2. UNCHANGED <<state, life>>
      BY <2>1 DEF vars
    <2> QED
      BY <1>0, <2>1, <2>2, ReaderWhole DEF Up
  <1>4. CASE AgentUpdate
    <2>1. /\ \A r \in Servers : ReadsOK(r)'
          /\ UNCHANGED <<vars, joined, missed>> /\ taken' \in [Servers -> Nat]
      BY <1>4, UpdateReads
    <2>2. UNCHANGED <<state, life>>
      BY <2>1 DEF vars
    <2> QED
      BY <2>1, <2>2, ReaderWhole DEF Up
  <1>5. CASE \E s \in Servers : ServerStep(s)
    BY <1>5, ServerReads
  <1> QED
    BY <1>1, <1>2, <1>3, <1>4, <1>5 DEF AgentStep

-----------------------------------------------------------------------------
(* The client of one server                                                *)

LEMMA SingleWhole ==
  ASSUME kind \in Singles, kind' = kind, PairTypes, OthersOK, Reading, UNCHANGED <<state, life>>,
         taken' \in [Servers -> Nat], ReadsOK("p")', OneReply', LagOK'
  PROVE  Reading'
  <1>1. ~Up("b")'
    BY SingleState DEF Up
  <1>2. \A r \in Servers : ReadsOK(r)'
    BY <1>1, DownReads, PeerFacts
  <1>3. HearsAll'
    BY DEF HearsAll, Singles
  <1> QED
    BY <1>2, <1>3 DEF Reading

\* The client has joined, or the server has stored: nothing that it is to read changes.
LEMMA JoinReads ==
  ASSUME kind' = kind, Reading, NEW s \in Servers, AgentJoins(s)
  PROVE  Reading'
  <1>1. /\ kind \in Singles
        /\ UNCHANGED <<vars, storeVars, netVars, agentVars, replies, news>>
    BY DEF AgentJoins
  <1>2. UNCHANGED <<state, life, kvmap, sequence, sets, collector, asks, got, afeed, missed,
                    mode, at, taken>>
    BY <1>1 DEF vars, storeVars, netVars, agentVars, news
  <1>3. \A r \in Servers : ReadsOK(r)'
    <2>1. \A r \in Servers : Apart(r)
      BY <1>2 DEF Apart, Hushed, Made, Latest
    <2> QED
      BY <1>1, <1>2, <2>1, ApartReads DEF Reading
  <1>4. OneReply' /\ LagOK'
    BY <1>1, <1>2 DEF Reading, OneReply, LagOK
  <1>5. HearsAll'
    BY <1>1 DEF HearsAll, Singles
  <1> QED
    BY <1>2, <1>3, <1>4, <1>5 DEF Reading

\* s_snapshots
LEMMA SingleSnapshots ==
  ASSUME PairTypes, CloneTypes, CloneTypes', AgentTypes, AgentTypes', OthersOK, kind \in Singles,
         kind' = kind, Reading, Snapshots("p", "agent"), state' = state
  PROVE  Reading'
  <1>0. "p" \in Servers /\ kind \in Readers /\ state["p"] = "ACTIVE" /\ OneReply /\ LagOK
    BY PeerFacts, SingleState DEF Readers, Reading
  <1>1. Voted("p", "agent")
    <2>1. ~Ends("p")
      BY <1>0 DEF Ends, Die, PairTypes
    <2> QED
      BY <1>0, <2>1, SnapshotCases
  <1>2. \A r \in Servers : ReadsOK(r)'
    <2>1. "agent" \in Askers
      BY DEF Askers
    <2> QED
      BY <1>0, <1>1, <2>1, VotedReads
  <1>3. /\ UNCHANGED <<life, sets, collector, mode, at, taken, storeVars, news>>
        /\ "agent" \in asks["p"] /\ asks' = [asks EXCEPT !["p"] = @ \ {"agent"}]
    BY <1>1 DEF Voted, StateHandlers, agentVars
  <1>4. UNCHANGED <<kvmap, sequence, got, afeed, missed>>
    BY <1>3 DEF storeVars, news
  <1>5. mode = "SYNCING" /\ replies["p"] = <<>>
    BY <1>0, <1>3 DEF OneReply
  <1>6. Len(replies'["p"]) <= 1
    <2>1. PICK shot : \/ replies' = replies
                      \/ replies' = [replies EXCEPT !["p"] = Append(@, shot)]
      BY <1>1 DEF Voted
    <2>2. replies'["p"] = <<>> \/ replies'["p"] = Append(<<>>, shot)
      BY <1>0, <1>5, <2>1 DEF AgentTypes
    <2>3. Len(Append(<<>>, shot)) = 1 /\ Len(<<>>) = 0
      OBVIOUS
    <2>4. PICK n \in Nat : n = Len(replies'["p"]) /\ (n = 0 \/ n = 1)
      BY <2>2, <2>3
    <2>5. \A k \in Nat : k = 0 \/ k = 1 => k <= 1
      OBVIOUS
    <2> QED
      BY <2>4, <2>5, Zenon
  <1>7. "agent" \notin asks'["p"] /\ "again" \notin asks'["p"]
    BY <1>0, <1>3 DEF CloneTypes, OneReply
  <1>8. OneReply'
    BY <1>0, <1>3, <1>4, <1>5, <1>6, <1>7 DEF OneReply
  <1>9. LagOK'
    BY <1>0, <1>3, <1>4 DEF LagOK
  <1> QED
    BY <1>0, <1>2, <1>3, <1>8, <1>9, SingleWhole DEF Reading

\* The client's own steps.
LEMMA SingleClient ==
  ASSUME PairTypes, CloneTypes, AgentTypes, OthersOK, kind \in Singles, kind' = kind, Reading,
         AgentConnect \/ AgentSnapshot \/ AgentUpdate
  PROVE  Reading'
  <1>0. /\ "p" \in Servers /\ at = "p" /\ kind \in Readers /\ OneReply /\ LagOK
        /\ taken \in [Servers -> Nat]
    BY PeerFacts DEF Readers, Reading, OneReply
  <1>1. CASE AgentConnect
    <2>1. mode = "INITIAL" /\ Ask("p")
      BY <1>0, <1>1 DEF AgentConnect
    <2>2. ReadsOK("p")'
      BY <1>0, <2>1, AskReads DEF Reading
    <2>3. /\ UNCHANGED <<state, life, sets, collector, taken, kvmap, sequence, got, afeed, missed,
                         replies>>
          /\ mode' = "SYNCING" /\ at' = "p"
      BY <2>1 DEF Ask, vars, storeVars, sockVars, news
    <2>4. replies["p"] = <<>> /\ "agent" \notin asks["p"] /\ "again" \notin asks["p"]
      BY <1>0, <2>1 DEF OneReply
    <2>9. "again" \notin asks'["p"]
      BY <1>0, <2>1, <2>4 DEF Ask, CloneTypes
    <2>5. OneReply'
      BY <1>0, <2>3, <2>4, <2>9 DEF OneReply
    <2>6. LagOK'
      BY <1>0, <2>1, <2>3 DEF LagOK
    <2> QED
      BY <1>0, <2>2, <2>3, <2>5, <2>6, SingleWhole
  <1>2. CASE AgentSnapshot
    <2>1. PICK list \in Seq(Shots) :
            /\ list = replies["p"] /\ list # <<>> /\ replies' = [replies EXCEPT !["p"] = Tail(list)]
      BY <1>0, <1>2, SnapshotReads
    <2>2. /\ ReadsOK("p")' /\ at' = at /\ mode = "SYNCING" /\ mode' = "ACTIVE"
          /\ UNCHANGED <<vars, storeVars, netVars, afeed, taken>>
      BY <1>0, <1>2, SnapshotReads
    <2>3. UNCHANGED <<state, life, sets, collector, asks, kvmap, sequence, got>>
      BY <2>2 DEF vars, storeVars, netVars
    <2>4. Len(list) = 1 /\ "agent" \notin asks["p"] /\ "again" \notin asks["p"]
      <3>1. Len(list) <= 1 /\ "agent" \notin asks["p"] /\ "again" \notin asks["p"]
        BY <1>0, <2>1 DEF OneReply
      <3>2. PICK n \in Nat : n = Len(list) /\ n >= 1
        BY <2>1
      <3>3. n <= 1
        BY <3>1, <3>2
      <3>4. n = 1
        BY <3>2, <3>3
      <3> QED
        BY <3>1, <3>2, <3>4
    <2>5. Tail(list) \in Seq(Shots) /\ Len(Tail(list)) = 0
      BY <2>1, <2>4
    <2>6. replies'["p"] = <<>>
      <3>1. PICK rest \in Seq(Shots) : rest = Tail(list)
        BY <2>5
      <3>2. rest = <<>>
        BY <2>5, <3>1
      <3> QED
        BY <1>0, <2>1, <3>1, <3>2 DEF AgentTypes
    <2>7. OneReply'
      BY <1>0, <2>2, <2>3, <2>4, <2>6 DEF OneReply
    <2>8. LagOK'
      BY <1>0, <2>2, <2>3 DEF LagOK
    <2> QED
      BY <1>0, <2>2, <2>3, <2>7, <2>8, SingleWhole
  <1>3. CASE AgentUpdate
    <2>1. /\ ReadsOK("p")' /\ taken' \in [Servers -> Nat]
          /\ UNCHANGED <<vars, storeVars, netVars, replies, missed, mode, at>> /\ mode = "ACTIVE"
          /\ afeed["p"] # <<>> /\ afeed' = [afeed EXCEPT !["p"] = Tail(@)]
      BY <1>0, <1>3, UpdateReads
    <2>2. UNCHANGED <<state, life, sets, collector, asks, kvmap, sequence, got>>
      BY <2>1 DEF vars, storeVars, netVars
    <2>3. OneReply'
      BY <1>0, <2>1, <2>2 DEF OneReply
    <2>4. LagOK'
      <3>1. PICK f \in Seq(Messages) : f = afeed["p"] /\ f # <<>>
        BY <1>0, <2>1 DEF AgentTypes
      <3>2. PICK rest \in Seq(Messages) : rest = Tail(f)
        <4>1. PICK rest : rest = Tail(f)
          OBVIOUS
        <4>2. rest \in Seq(Messages)
          BY <3>1, <4>1
        <4> QED
          BY <4>1, <4>2
      <3>3. afeed'["p"] = rest
        BY <1>0, <2>1, <3>1, <3>2 DEF AgentTypes
      <3>4. ASSUME NEW i \in 1 .. Len(rest) PROVE i + 1 \in 1 .. Len(f) /\ rest[i] = f[i + 1]
        BY <3>1, <3>2
      <3>5. kind = "feed" =>
              \A i \in 1 .. Len(afeed'["p"]) : afeed'["p"][i].u = afeed'["p"][i].n /\ ~afeed'["p"][i].del
        BY SMTT(40), <1>0, <3>1, <3>3, <3>4 DEF LagOK
      <3> QED
        BY <1>0, <2>1, <2>2, <3>5 DEF LagOK
    <2> QED
      BY <1>0, <2>1, <2>2, <2>3, <2>4, SingleWhole
  <1> QED
    BY <1>1, <1>2, <1>3

\* The server that collects: clonesrv5.c, and its client's updates.
LEMMA CollectingReads ==
  ASSUME PairTypes, CloneTypes, CloneTypes', AgentTypes, AgentTypes', OthersOK, Stores,
         kind = "single", kind' = kind, Reading, state' = state,
         Set \/ Collector("p") \/ FlushTtl("p")
  PROVE  Reading'
  <1>0. /\ "p" \in Servers /\ kind \in Singles /\ kind \in Readers /\ OneReply /\ kind # "feed"
        /\ taken \in [Servers -> Nat] /\ state["p"] = "ACTIVE"
    BY PeerFacts, SingleState DEF Readers, Singles, Reading
  <1>1. LagOK'
    BY <1>0 DEF LagOK
  <1>2. CASE Set
    <2>1. UNCHANGED <<state, life, kvmap, sequence, got, asks, afeed, missed, replies, agentVars>>
      BY <1>2 DEF Set, vars, storeVars, sockVars, news
    <2>2. Apart("p")
      BY <1>0, <2>1 DEF Apart, Hushed, Made, Latest
    <2>3. ReadsOK("p")'
      BY <1>0, <2>1, <2>2, ApartReads DEF Reading
    <2>4. OneReply' /\ taken' = taken
      BY <1>0, <2>1 DEF OneReply, agentVars
    <2> QED
      BY <1>0, <1>1, <2>1, <2>3, <2>4, SingleWhole
  <1>3. CASE Collector("p") \/ FlushTtl("p")
    <2>0. ~Ends("p")
      BY <1>0 DEF Ends, Die, PairTypes
    <2>1. /\ ReadsOK("p")' /\ UNCHANGED <<vars, asks, agentVars, replies>>
          /\ \A u \in Updates : kvmap'["p"][u] # "none" => u \in got'["p"]
      BY <1>0, <1>3, <2>0, CollectorReads, FlushReads
    <2>2. UNCHANGED <<state, life, mode, at, taken>>
      BY <2>1 DEF vars, agentVars
    <2>3. OneReply'
      BY <1>0, <2>1, <2>2 DEF OneReply
    <2> QED
      BY <1>0, <1>1, <2>1, <2>2, <2>3, SingleWhole
  <1> QED
    BY <1>2, <1>3

\* The server that makes its updates itself publishes one: clonesrv2.c, main.
LEMMA DistributeReads ==
  ASSUME PairTypes, CloneTypes, CloneTypes', AgentTypes, AgentTypes', OthersOK,
         kind = "feed", kind' = kind, Reading, Distribute
  PROVE  Reading'
  <1>0. /\ "p" \in Servers /\ kind \in Singles /\ kind \in Readers /\ OneReply /\ LagOK
        /\ taken \in [Servers -> Nat] /\ Up("p") /\ ReadsOK("p")
    BY PeerFacts, SingleState DEF Readers, Singles, Reading
  <1>1. PICK k \in Nat : k = sets /\ k + 1 \in Updates /\ sets' = k + 1 /\ k + 1 \in Nat
    BY CloneAssumption DEF Distribute, CloneTypes, Updates
  <1>2. PICK p \in Pendings : p = [u |-> k + 1, del |-> FALSE] /\ p.u = k + 1 /\ p.del = FALSE
    <2>1. PICK p : p = [u |-> k + 1, del |-> FALSE]
      OBVIOUS
    <2>2. p \in Pendings /\ p.u = k + 1 /\ p.del = FALSE
      BY <1>1, <2>1 DEF Pendings
    <2> QED
      BY <2>1, <2>2
  <1>3. PICK m : m = Message("p", k + 1, p)
    OBVIOUS
  <1>4. m \in Messages /\ m.n = k + 1 /\ m.u = k + 1 /\ m.del = FALSE
    <2>1. p.u \in 0 .. MaxUpdates /\ p.del \in BOOLEAN
      BY <1>1, <1>2, UpdatesAreNumbers, CloneAssumption
    <2>2. PICK n \in Nat : n = k + 1
      BY <1>1
    <2>3. m = Message("p", n, p)
      BY <1>3, <2>2
    <2>4. PICK s \in Servers : s = "p"
      BY <1>0
    <2>5. m = Message(s, n, p)
      BY <2>3, <2>4
    <2>6. m \in Messages /\ m.n = n /\ m.u = p.u /\ m.del = p.del
      BY <2>1, <2>5, MessageTyped
    <2> QED
      BY <1>2, <2>2, <2>6
  <1>5. /\ Broadcast("p", <<m>>) /\ collector' = [collector EXCEPT !["p"] = Append(@, k + 1)]
        /\ UNCHANGED <<vars, storeVars, asks, agentVars, replies, joined>>
    BY <1>1, <1>2, <1>3 DEF Distribute
  <1>6. UNCHANGED <<state, life, kvmap, sequence, got, mode, at, taken>>
    BY <1>5 DEF vars, storeVars, agentVars
  <1>7. Made("p") = 1 .. k /\ Latest("p") = k /\ Made("p")' = 1 .. k + 1 /\ Latest("p")' = k + 1
    BY <1>1 DEF Made, Latest
  <1>8. PICK n \in Nat : /\ n = sequence["p"] /\ n <= k /\ Len(collector["p"]) = k - n
                         /\ \A i \in 1 .. Len(collector["p"]) : collector["p"][i] = n + i
                         /\ \A u \in Updates : kvmap["p"][u] = IF u <= n THEN "held" ELSE "none"
    BY <1>0, <1>1 DEF LagOK, CloneTypes
  <1>9. Told("p", m)
    <2>1. \A u \in 1 .. k + 1 : IF u = m.u THEN ~m.del ELSE u \in 1 .. k
      BY <1>4
    <2>2. kvmap["p"][k + 1] = "none"
      BY <1>1, <1>8
    <2> QED
      BY <1>1, <1>4, <1>5, <1>6, <1>7, <2>1, <2>2 DEF Told
  <1>10. ReadsOK("p")'
    BY <1>0, <1>4, <1>5, <1>6, <1>9, ToldReads
  <1>11. OneReply'
    BY <1>0, <1>5, <1>6 DEF OneReply
  <1>12. LagOK'
    <2>1. PICK c \in Seq(Updates) : c = collector["p"]
      BY <1>0 DEF CloneTypes
    <2>2. PICK c2 : c2 = Append(c, k + 1)
      OBVIOUS
    <2>3. Len(c2) = Len(c) + 1 /\ c2[Len(c) + 1] = k + 1 /\ \A i \in 1 .. Len(c) : c2[i] = c[i]
      BY <2>1, <2>2
    <2>4. collector'["p"] = c2
      BY <1>0, <1>5, <2>1, <2>2 DEF CloneTypes
    <2>5. Len(c2) = (k + 1) - n /\ \A i \in 1 .. Len(c2) : c2[i] = n + i
      <3>1. Len(c) = k - n /\ \A i \in 1 .. Len(c) : c[i] = n + i
        BY <1>8, <2>1
      <3>2. ASSUME NEW i \in 1 .. Len(c2) PROVE i \in 1 .. Len(c) \/ i = Len(c) + 1
        BY <2>3
      <3> QED
        BY <2>3, <3>1, <3>2
    <2>6. PICK f \in Seq(Messages), ms \in Seq(Messages) : f = afeed["p"] /\ ms = <<m>>
      <3>1. PICK ms : ms = <<m>>
        OBVIOUS
      <3>2. ms \in Seq(Messages)
        BY <1>4, <3>1
      <3> QED
        BY <1>0, <3>1, <3>2 DEF AgentTypes
    <2>7. PICK g \in Seq(Messages) : g = f \o ms
      BY <2>6, Joined
    <2>8. /\ Len(g) = Len(f) + 1 /\ g[Len(f) + 1] = m /\ \A i \in 1 .. Len(f) : g[i] = f[i]
      <3>1. Len(ms) = 1 /\ ms[1] = m
        BY <2>6, AboutOne
      <3> QED
        BY <2>6, <2>7, <3>1
    <2>9. \/ "p" \in joined /\ afeed'["p"] = g /\ missed' = missed
          \/ afeed'["p"] = f /\ missed'["p"] = missed["p"] \cup {k + 1}
      <3>1. {q.u : q \in ToSet(<<m>>)} = {m.u}
        BY AboutOne DEF About
      <3> QED
        BY <1>0, <1>4, <1>5, <2>6, <2>7, <3>1 DEF Broadcast, AgentTypes
    <2>10. /\ \A i \in 1 .. Len(f) : f[i].u = f[i].n /\ ~f[i].del
           /\ mode # "ACTIVE" => \A u \in 1 .. k \ missed["p"] : \E i \in 1 .. Len(f) : f[i].u = u
      BY <1>0, <1>1, <2>6 DEF LagOK
    <2>11. CASE afeed'["p"] = g /\ missed' = missed
      <3>1. ASSUME NEW i \in 1 .. Len(g) PROVE g[i].u = g[i].n /\ ~g[i].del
        <4>1. i \in 1 .. Len(f) \/ i = Len(f) + 1
          BY <2>8
        <4> QED
          BY <1>4, <2>8, <2>10, <4>1
      <3>2. ASSUME mode # "ACTIVE", NEW u \in 1 .. k + 1 \ missed["p"]
            PROVE  \E i \in 1 .. Len(g) : g[i].u = u
        <4>1. CASE u = k + 1
          <5>1. Len(f) + 1 \in 1 .. Len(g)
            BY <2>8
          <5> QED
            BY <1>4, <2>8, <4>1, <5>1
        <4>2. CASE u # k + 1
          <5>1. u \in 1 .. k \ missed["p"]
            BY <4>2
          <5>2. PICK i \in 1 .. Len(f) : f[i].u = u
            BY <2>10, <3>2, <5>1
          <5> QED
            BY <2>8, <5>2
        <4> QED
          BY <4>1, <4>2
      <3> QED
        BY <1>0, <1>1, <1>6, <1>8, <2>4, <2>5, <2>11, <3>1, <3>2 DEF LagOK
    <2>12. CASE afeed'["p"] = f /\ missed'["p"] = missed["p"] \cup {k + 1}
      <3>1. ASSUME mode # "ACTIVE", NEW u \in 1 .. k + 1 \ missed'["p"]
            PROVE  \E i \in 1 .. Len(f) : f[i].u = u
        <4>1. u \in 1 .. k \ missed["p"]
          BY <2>12
        <4> QED
          BY <2>10, <3>1, <4>1
      <3> QED
        BY <1>0, <1>1, <1>6, <1>8, <2>4, <2>5, <2>10, <2>12, <3>1 DEF LagOK
    <2> QED
      BY <2>9, <2>11, <2>12
  <1> QED
    BY <1>0, <1>6, <1>10, <1>11, <1>12, SingleWhole

\* The thread with the map takes an update out of the pipe: clonesrv2.c, state_manager.
LEMMA TakesReads ==
  ASSUME PairTypes, CloneTypes, CloneTypes', AgentTypes, AgentTypes', OthersOK,
         kind = "feed", kind' = kind, Reading, Takes
  PROVE  Reading'
  <1>0. /\ "p" \in Servers /\ kind \in Singles /\ kind \in Readers /\ OneReply /\ LagOK
        /\ taken \in [Servers -> Nat] /\ ReadsOK("p")
    BY PeerFacts DEF Readers, Singles, Reading
  <1>1. PICK c \in Seq(Updates), n \in Nat, k \in Nat :
          /\ c = collector["p"] /\ c # <<>> /\ n = sequence["p"] /\ k = sets /\ n <= k
          /\ Len(c) = k - n /\ \A i \in 1 .. Len(c) : c[i] = n + i
          /\ \A u \in Updates : kvmap["p"][u] = IF u <= n THEN "held" ELSE "none"
    <2>1. PICK c, n, k : c = collector["p"] /\ n = sequence["p"] /\ k = sets
      OBVIOUS
    <2>2. k \in Nat
      BY <2>1, CloneAssumption DEF CloneTypes
    <2>3. c \in Seq(Updates) /\ n \in Nat
      BY <1>0, <2>1 DEF CloneTypes
    <2>4. /\ c # <<>> /\ n <= k /\ Len(c) = k - n /\ \A i \in 1 .. Len(c) : c[i] = n + i
          /\ \A u \in Updates : kvmap["p"][u] = IF u <= n THEN "held" ELSE "none"
      BY <1>0, <2>1 DEF LagOK, Takes
    <2> QED
      BY <2>1, <2>2, <2>3, <2>4
  <1>2. PICK rest \in Seq(Updates) : rest = Tail(c)
    <2>1. PICK rest : rest = Tail(c)
      OBVIOUS
    <2>2. rest \in Seq(Updates)
      BY <1>1, <2>1
    <2> QED
      BY <2>1, <2>2
  <1>3. /\ Head(c) = n + 1 /\ n + 1 \in Updates /\ n + 1 <= k /\ Len(rest) = k - (n + 1)
        /\ \A i \in 1 .. Len(rest) : rest[i] = (n + 1) + i
    <2>1. c # <<>> /\ rest = Tail(c)
      BY <1>1, <1>2
    <2>2. Len(c) >= 1 /\ Head(c) = c[1] /\ Head(c) \in Updates
      BY <2>1
    <2>3. Len(rest) = Len(c) - 1 /\ \A i \in 1 .. Len(rest) : rest[i] = c[i + 1]
      BY <2>1
    <2>4. Head(c) = n + 1 /\ n + 1 <= k /\ Len(rest) = k - (n + 1)
      BY <1>1, <2>2, <2>3
    <2>5. ASSUME NEW i \in 1 .. Len(rest) PROVE rest[i] = (n + 1) + i
      <3>1. PICK j \in Nat : j = i + 1
        BY <2>4
      <3>2. j \in 1 .. Len(c)
        BY <1>1, <2>4, <3>1
      <3>3. c[j] = n + j
        BY <1>1, <3>2
      <3> QED
        BY <2>3, <3>1, <3>3
    <2> QED
      BY <2>2, <2>4, <2>5
  <1>4. PICK p \in Pendings : p = [u |-> n + 1, del |-> FALSE] /\ p.u = n + 1 /\ p.del = FALSE
    <2>1. PICK p : p = [u |-> n + 1, del |-> FALSE]
      OBVIOUS
    <2>2. p \in Pendings /\ p.u = n + 1 /\ p.del = FALSE
      BY <1>3, <2>1 DEF Pendings
    <2> QED
      BY <2>1, <2>2
  <1>5. /\ kvmap' = [kvmap EXCEPT !["p"] = Store(kvmap["p"], p)]
        /\ sequence' = [sequence EXCEPT !["p"] = n + 1]
        /\ got' = [got EXCEPT !["p"] = @ \cup {n + 1}]
        /\ collector' = [collector EXCEPT !["p"] = rest]
        /\ UNCHANGED <<vars, sets, asks, agentVars, sockVars>>
    BY <1>0, <1>1, <1>2, <1>3, <1>4 DEF Takes, CloneTypes
  <1>6. UNCHANGED <<state, life, mode, at, taken, replies, afeed, missed>>
    BY <1>5 DEF vars, agentVars, sockVars, news
  <1>7. kvmap'["p"] = Store(kvmap["p"], p) /\ sequence'["p"] = n + 1 /\ collector'["p"] = rest
        /\ got'["p"] = got["p"] \cup {n + 1}
    BY <1>0, <1>5 DEF CloneTypes
  <1>8. \A u \in Updates : kvmap'["p"][u] = IF u = n + 1 THEN "held" ELSE kvmap["p"][u]
    <2>1. PICK old \in Maps : old = kvmap["p"]
      BY <1>0 DEF CloneTypes
    <2>2. PICK map : map = kvmap'["p"]
      OBVIOUS
    <2>3. map = [old EXCEPT ![n + 1] = "held"]
      BY <1>4, <1>7, <2>1, <2>2 DEF Store
    <2> QED
      BY <1>3, <2>1, <2>2, <2>3 DEF Maps
  <1>9. Hushed("p") /\ Latest("p") = k /\ Latest("p")' = k
    BY <1>0, <1>1, <1>5, <1>6 DEF Hushed, Made, Latest
  <1>10. NumbersOK("p")'
    BY <1>0, <1>6, <1>9 DEF ReadsOK, NumbersOK, Up
  <1>11. ReadsOK("p")'
    <2>1. Keeps("p") /\ Latest("p")' >= Latest("p")
      BY <1>0, <1>9, HushedKeeps
    <2>2. \A u \in Updates : kvmap["p"][u] # "none" => kvmap'["p"][u] # "none"
      BY <1>8
    <2> QED
      BY <1>0, <1>5, <1>6, <1>10, <2>1, <2>2, KeepsReads
  <1>12. OneReply'
    <2>1. \A u \in Updates : kvmap'["p"][u] # "none" => u \in got'["p"]
      BY <1>0, <1>7, <1>8 DEF OneReply
    <2> QED
      BY <1>0, <1>5, <1>6, <2>1 DEF OneReply
  <1>13. LagOK'
    <2>1. \A u \in Updates : kvmap'["p"][u] = IF u <= n + 1 THEN "held" ELSE "none"
      <3>1. \A u \in Updates : u \in Nat
        BY DEF Updates
      <3> QED
        BY <1>1, <1>8, <3>1
    <2> QED
      BY <1>0, <1>1, <1>3, <1>5, <1>6, <1>7, <2>1 DEF LagOK
  <1> QED
    BY <1>0, <1>6, <1>11, <1>12, <1>13, SingleWhole

-----------------------------------------------------------------------------
(* Every step                                                              *)

LEMMA SingleNext ==
  ASSUME PairTypes, CloneTypes, CloneTypes', AgentTypes, AgentTypes', OthersOK, Stores,
         kind' = kind, Reading,
         \/ kind = "single" /\ (Clonesrv5 \/ Clonecli5)
         \/ kind = "feed" /\ (Distribute \/ StateManager \/ Clonecli2)
  PROVE  Reading'
  <1>1. kind \in Singles /\ state' = state
    <2>1. kind \in Singles
      BY DEF Singles
    <2> QED
      BY <2>1, SingleStays DEF Clonecli5, Clonecli4
  <1>2. CASE Snapshots("p", "agent")
    BY <1>1, <1>2, SingleSnapshots
  <1>3. CASE AgentConnect \/ AgentSnapshot \/ AgentUpdate
    BY <1>1, <1>3, SingleClient
  <1>4. CASE kind = "single" /\ (Set \/ Collector("p") \/ FlushTtl("p"))
    BY <1>1, <1>4, CollectingReads
  <1>5. CASE kind = "feed" /\ Distribute
    BY <1>5, DistributeReads
  <1>6. CASE kind = "feed" /\ Takes
    BY <1>6, TakesReads
  <1> QED
    BY <1>2, <1>3, <1>4, <1>5, <1>6 DEF Clonesrv5, Clonesrv4, Snapshots5, Collector5, FlushTtl5,
      Clonecli5, Clonecli4, Clonecli2, StateManager, Takes

\* Without a client that reads there is none.
LEMMA ServerQuiet ==
  ASSUME OneNews, NEW s \in Servers, ServerStep(s)
  PROVE  UNCHANGED agentVars
  <1>1. CASE CloneSendState(s) \/ CloneExpire(s) \/ CloneCrash(s) \/ CloneRestart(s)
    BY <1>1 DEF CloneSendState, CloneExpire, CloneCrash, CloneRestart, cloneVars
  <1>2. CASE CloneRecvState(s) \/ \E who \in Askers : Snapshots(s, who)
    BY <1>2, RecvCases, SnapshotCases DEF Ends, Turned, Voted
  <1>3. CASE Collector(s)
    BY <1>3 DEF Collector, Abort
  <1>4. CASE FlushTtl(s) \/ SendHugz(s) \/ AskSnapshot(s) \/ SnapshotArrives(s) \/ Subscriber(s)
    BY <1>4 DEF FlushTtl, SendHugz, AskSnapshot, SnapshotArrives, Subscriber, Subscribe
  <1> QED
    BY <1>1, <1>2, <1>3, <1>4 DEF ServerStep

LEMMA ReadNext == StoreInv /\ StoreInv' /\ ReadInv /\ [Next]_allVars => ReadInv'
  <1> SUFFICES ASSUME StoreInv, StoreInv', ReadInv, [Next]_allVars PROVE ReadInv'
    OBVIOUS
  <1>1. /\ PairTypes /\ OneNews /\ CloneTypes /\ AgentTypes /\ OthersOK /\ Stores
        /\ CloneTypes' /\ AgentTypes'
    BY DEF StoreInv, IInv
  <1>2. kind' = kind
    BY <1>1, NewsStaysOne
  <1>3. CASE kind \notin Readers
    <2>0. kind \notin {"reader", "single", "feed"}
      BY <1>3 DEF Readers, Singles
    <2>1. UNCHANGED agentVars
      <3>1. CASE PairNext /\ UNCHANGED cloneVars
        BY <3>1 DEF cloneVars
      <3>2. CASE Set
        BY <3>2 DEF Set
      <3>3. CASE \E s \in Servers : ServerStep(s)
        BY <1>1, <3>3, ServerQuiet
      <3>4. CASE UNCHANGED allVars
        BY <3>4 DEF allVars, cloneVars
      <3> QED
        BY <2>0, <3>1, <3>2, <3>3, <3>4 DEF Next, AgentJoins, Singles
    <2> QED
      BY <1>2, <1>3, <2>1 DEF ReadInv, agentVars
  <1>4. CASE kind \in Readers
    <2> SUFFICES Reading'
      BY <1>2, <1>4 DEF ReadInv
    <2>1. Reading /\ kind \notin Pairs
      BY <1>4 DEF ReadInv, Readers, Singles, Pairs
    <2>2. CASE kind = "reader" /\ (Set \/ AgentStep \/ \E s \in Servers : ServerStep(s))
      BY <1>1, <1>2, <2>1, <2>2, ReaderNext
    <2>3. CASE \/ kind = "single" /\ (Clonesrv5 \/ Clonecli5)
               \/ kind = "feed" /\ (Distribute \/ StateManager \/ Clonecli2)
      BY <1>1, <1>2, <2>1, <2>3, SingleNext
    <2>4. CASE \E s \in Servers : AgentJoins(s)
      BY <1>2, <2>1, <2>4, JoinReads
    <2>5. CASE UNCHANGED allVars
      <3>1. UNCHANGED <<kind, state, life, sets, collector, kvmap, sequence, got, asks, afeed, missed,
                        replies, joined, agentVars>>
        BY <2>5 DEF allVars, vars, cloneVars, storeVars, netVars, sockVars, news
      <3>2. UNCHANGED <<mode, at, taken>>
        BY <3>1 DEF agentVars
      <3>3. \A r \in Servers : ReadsOK(r)'
        <4>1. \A r \in Servers : Apart(r)
          BY <3>1 DEF Apart, Hushed, Made, Latest
        <4> QED
          BY <2>1, <3>1, <4>1, ApartReads DEF Reading
      <3>4. HearsAll' /\ OneReply' /\ LagOK'
        BY <2>1, <3>1, <3>2 DEF Reading, HearsAll, OneReply, LagOK, Up
      <3> QED
        BY <2>1, <3>1, <3>2, <3>3, <3>4 DEF Reading
    <2>6. kind \in {"clone", "reader"} => kind = "reader"
      BY <1>4 DEF Readers, Singles
    <2> QED
      BY <2>1, <2>2, <2>3, <2>4, <2>5, <2>6 DEF Next, PairNext
  <1> QED
    BY <1>3, <1>4

LEMMA ReadInit == CloneInit => ReadInv
  <1> SUFFICES ASSUME CloneInit PROVE Reading /\ mode = "INITIAL"
    BY DEF ReadInv
  <1>1. /\ taken = ToServers(0) /\ afeed = ToServers(<<>>) /\ replies = ToServers(<<>>)
        /\ sequence = ToServers(0) /\ kvmap = ToServers(Empty) /\ asks = ToServers({})
        /\ collector = ToServers(<<>>) /\ missed = ToServers({})
        /\ sets = 0 /\ mode = "INITIAL" /\ at = "p" /\ life = [s \in Servers |-> 1]
        /\ kind = "reader" => joined = Servers
    BY DEF CloneInit, Init
  <1>2. taken \in [Servers -> Nat]
    BY <1>1 DEF ToServers
  <1>3. ASSUME NEW s \in Servers PROVE ReadsOK(s)
    <2>1. /\ taken[s] = 0 /\ Latest(s) = 0 /\ Len(afeed[s]) = 0 /\ Len(replies[s]) = 0
      BY <1>1 DEF ToServers, Latest
    <2>2. NumbersOK(s)
      BY <2>1 DEF NumbersOK
    <2>3. RepliesOK(s)
      BY <2>1 DEF RepliesOK
    <2> QED
      BY <1>1, <2>2, <2>3 DEF ReadsOK, AgentMapOK
  <1>4. HearsAll
    BY <1>1 DEF HearsAll, ToServers
  <1>5. "p" \in Servers /\ \A u \in Updates : Empty[u] = "none" /\ u \in Nat /\ u > 0
    BY PeerFacts, EmptyFacts DEF Updates
  <1>6. OneReply
    BY <1>1, <1>5 DEF OneReply, ToServers
  <1>7. LagOK
    BY <1>1, <1>5 DEF LagOK, ToServers
  <1> QED
    BY <1>1, <1>2, <1>3, <1>4, <1>6, <1>7 DEF Reading

LEMMA ReadInvKeeps == StoreInv /\ ReadInv => AgentFollows
  <1> SUFFICES ASSUME StoreInv, ReadInv, mode = "ACTIVE", Up(at), alife = life[at]
               PROVE  Held(kvmap[at]) \ missed[at] \subseteq Held(After(akvmap, asequence, afeed[at]))
    BY DEF AgentFollows
  <1>1. CloneTypes /\ AgentTypes /\ at \in Servers
    BY DEF StoreInv, AgentTypes
  <1>2. Reading
    BY DEF ReadInv
  <1>3. Serves(at, akvmap, asequence, missed[at])
    BY <1>1, <1>2 DEF Reading, ReadsOK, AgentMapOK
  <1>4. Held(kvmap[at]) \subseteq Made(at)
    <2>1. CASE kind # "feed"
      BY <2>1 DEF Made
    <2>2. CASE kind = "feed"
      <3>1. at = "p" /\ LagOK
        BY <1>2, <2>2 DEF Reading, OneReply, Singles
      <3>2. PICK n \in Nat, k \in Nat : n = sequence["p"] /\ k = sets /\ n <= k
        BY SMTT(40), <1>1, <2>2, <3>1, CloneAssumption DEF LagOK, CloneTypes
      <3>3. \A u \in Updates : kvmap["p"][u] = "held" => u <= n
        BY <2>2, <3>1, <3>2 DEF LagOK
      <3>4. \A u \in Updates : u \in Nat /\ u >= 1
        BY DEF Updates
      <3> QED
        BY <2>2, <3>1, <3>2, <3>3, <3>4 DEF Made, Held
    <2> QED
      BY <2>1, <2>2
  <1>5. Held(kvmap[at]) \ missed[at] \in SUBSET Updates
    BY DEF Held
  <1>6. Covers(Held(kvmap[at]) \ missed[at], akvmap, asequence, afeed[at])
    <2>1. PICK H, less, map, n, f :
            /\ H = Made(at) \ missed[at] /\ less = Held(kvmap[at]) \ missed[at]
            /\ map = akvmap /\ n = asequence /\ f = afeed[at]
      OBVIOUS
    <2>2. Covers(H, map, n, f) /\ less \subseteq H
      BY <1>3, <1>4, <2>1 DEF Serves
    <2>3. Covers(less, map, n, f)
      BY <2>2, CoversLess
    <2> QED
      BY <2>1, <2>3
  <1> QED
    BY <1>1, <1>5, <1>6, CoversAfter DEF AgentTypes

\* clone.c:364-399, clonecli5.c:26-62, clonesrv2.c:28: a client that reads, at a server that
\* has not restarted, lacks no value of that server but those on their way to it and those
\* published before its subscription arrived.
THEOREM AgentAlwaysFollows == Spec => []AgentFollows
  BY StoreInit, StoreNext, ReadInit, ReadNext, ReadInvKeeps, PTL DEF Spec
=============================================================================
