----------------------------- MODULE BinaryStar -----------------------------
(***************************************************************************)
(* The Binary Star pair (src/zmq/C): a primary and a backup server tell    *)
(* one another their state every second and the requests of clients decide *)
(* a failover.  It runs as the proof of concept (bstarsrv.c, kind "poc"),  *)
(* as the reactor with an echo service (bstar.c, bstarsrv2.c, "echo"), or  *)
(* as the reactor under the clone servers ("clone", and "reader" with a    *)
(* client that reads, see Clone).  The client of the first two is          *)
(* bstarcli.c.  "single" and "feed" are clone servers without a peer.      *)
(***************************************************************************)
EXTENDS Naturals, FiniteSets

CONSTANTS
  MaxRestarts,  \* bound: how often a server is started again
  MaxLate       \* bound: deadlines that pass although the peer is up

ASSUME BinaryStarAssumption == MaxRestarts \in Nat /\ MaxLate \in Nat

Servers == {"p", "b"}
Peer(s) == IF s = "p" THEN "b" ELSE "p"

Pairs == {"poc", "echo"}
Singles == {"single", "feed"}
Kinds == Pairs \cup {"clone", "reader"} \cup Singles

States == {"PRIMARY", "BACKUP", "ACTIVE", "PASSIVE"}

VARIABLES
  kind,     \* which of the programs runs
  state,    \* [Servers -> States \cup {"down"}]
  inbox,    \* [Servers -> SUBSET States], a state of the peer that is on its way
  expired,  \* [Servers -> BOOLEAN], peer_expiry has passed
  cur,      \* the server the client is connected to
  asked,    \* SUBSET Servers, where a request waits
  answered, \* the client has the reply to its last request
  stuck,    \* servers whose reactor waits inside a handler (clone servers only)
  life,     \* [Servers -> Nat], which start of the server this is
  late

clientVars == <<cur, asked, answered>>
vars == <<kind, state, inbox, expired, clientVars, stuck, life, late>>

Start(s) == IF s = "p" THEN "PRIMARY" ELSE "BACKUP"

\* A single clone server has no peer and is always active.
First(s) == IF kind \notin Singles THEN Start(s) ELSE IF s = "p" THEN "ACTIVE" ELSE "down"

\* fsm = { 0 } leaves the deadline in the past, bstar_start sets it.
Unheard == kind = "poc"

Init ==
  /\ kind \in Kinds
  /\ state = [s \in Servers |-> First(s)]
  /\ inbox = [s \in Servers |-> {}]
  /\ expired = [s \in Servers |-> Unheard]
  /\ cur = "p" /\ asked = {} /\ answered = TRUE
  /\ stuck = {} /\ life = [s \in Servers |-> 1] /\ late = 0

-----------------------------------------------------------------------------
(* The state machine: what an event makes of a state, and the events that  *)
(* are exceptions.                                                         *)

\* Slip: a request makes the primary active at once.
MoveEager(st, event, exp) ==
  CASE st = "PRIMARY" /\ event = "BACKUP" -> "ACTIVE"
    [] st = "PRIMARY" /\ event = "ACTIVE" -> "PASSIVE"
    [] st = "PRIMARY" /\ event = "REQUEST" -> "ACTIVE"
    [] st = "BACKUP" /\ event = "ACTIVE" -> "PASSIVE"
    [] st = "PASSIVE" /\ event \in {"PRIMARY", "BACKUP"} -> "ACTIVE"
    [] st = "PASSIVE" /\ event = "REQUEST" /\ exp -> "ACTIVE"
    [] OTHER -> st

\* Slip: a passive server does not take over from a primary that restarts.
MoveWaiting(st, event, exp) ==
  CASE st = "PRIMARY" /\ event = "BACKUP" -> "ACTIVE"
    [] st = "PRIMARY" /\ event = "ACTIVE" -> "PASSIVE"
    [] st = "PRIMARY" /\ event = "REQUEST" /\ kind # "poc" /\ exp -> "ACTIVE"
    [] st = "BACKUP" /\ event = "ACTIVE" -> "PASSIVE"
    [] st = "PASSIVE" /\ event = "BACKUP" -> "ACTIVE"
    [] st = "PASSIVE" /\ event = "REQUEST" /\ exp -> "ACTIVE"
    [] OTHER -> st

Move(st, event, exp) ==
  CASE st = "PRIMARY" /\ event = "BACKUP" -> "ACTIVE"
    [] st = "PRIMARY" /\ event = "ACTIVE" -> "PASSIVE"
    [] st = "PRIMARY" /\ event = "REQUEST" /\ kind # "poc" /\ exp -> "ACTIVE"
    [] st = "BACKUP" /\ event = "ACTIVE" -> "PASSIVE"
    [] st = "PASSIVE" /\ event \in {"PRIMARY", "BACKUP"} -> "ACTIVE"
    [] st = "PASSIVE" /\ event = "REQUEST" /\ exp -> "ACTIVE"
    [] OTHER -> st

Exception(st, event, exp) ==
  \/ st = "PRIMARY" /\ event = "REQUEST" /\ kind # "poc" /\ ~exp
  \/ st = "BACKUP" /\ event = "REQUEST"
  \/ st \in {"ACTIVE", "PASSIVE"} /\ event = st
  \/ st = "PASSIVE" /\ event = "REQUEST" /\ ~exp

Up(s) == state[s] # "down"
Runs(s) == Up(s) /\ s \notin stuck
Accepts(s) == ~Exception(state[s], "REQUEST", expired[s])

-----------------------------------------------------------------------------
(* The servers                                                             *)

\* Bound: one state at a time is on its way.
SendState(s) ==
  /\ Runs(s) /\ Up(Peer(s)) /\ inbox[Peer(s)] = {}
  /\ inbox' = [inbox EXCEPT ![Peer(s)] = {state[s]}]
  /\ UNCHANGED <<kind, state, expired, clientVars, stuck, life, late>>

\* What is lost with the process.
Die(s) ==
  /\ state' = [state EXCEPT ![s] = "down"]
  /\ inbox' = [inbox EXCEPT ![s] = {}]
  /\ stuck' = stuck \ {s}

Heard(s, event) == Move(state[s], event, FALSE)

\* An exception here ends the reactor and the process.
RecvState(s) ==
  \E event \in inbox[s] :
    /\ Runs(s)
    /\ IF Exception(state[s], event, FALSE)
       THEN Die(s) /\ UNCHANGED expired
       ELSE /\ inbox' = [inbox EXCEPT ![s] = {}]
            /\ state' = [state EXCEPT ![s] = Heard(s, event)]
            /\ expired' = [expired EXCEPT ![s] = FALSE]
            /\ UNCHANGED stuck
    /\ UNCHANGED <<kind, clientVars, life, late>>

\* A request is an event, too; after an exception it is dropped.
Vote(s) ==
  /\ Runs(s)
  /\ state' = [state EXCEPT ![s] = Move(@, "REQUEST", expired[s])]
  /\ UNCHANGED <<kind, inbox, expired, stuck, life, late>>

\* Two heartbeats have passed in silence.  If the peer is up its state was late.
Expire(s) ==
  /\ Up(s) /\ ~expired[s] /\ inbox[s] = {}
  /\ IF Up(Peer(s)) THEN late < MaxLate /\ late' = late + 1 ELSE UNCHANGED late
  /\ expired' = [expired EXCEPT ![s] = TRUE]
  /\ UNCHANGED <<kind, state, inbox, clientVars, stuck, life>>

Crash(s) ==
  /\ Up(s)
  /\ Die(s)
  /\ UNCHANGED <<kind, expired, clientVars, life, late>>

\* A server that was killed, or that ended with an exception, is started again (bound:
\* not while a client reads).
Restart(s) ==
  /\ ~Up(s) /\ life["p"] + life["b"] < 2 + MaxRestarts /\ kind # "reader"
  /\ life' = [life EXCEPT ![s] = @ + 1]
  /\ state' = [state EXCEPT ![s] = Start(s)]
  /\ expired' = [expired EXCEPT ![s] = Unheard]
  /\ IF inbox[Peer(s)] = {} THEN UNCHANGED late ELSE late < MaxLate /\ late' = late + 1
  /\ UNCHANGED <<kind, inbox, clientVars, stuck>>

-----------------------------------------------------------------------------
(* bstarcli.c and the echo                                                 *)

ClientSend ==
  /\ kind \in Pairs /\ answered
  /\ answered' = FALSE
  /\ asked' = asked \cup {cur}
  /\ UNCHANGED <<kind, state, inbox, expired, cur, stuck, life, late>>

\* A reply to a socket that the client has closed goes nowhere.
ServerRequest(s) ==
  /\ s \in asked
  /\ Vote(s)
  /\ asked' = asked \ {s}
  /\ answered' = (answered \/ (s = cur /\ Accepts(s)))
  /\ UNCHANGED cur

\* No reply in time: the client closes its socket, goes to the other server and asks
\* there.
ClientFailover ==
  /\ kind \in Pairs /\ ~answered
  /\ cur \notin asked \/ ~Up(cur)
  /\ cur' = Peer(cur)
  /\ asked' = (asked \ {cur}) \cup {Peer(cur)}
  /\ UNCHANGED <<kind, state, inbox, expired, answered, stuck, life, late>>

-----------------------------------------------------------------------------

PairNext ==
  /\ kind \in Pairs
  /\ \/ \E s \in Servers : \/ SendState(s) \/ RecvState(s) \/ Expire(s) \/ Crash(s)
                           \/ Restart(s) \/ ServerRequest(s)
     \/ ClientSend \/ ClientFailover

\* The processes and the client go on by themselves; nothing need crash or restart.
PairFairness ==
  /\ \A s \in Servers : /\ WF_vars(kind \in Pairs /\ SendState(s))
                        /\ WF_vars(kind \in Pairs /\ RecvState(s))
                        /\ WF_vars(kind \in Pairs /\ ServerRequest(s))
  /\ WF_vars(ClientSend) /\ WF_vars(ClientFailover)

-----------------------------------------------------------------------------
(* Properties *)

\* bstar.c:106, "Two actives would mean split-brain": as long as a server that is up is
\* heard within two heartbeats (bstar.c:155) the two are never active at once, and
\* with the reactor no two servers would take a request.
NoSplitBrain ==
  late = 0 => /\ \E s \in Servers : state[s] # "ACTIVE"
              /\ kind # "poc" => \E s \in Servers : ~Up(s) \/ ~Accepts(s)

\* Once both servers stay up they end as one active and one passive server, for good,
\* and the client's requests are answered again and again (bstar.c:51, bstarcli.c:24).
Settles ==
  (kind \in Pairs /\ <>[](\A s \in Servers : Up(s)))
    => <>[](\E s \in Servers : state[s] = "ACTIVE" /\ state[Peer(s)] = "PASSIVE")
       /\ []<>answered
=============================================================================
