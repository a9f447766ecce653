----------------------------- MODULE Registrar ------------------------------
(***************************************************************************)
(* Registration: publishers and clients register with the registrar        *)
(* (src/src/registrar.c), which asks the proxy's subscription thread       *)
(* (src/src/proxy.c:25-37) to watch the file a client names, and answers   *)
(* with the watch id and the publishers that may carry the events of the   *)
(* file; the client connects to them and sets its filters                  *)
(* (rsubscribe, src/src/rnot.h:26-56).                                     *)
(*                                                                         *)
(* All requests are REQ/REP: a peer has one request outstanding and blocks *)
(* until it is answered, without a timeout.  A filter set on a SUB socket  *)
(* reaches the publisher later, when the connection exists.                *)
(***************************************************************************)
EXTENDS HashRing, Integers, Sequences

CONSTANTS
  Clients,
  Wanted,           \* [Clients -> Seq(Names)], the paths a client subscribes to
  NoPath,           \* no path is asked for
  Missing,          \* paths inotify_add_watch refuses
  PublishersFirst   \* TRUE when clients start after a publisher is accepted

ASSUME RegistrarAssumption ==
  /\ Clients \cap (Publishers \cup {NoPublisher}) = {}
  /\ Wanted \in [Clients -> Seq(Names)]
  /\ NoPath \notin Names
  /\ Missing \subseteq Names
  /\ PublishersFirst \in BOOLEAN

\* The id of a failed watch: register_notification prints the error and answers
\* with the "-1" it got (rnot_helper.h:298-301).
WatchFailed == -1
Ids == Nat \cup {WatchFailed}

Peers == Publishers \cup Clients

\* Nobody is served, no watch is answered.
Nobody == NoPublisher
NoAnswer == 0

\* What a client was told, and the ring it was computed from.
Grants == [path : Names, id : Ids, publishers : SUBSET Publishers,
           ring : SUBSET Publishers]

VARIABLES
  requests,    \* peers whose request waits at the REP socket
  rpc,         \* label of the registrar's thread
  peer,        \* the peer being served
  ring,        \* publisher_ring
  table,       \* publishers, by accept address
  announced,   \* publishers published to the dispatchers
  asked,       \* the path of the registrar's request to the proxy, or NoPath
  answer,      \* the answer of the proxy, or NoAnswer
  proxyUp,     \* the proxy process is alive
  watches,     \* the inotify instance: path -> wd, NoAnswer when not watched
  ppc,         \* [Publishers -> PublisherLabels]
  cpc,         \* [Clients -> ClientLabels]
  next,        \* [Clients -> Nat], index in Wanted of the current call
  granted,     \* [Clients -> SUBSET Grants], replies received
  todo,        \* [Clients -> SUBSET Publishers], rest of the loop of rsubscribe
  id,          \* [Clients -> Ids], registration_response[1]
  filters,     \* [Clients -> SUBSET (Publishers \X Ids)], set on SUB sockets
  routed       \* the filters that have reached the XPUB socket

registrarVars == <<rpc, peer, ring, table, announced>>
proxyVars == <<asked, answer, proxyUp, watches>>
clientVars == <<cpc, next, granted, todo, id, filters>>
vars == <<requests, registrarVars, proxyVars, ppc, clientVars, routed>>

RegistrarLabels == {"recv", "reply_publisher", "notify", "add", "ask", "await",
                    "reply_client", "crashed"}
PublisherLabels == {"start", "wait", "serving"}
ClientLabels == {"idle", "wait", "subscribe"}

Init ==
  /\ requests = {}
  /\ rpc = "recv" /\ peer = Nobody
  /\ ring = {} /\ table = {} /\ announced = {}
  /\ asked = NoPath /\ answer = NoAnswer /\ proxyUp = TRUE
  /\ watches = [f \in Names |-> NoAnswer]
  /\ ppc = [p \in Publishers |-> "start"]
  /\ cpc = [c \in Clients |-> "idle"]
  /\ next = [c \in Clients |-> 1]
  /\ granted = [c \in Clients |-> {}]
  /\ todo = [c \in Clients |-> {}]
  /\ id = [c \in Clients |-> NoAnswer]
  /\ filters = [c \in Clients |-> {}]
  /\ routed = {}

-----------------------------------------------------------------------------

RegistrarGoto(from, to) == rpc = from /\ rpc' = to

\* The path of the call a client is in.
Path(c) == Wanted[c][next[c]]

\* get_publishers_table: the owners of every instance of a path.
Choices(members, f) ==
  {FindNode(members, Key(f, i, TRUE)) : i \in Instances}

Calling(c) == next[c] <= Len(Wanted[c])

-----------------------------------------------------------------------------
(* A publisher, publisher.c:36-46                                          *)

RegisterPublisher(p) ==
  /\ ppc[p] = "start"
  /\ ppc' = [ppc EXCEPT ![p] = "wait"]
  /\ requests' = requests \cup {p}
  /\ UNCHANGED <<registrarVars, proxyVars, clientVars, routed>>

-----------------------------------------------------------------------------
(* The registrar's thread, registrar.c:86-160                              *)

RecvRegistration(x) ==
  /\ x \in requests
  /\ RegistrarGoto("recv", IF x \in Publishers THEN "reply_publisher" ELSE "ask")
  /\ requests' = requests \ {x}
  /\ peer' = x
  /\ UNCHANGED <<ring, table, announced, proxyVars, ppc, clientVars, routed>>

\* The publisher is answered, and enters zmq_proxy, before it is in the ring.
ReplyPublisher ==
  /\ RegistrarGoto("reply_publisher", "notify")
  /\ ppc' = [ppc EXCEPT ![peer] = "serving"]
  /\ UNCHANGED <<requests, peer, ring, table, announced, proxyVars, clientVars,
                 routed>>

NotifyDispatchers ==
  /\ RegistrarGoto("notify", "add")
  /\ announced' = announced \cup {peer}
  /\ UNCHANGED <<requests, peer, ring, table, proxyVars, ppc, clientVars, routed>>

\* Slip: a publisher in the ring and not in the table.
AddPublisherRingOnly ==
  /\ RegistrarGoto("add", "recv")
  /\ ring' = ring \cup {peer}
  /\ peer' = Nobody
  /\ UNCHANGED <<requests, table, announced, proxyVars, ppc, clientVars, routed>>

AddPublisher ==
  /\ RegistrarGoto("add", "recv")
  /\ ring' = ring \cup {peer}
  /\ table' = table \cup {peer}
  /\ peer' = Nobody
  /\ UNCHANGED <<requests, announced, proxyVars, ppc, clientVars, routed>>

AskProxy ==
  /\ RegistrarGoto("ask", "await")
  /\ asked' = Path(peer)
  /\ UNCHANGED <<requests, peer, ring, table, announced, answer, proxyUp, watches,
                 ppc, clientVars, routed>>

\* Slip: the answer is used before it has arrived.
RecvIdEarly ==
  /\ RegistrarGoto("await", "reply_client")
  /\ UNCHANGED <<requests, peer, ring, table, announced, proxyVars, ppc,
                 clientVars, routed>>

RecvId ==
  /\ RegistrarGoto("await", "reply_client")
  /\ answer # NoAnswer
  /\ UNCHANGED <<requests, peer, ring, table, announced, proxyVars, ppc,
                 clientVars, routed>>

\* The reply lists the publishers of the path; both tables are read.
ReplyClient ==
  /\ RegistrarGoto("reply_client", "recv")
  /\ Choices(ring, Path(peer)) \subseteq table
  /\ LET found == Choices(ring, Path(peer)) IN
       /\ granted' = [granted EXCEPT ![peer] = @ \cup
            {[path |-> Path(peer), id |-> answer, publishers |-> found,
              ring |-> ring]}]
       /\ todo' = [todo EXCEPT ![peer] = found]
  /\ id' = [id EXCEPT ![peer] = answer]
  /\ cpc' = [cpc EXCEPT ![peer] = "subscribe"]
  /\ answer' = NoAnswer
  /\ peer' = Nobody
  /\ UNCHANGED <<requests, ring, table, announced, asked, proxyUp, watches, ppc,
                 next, filters, routed>>

\* node->name of the NULL node of an empty ring (registrar.c:48), or
\* ->publish_port of a publisher that is not in the table (registrar.c:127).
ReplyCrash ==
  /\ RegistrarGoto("reply_client", "crashed")
  /\ ~ (Choices(ring, Path(peer)) \subseteq table)
  /\ UNCHANGED <<requests, peer, ring, table, announced, proxyVars, ppc,
                 clientVars, routed>>

-----------------------------------------------------------------------------
(* The proxy's subscription thread, proxy.c:30-36                          *)

FreshWd == 1 + Cardinality({f \in Names : watches[f] # NoAnswer})

\* Slip: a failed watch is not answered.
AddWatchSilent ==
  /\ proxyUp
  /\ asked # NoPath
  /\ asked' = NoPath
  /\ asked \notin Missing
  /\ answer' = FreshWd
  /\ watches' = [watches EXCEPT ![asked] = FreshWd]
  /\ UNCHANGED <<requests, registrarVars, proxyUp, ppc, clientVars, routed>>

\* inotify_add_watch: the wd of a watched path again, or the next wd.  The path stands for
\* the file: no path is deleted, moved or linked, so that the kernel removes no watch.
AddWatch ==
  /\ proxyUp
  /\ asked # NoPath
  /\ asked' = NoPath
  /\ IF asked \in Missing
       THEN answer' = WatchFailed /\ UNCHANGED watches
       ELSE LET wd == IF watches[asked] # NoAnswer THEN watches[asked] ELSE FreshWd
            IN  /\ answer' = wd
                /\ watches' = [watches EXCEPT ![asked] = wd]
  /\ UNCHANGED <<requests, registrarVars, proxyUp, ppc, clientVars, routed>>

\* The proxy is killed; nobody restarts it.
ProxyDies ==
  /\ proxyUp
  /\ proxyUp' = FALSE
  /\ UNCHANGED <<requests, registrarVars, asked, answer, watches, ppc, clientVars,
                 routed>>

-----------------------------------------------------------------------------
(* A client, rnot.h:26-56                                                  *)

CallSubscribe(c) ==
  /\ PublishersFirst => \E p \in Publishers : ppc[p] = "serving"
  /\ cpc[c] = "idle"
  /\ Calling(c)
  /\ cpc' = [cpc EXCEPT ![c] = "wait"]
  /\ requests' = requests \cup {c}
  /\ UNCHANGED <<registrarVars, proxyVars, ppc, next, granted, todo, id, filters,
                 routed>>

\* One round of the loop: the filter is set on the SUB socket of the publisher,
\* which is connected if it is new.
SubscribeAt(c, p) ==
  /\ cpc[c] = "subscribe"
  /\ p \in todo[c]
  /\ filters' = [filters EXCEPT ![c] = @ \cup {<<p, id[c]>>}]
  /\ todo' = [todo EXCEPT ![c] = @ \ {p}]
  /\ UNCHANGED <<requests, registrarVars, proxyVars, ppc, cpc, next, granted, id,
                 routed>>

\* Slip: the loop over the publishers stops one early.
ReturnFromSubscribeEarly(c) ==
  /\ cpc[c] = "subscribe"
  /\ Cardinality(todo[c]) <= 1
  /\ cpc' = [cpc EXCEPT ![c] = "idle"]
  /\ next' = [next EXCEPT ![c] = @ + 1]
  /\ UNCHANGED <<requests, registrarVars, proxyVars, ppc, granted, todo, id,
                 filters, routed>>

ReturnFromSubscribe(c) ==
  /\ cpc[c] = "subscribe"
  /\ todo[c] = {}
  /\ cpc' = [cpc EXCEPT ![c] = "idle"]
  /\ next' = [next EXCEPT ![c] = @ + 1]
  /\ UNCHANGED <<requests, registrarVars, proxyVars, ppc, granted, todo, id,
                 filters, routed>>

\* ZeroMQ carries a filter to the XPUB socket in the background.
RouteFilter(c, p, i) ==
  /\ <<p, i>> \in filters[c]
  /\ <<c, p, i>> \notin routed
  /\ routed' = routed \cup {<<c, p, i>>}
  /\ UNCHANGED <<requests, registrarVars, proxyVars, ppc, clientVars>>

-----------------------------------------------------------------------------

RegistrarThread ==
  \/ \E x \in Peers : RecvRegistration(x)
  \/ ReplyPublisher \/ NotifyDispatchers \/ AddPublisher
  \/ AskProxy \/ RecvId \/ ReplyClient \/ ReplyCrash

Client(c) ==
  \/ CallSubscribe(c) \/ ReturnFromSubscribe(c)
  \/ \E p \in Publishers : SubscribeAt(c, p)

Network == \E c \in Clients : \E f \in filters[c] : RouteFilter(c, f[1], f[2])

Next ==
  \/ RegistrarThread
  \/ AddWatch
  \/ ProxyDies
  \/ \E p \in Publishers : RegisterPublisher(p)
  \/ \E c \in Clients : Client(c)
  \/ Network

Spec == Init /\ [][Next]_vars

\* Threads run on and ZeroMQ delivers; publishers do start.
Fairness ==
  /\ WF_vars(RegistrarThread)
  /\ WF_vars(AddWatch)
  /\ WF_vars(Network)
  /\ \A p \in Publishers : WF_vars(RegisterPublisher(p))
  /\ \A c \in Clients : WF_vars(Client(c))

FairSpec == Spec /\ Fairness

-----------------------------------------------------------------------------
(* Properties                                                              *)

\* Every variable stays in its type.
TypeOK ==
  /\ requests \in SUBSET Peers
  /\ rpc \in RegistrarLabels
  /\ peer \in Peers \cup {Nobody}
  /\ ring \in SUBSET Publishers
  /\ table \in SUBSET Publishers
  /\ announced \in SUBSET Publishers
  /\ asked \in Names \cup {NoPath}
  /\ answer \in Ids
  /\ proxyUp \in BOOLEAN
  /\ watches \in [Names -> Nat]
  /\ ppc \in [Publishers -> PublisherLabels]
  /\ cpc \in [Clients -> ClientLabels]
  /\ next \in [Clients -> Nat \ {0}]
  /\ granted \in [Clients -> SUBSET Grants]
  /\ todo \in [Clients -> SUBSET Publishers]
  /\ id \in [Clients -> Ids]
  /\ filters \in [Clients -> SUBSET (Publishers \X Ids)]
  /\ routed \in SUBSET (Clients \X Publishers \X Ids)

\* The registrar follows a NULL node (registrar.c:48) only for a client that
\* called before any publisher was added: once one is in the ring, no order of
\* registrations takes it down.
RegistrarNeverCrashes == rpc = "crashed" => ring = {}

\* The answers of REQ/REP are not crossed on the way from the proxy through the
\* registrar to a client: ids name paths, for all clients, unless the watch
\* failed.
IdsNamePaths ==
  \A c, d \in Clients : \A g \in granted[c], h \in granted[d] :
    g.id # WatchFailed => (g.id = h.id <=> g.path = h.path)

\* A client that is not inside a call has a filter at every publisher that owns
\* an instance of one of its paths now, except at publishers that registered
\* after it was answered.
OnlyJoinersUnheard ==
  \A c \in Clients : cpc[c] = "idle" =>
    \A g \in granted[c] : \A p \in Choices(ring, g.path) \cap g.ring :
      <<p, g.id>> \in filters[c]

\* Every filter of every subscription has reached its publisher. The comment on
\* rsubscribe (rnot.h:25), "call does not return until registration is
\* complete", promises it at every return; it only holds in the end.
RegistrationComplete ==
  \A c \in Clients : cpc[c] = "idle" =>
    \A g \in granted[c] : \A p \in g.publishers : <<c, p, g.id>> \in routed

\* As long as the proxy and the registrar live, every call of rsubscribe returns
\* and every filter it set reaches its publisher, although nothing on the way has
\* a timeout.
EveryCallCompletes ==
  [](proxyUp /\ rpc # "crashed") =>
    \A c \in Clients : <>(~Calling(c) /\ RegistrationComplete)

=============================================================================
