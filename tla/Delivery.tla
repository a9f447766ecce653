------------------------------ MODULE Delivery ------------------------------
(***************************************************************************)
(* An event's way from the PUB socket of a dispatcher through a publisher  *)
(* (src/src/publisher.c) to the handler a client gave to start_listener    *)
(* (src/src/rnot.h:58-97).                                                 *)
(*                                                                         *)
(* A filter travels against the events: a client sets the id it got from   *)
(* the registrar on its SUB socket, ZeroMQ carries it to the publisher's   *)
(* XPUB socket, and zmq_proxy passes it on through the XSUB socket to the  *)
(* dispatchers.  A PUB socket drops what no filter matches, and PUB and    *)
(* XPUB drop what does not fit into the pipe of a peer.  A filter is the   *)
(* decimal text of an id and matches every wd whose text begins with it.   *)
(***************************************************************************)
EXTENDS Naturals, Sequences

CONSTANTS
  Clients,
  Publishers,
  Dispatchers,
  Wds,       \* watch descriptors
  Granted,   \* SUBSET (Clients \X Publishers \X Wds), the registrar's answers
  Events,
  Route,     \* [Events -> [by, via, wd]], who sends an event, whereto, its wd
  Hwm        \* high-water mark of a pipe

ASSUME DeliveryAssumption ==
  /\ Wds \subseteq Nat \ {0}
  /\ Granted \subseteq Clients \X Publishers \X Wds
  /\ Route \in [Events -> [by : Dispatchers, via : Publishers, wd : Wds]]
  /\ Hwm \in Nat \ {0}

VARIABLES
  filters,   \* SUBSET Granted, set on the SUB sockets of the clients
  routed,    \* SUBSET filters, those at the XPUB sockets
  known,     \* [Dispatchers -> SUBSET (Publishers \X Wds)], at the PUB sockets
  sent,      \* Seq(Events), what notify() was called for, in that order
  wire,      \* [Dispatchers -> [Publishers -> Seq(Events)]]
  inbox,     \* [Clients -> [Publishers -> Seq(Events)]]
  polled,    \* [Clients -> SUBSET Publishers], poll_items
  ready,     \* [Clients -> SUBSET Publishers], revents not served yet
  cpc,       \* [Clients -> {"subscribe", "listen", "dead"}]
  dead,      \* publishers that were killed
  handled,   \* [Clients -> Seq(Events)], calls of the handler
  due,       \* SUBSET (Clients \X Events), what the filters promised on sending
  overflow   \* SUBSET (Clients \X Events), dropped at a high-water mark

filterVars == <<filters, routed, known>>
listenerVars == <<polled, ready, cpc, handled>>
ghostVars == <<due, overflow>>
vars == <<filterVars, sent, wire, inbox, listenerVars, dead, ghostVars>>

Init ==
  /\ filters = {} /\ routed = {}
  /\ known = [d \in Dispatchers |-> {}]
  /\ sent = <<>>
  /\ wire = [d \in Dispatchers |-> [p \in Publishers |-> <<>>]]
  /\ inbox = [c \in Clients |-> [p \in Publishers |-> <<>>]]
  /\ polled = [c \in Clients |-> {}]
  /\ ready = [c \in Clients |-> {}]
  /\ cpc = [c \in Clients |-> "subscribe"]
  /\ dead = {}
  /\ handled = [c \in Clients |-> <<>>]
  /\ due = {} /\ overflow = {}

-----------------------------------------------------------------------------
(* Helpers                                                                 *)

Elements(s) == {s[i] : i \in 1 .. Len(s)}

\* The text of a filter is a prefix of the text of a wd (an int has at most ten
\* digits).
Matches(filter, wd) == \E k \in 0 .. 9 : wd \div 10^k = filter

\* An XPUB socket sends an event to a client once, however many filters match.
Matching(c, p, wd) == {w \in Wds : <<c, p, w>> \in routed /\ Matches(w, wd)}

\* The listener takes the event for a string: its length is that of the wd's
\* bytes up to the first zero byte.  It is below the size of an event, as the
\* third byte of a mask is zero, so that the loop over the message makes at most
\* one round, and none when the lowest byte of the wd is zero.
HandlerRuns(wd) == wd % 256 # 0

-----------------------------------------------------------------------------
(* Filters                                                                 *)

\* zsocket_set_subscribe, rnot.h:45.
SetFilter(c, p, w) ==
  /\ cpc[c] = "subscribe"
  /\ <<c, p, w>> \in Granted \ filters
  /\ filters' = filters \cup {<<c, p, w>>}
  /\ UNCHANGED <<routed, known, sent, wire, inbox, listenerVars, dead, ghostVars>>

RouteFilter(c, p, w) ==
  /\ <<c, p, w>> \in filters \ routed
  /\ cpc[c] # "dead" /\ p \notin dead
  /\ routed' = routed \cup {<<c, p, w>>}
  /\ UNCHANGED <<filters, known, sent, wire, inbox, listenerVars, dead, ghostVars>>

\* zmq_proxy passes the subscription from XPUB to XSUB, which sends it to a
\* dispatcher, at once or when the dispatcher connects.
PassFilter(d, p, w) ==
  /\ p \notin dead
  /\ \E c \in Clients : <<c, p, w>> \in routed
  /\ <<p, w>> \notin known[d]
  /\ known' = [known EXCEPT ![d] = @ \cup {<<p, w>>}]
  /\ UNCHANGED <<filters, routed, sent, wire, inbox, listenerVars, dead, ghostVars>>

\* ...and the end of a subscription no client has any more.
PassUnsubscribe(d, p, w) ==
  /\ p \notin dead
  /\ <<p, w>> \in known[d]
  /\ \A c \in Clients : <<c, p, w>> \notin routed
  /\ known' = [known EXCEPT ![d] = @ \ {<<p, w>>}]
  /\ UNCHANGED <<filters, routed, sent, wire, inbox, listenerVars, dead, ghostVars>>

-----------------------------------------------------------------------------
(* Events                                                                  *)

\* The clients an event is promised to: one of their filters got all the way.
Audience(e) ==
  LET d == Route[e].by p == Route[e].via IN
    {c \in Clients : \E w \in Matching(c, p, Route[e].wd) : <<p, w>> \in known[d]}

Wanted(e) ==
  \E w \in Wds : <<Route[e].via, w>> \in known[Route[e].by] /\ Matches(w, Route[e].wd)

\* notify() on the PUB socket of the publisher; the call always returns.
Send(e) ==
  LET d == Route[e].by p == Route[e].via IN
  /\ e \notin Elements(sent)
  /\ sent' = Append(sent, e)
  /\ IF Wanted(e) /\ p \notin dead /\ Len(wire[d][p]) < Hwm
       THEN /\ wire' = [wire EXCEPT ![d][p] = Append(@, e)]
            /\ due' = due \cup (Audience(e) \X {e})
       ELSE UNCHANGED <<wire, due>>
  /\ UNCHANGED <<filterVars, inbox, listenerVars, dead, overflow>>

\* Slip: one copy for every filter that matches.
ForwardPerFilter(d, p) ==
  /\ p \notin dead
  /\ wire[d][p] # <<>>
  /\ wire' = [wire EXCEPT ![d][p] = Tail(@)]
  /\ LET e == Head(wire[d][p])
         matched == {c \in Clients : Matching(c, p, Route[e].wd) # {}}
         twice == {c \in matched : \E v, w \in Matching(c, p, Route[e].wd) : v # w}
         full == {c \in matched : Len(inbox[c][p]) >= Hwm}
     IN  /\ inbox' = [c \in Clients |-> [inbox[c] EXCEPT ![p] =
                        IF c \in twice /\ @ = <<>> /\ Hwm > 1 THEN <<e, e>>
                        ELSE IF c \in matched \ full THEN Append(@, e) ELSE @]]
         /\ overflow' = overflow \cup (full \X {e})
  /\ UNCHANGED <<filterVars, sent, listenerVars, dead, due>>

\* zmq_proxy: from XSUB to XPUB, which sends it to the clients with a matching
\* filter and room in their pipe.
Forward(d, p) ==
  /\ p \notin dead
  /\ wire[d][p] # <<>>
  /\ wire' = [wire EXCEPT ![d][p] = Tail(@)]
  /\ LET e == Head(wire[d][p])
         matched == {c \in Clients : Matching(c, p, Route[e].wd) # {}}
         full == {c \in matched : Len(inbox[c][p]) >= Hwm}
     IN  /\ inbox' = [c \in Clients |-> [inbox[c] EXCEPT ![p] =
                        IF c \in matched \ full THEN Append(@, e) ELSE @]]
         /\ overflow' = overflow \cup (full \X {e})
  /\ UNCHANGED <<filterVars, sent, listenerVars, dead, due>>

-----------------------------------------------------------------------------
(* The listener, rnot.h:58-97                                              *)

Subscribed(c) == {p \in Publishers : \E w \in Wds : <<c, p, w>> \in filters}

\* Slip: table_size is off by one.
StartListenerOffByOne(c) ==
  /\ cpc[c] = "subscribe"
  /\ \A f \in Granted \ filters : f[1] # c
  /\ cpc' = [cpc EXCEPT ![c] = "listen"]
  /\ \E p \in Subscribed(c) : polled' = [polled EXCEPT ![c] = Subscribed(c) \ {p}]
  /\ UNCHANGED <<filterVars, sent, wire, inbox, ready, handled, dead, ghostVars>>

\* The sockets to poll are listed once; start_listener never returns, so that
\* a client subscribes before (application.c:58-86).
StartListener(c) ==
  /\ cpc[c] = "subscribe"
  /\ \A f \in Granted \ filters : f[1] # c
  /\ cpc' = [cpc EXCEPT ![c] = "listen"]
  /\ polled' = [polled EXCEPT ![c] = Subscribed(c)]
  /\ UNCHANGED <<filterVars, sent, wire, inbox, ready, handled, dead, ghostVars>>

Poll(c) ==
  /\ cpc[c] = "listen"
  /\ ready[c] = {}
  /\ \E p \in polled[c] : inbox[c][p] # <<>>
  /\ ready' = [ready EXCEPT ![c] = {p \in polled[c] : inbox[c][p] # <<>>}]
  /\ UNCHANGED <<filterVars, sent, wire, inbox, polled, cpc, handled, dead,
                 ghostVars>>

\* Slip: what came with the first message is thrown away.
ServeFirstOnly(c, p) ==
  /\ p \in ready[c]
  /\ ready' = [ready EXCEPT ![c] = @ \ {p}]
  /\ inbox' = [inbox EXCEPT ![c][p] = <<>>]
  /\ LET e == Head(inbox[c][p]) IN
       handled' = IF HandlerRuns(Route[e].wd)
                    THEN [handled EXCEPT ![c] = Append(@, e)] ELSE handled
  /\ UNCHANGED <<filterVars, sent, wire, polled, cpc, dead, ghostVars>>

\* Slip: a socket stays ready for the next round.
ServeStaying(c, p) ==
  /\ p \in ready[c]
  /\ inbox' = [inbox EXCEPT ![c][p] = Tail(@)]
  /\ LET e == Head(inbox[c][p]) IN
       handled' = IF HandlerRuns(Route[e].wd)
                    THEN [handled EXCEPT ![c] = Append(@, e)] ELSE handled
  /\ UNCHANGED <<filterVars, sent, wire, polled, ready, cpc, dead, ghostVars>>

\* One message of each ready socket is received and handed to the handler.
Serve(c, p) ==
  /\ p \in ready[c]
  /\ ready' = [ready EXCEPT ![c] = @ \ {p}]
  /\ inbox' = [inbox EXCEPT ![c][p] = Tail(@)]
  /\ LET e == Head(inbox[c][p]) IN
       handled' = IF HandlerRuns(Route[e].wd)
                    THEN [handled EXCEPT ![c] = Append(@, e)] ELSE handled
  /\ UNCHANGED <<filterVars, sent, wire, polled, cpc, dead, ghostVars>>

-----------------------------------------------------------------------------
(* Processes that are killed; nobody restarts them                         *)

ClientDies(c) ==
  /\ cpc[c] # "dead"
  /\ cpc' = [cpc EXCEPT ![c] = "dead"]
  /\ routed' = {f \in routed : f[1] # c}
  /\ inbox' = [inbox EXCEPT ![c] = [p \in Publishers |-> <<>>]]
  /\ ready' = [ready EXCEPT ![c] = {}]
  /\ UNCHANGED <<filters, known, sent, wire, polled, handled, dead, ghostVars>>

\* What clients have received stays; dispatchers and clients are not told.
PublisherDies(p) ==
  /\ p \notin dead
  /\ dead' = dead \cup {p}
  /\ routed' = {f \in routed : f[2] # p}
  /\ known' = [d \in Dispatchers |-> {f \in known[d] : f[1] # p}]
  /\ wire' = [d \in Dispatchers |-> [wire[d] EXCEPT ![p] = <<>>]]
  /\ UNCHANGED <<filters, sent, inbox, listenerVars, ghostVars>>

-----------------------------------------------------------------------------

Network ==
  \/ \E f \in Granted : RouteFilter(f[1], f[2], f[3])
  \/ \E d \in Dispatchers, p \in Publishers, w \in Wds :
       PassFilter(d, p, w) \/ PassUnsubscribe(d, p, w)

Publisher(p) == \E d \in Dispatchers : Forward(d, p)

Client(c) ==
  \/ \E p \in Publishers, w \in Wds : SetFilter(c, p, w)
  \/ StartListener(c) \/ Poll(c)
  \/ \E p \in Publishers : Serve(c, p)

Next ==
  \/ Network
  \/ \E e \in Events : Send(e)
  \/ \E p \in Publishers : Publisher(p) \/ PublisherDies(p)
  \/ \E c \in Clients : Client(c) \/ ClientDies(c)

Spec == Init /\ [][Next]_vars

\* The processes that live run on; nothing is assumed of the senders, nor of how
\* fast filters travel.
Fairness ==
  /\ \A p \in Publishers : WF_vars(Publisher(p))
  /\ \A c \in Clients : WF_vars(Client(c))

FairSpec == Spec /\ Fairness

-----------------------------------------------------------------------------
(* Properties                                                              *)

\* Every variable stays in its type; a filter at a publisher was set by its
\* client, pipes keep to their bound, and the listener is never about to block
\* in the receive on a socket that has nothing (rnot.h:78-80).
TypeOK ==
  /\ filters \in SUBSET Granted
  /\ routed \in SUBSET filters
  /\ known \in [Dispatchers -> SUBSET (Publishers \X Wds)]
  /\ sent \in Seq(Events)
  /\ wire \in [Dispatchers -> [Publishers -> Seq(Events)]]
  /\ inbox \in [Clients -> [Publishers -> Seq(Events)]]
  /\ \A c \in Clients, p \in Publishers : Len(inbox[c][p]) <= Hwm
  /\ polled \in [Clients -> SUBSET Publishers]
  /\ ready \in [Clients -> SUBSET Publishers]
  /\ \A c \in Clients : \A p \in ready[c] : inbox[c][p] # <<>>
  /\ cpc \in [Clients -> {"subscribe", "listen", "dead"}]
  /\ dead \in SUBSET Publishers
  /\ handled \in [Clients -> Seq(Events)]
  /\ due \in SUBSET (Clients \X Events)
  /\ overflow \in SUBSET (Clients \X Events)

Position(e) == CHOOSE i \in 1 .. Len(sent) : sent[i] = e

\* A handler runs at most once for an event, also when several ids of the
\* client match it, and sees the events that took the same way in the order in
\* which the dispatcher sent them.
HandledOnceInOrder ==
  \A c \in Clients : \A i, j \in 1 .. Len(handled[c]) : i < j =>
    LET a == handled[c][i] b == handled[c][j] IN
      /\ a # b
      /\ Route[a].by = Route[b].by /\ Route[a].via = Route[b].via =>
           Position(a) < Position(b)

OnTheWay(c, e) ==
  \/ e \in Elements(wire[Route[e].by][Route[e].via])
  \/ e \in Elements(inbox[c][Route[e].via])

Accounted(c, e) ==
  \/ e \in Elements(handled[c])
  \/ <<c, e>> \in overflow
  \/ cpc[c] = "dead"
  \/ Route[e].via \in dead

\* An event sent when a filter of a client had got all the way is not lost
\* silently: it is on its way, was handed to the handler, was dropped at a full
\* pipe, or died with a process.  The listener loses those, and only those,
\* whose wd is a multiple of 256 (rnot.h:82).
NoSilentLoss ==
  \A f \in due : OnTheWay(f[1], f[2]) \/ Accounted(f[1], f[2])
                 \/ ~HandlerRuns(Route[f[2]].wd)

\* The listener polls all its sockets and serves what is ready: an event that
\* was promised to a client is dealt with in the end.
DueAreDealtWith ==
  \A c \in Clients : \A e \in Events :
    HandlerRuns(Route[e].wd) => (<<c, e>> \in due ~> Accounted(c, e))

=============================================================================
