--------------------------- MODULE DeliveryProofs ---------------------------
(***************************************************************************)
(* Proofs about the way of an event to the handlers, for every number of   *)
(* clients, publishers and dispatchers, every set of ids and every pipe    *)
(* size; and about the benchmark, which measures how long that way takes.  *)
(* What an id matches and whether the loop of the listener runs for a wd   *)
(* play no part: Matches and HandlerRuns are never expanded.               *)
(***************************************************************************)
EXTENDS Delivery, Benchmark, FiniteSetTheorems, TLAPS

-----------------------------------------------------------------------------
(* Sequences                                                               *)

\* a stands before b in q.
Precedes(q, a, b) == \E i, j \in 1 .. Len(q) : i < j /\ q[i] = a /\ q[j] = b

LEMMA ElementsType ==
  ASSUME NEW S, NEW q \in Seq(S)
  PROVE  Elements(q) \in SUBSET S
  BY DEF Elements

LEMMA Appended ==
  ASSUME NEW S, NEW q \in Seq(S), NEW e \in S
  PROVE  /\ Append(q, e) \in Seq(S) /\ Append(q, e) # <<>>
         /\ Len(Append(q, e)) = Len(q) + 1
         /\ Elements(Append(q, e)) = Elements(q) \cup {e}
         /\ \A a, b : Precedes(q, a, b) => Precedes(Append(q, e), a, b)
         /\ \A a, b : Precedes(Append(q, e), a, b) =>
                        Precedes(q, a, b) \/ (a \in Elements(q) /\ b = e)
         /\ \A a \in Elements(q) : Precedes(Append(q, e), a, e)
<1> PICK n \in Nat : n = Len(q)
  OBVIOUS
<1> PICK r : r = Append(q, e)
  OBVIOUS
<1>1. /\ r \in Seq(S) /\ r # <<>> /\ Len(r) = n + 1 /\ r[n + 1] = e
      /\ \A i \in 1 .. n : r[i] = q[i]
  OBVIOUS
<1>2. Elements(r) = Elements(q) \cup {e}
  BY <1>1 DEF Elements
<1>3. \A a, b : Precedes(q, a, b) => Precedes(r, a, b)
  BY <1>1 DEF Precedes
<1>4. ASSUME NEW a, NEW b, Precedes(r, a, b)
      PROVE  Precedes(q, a, b) \/ (a \in Elements(q) /\ b = e)
  <2>1. PICK i, j \in 1 .. n + 1 : i < j /\ r[i] = a /\ r[j] = b
    BY <1>1, <1>4 DEF Precedes
  <2>2. i \in 1 .. n /\ a \in Elements(q)
    BY <1>1, <2>1 DEF Elements
  <2>3. CASE j = n + 1
    BY <1>1, <2>1, <2>2, <2>3
  <2>4. CASE j \in 1 .. n
    BY <1>1, <2>1, <2>2, <2>4 DEF Precedes
  <2> QED
    BY <2>3, <2>4
<1>5. ASSUME NEW a \in Elements(q) PROVE Precedes(r, a, e)
  <2>1. PICK i \in 1 .. n : q[i] = a
    BY DEF Elements
  <2>2. i \in 1 .. Len(r) /\ n + 1 \in 1 .. Len(r) /\ i < n + 1
    BY <1>1
  <2> QED
    BY <1>1, <2>1, <2>2 DEF Precedes
<1> QED
  BY <1>1, <1>2, <1>3, <1>4, <1>5

LEMMA Removed ==
  ASSUME NEW S, NEW q \in Seq(S), q # <<>>
  PROVE  /\ Tail(q) \in Seq(S) /\ Len(Tail(q)) = Len(q) - 1
         /\ Head(q) \in Elements(q)
         /\ Elements(q) = Elements(Tail(q)) \cup {Head(q)}
         /\ \A a, b : Precedes(Tail(q), a, b) => Precedes(q, a, b)
         /\ \A b \in Elements(Tail(q)) : Precedes(q, Head(q), b)
<1> PICK n \in Nat \ {0} : n = Len(q)
  OBVIOUS
<1> PICK r : r = Tail(q)
  OBVIOUS
<1>1. /\ r \in Seq(S) /\ Len(r) = n - 1 /\ Head(q) = q[1]
      /\ \A i \in 1 .. n - 1 : r[i] = q[i + 1]
  OBVIOUS
<1>2. Elements(q) = Elements(r) \cup {q[1]}
  <2>1. ASSUME NEW i \in 1 .. n PROVE q[i] = q[1] \/ q[i] \in Elements(r)
    <3>1. CASE i # 1
      <4>1. i - 1 \in 1 .. n - 1 /\ (i - 1) + 1 = i
        BY <3>1
      <4>2. r[i - 1] = q[i]
        BY <1>1, <4>1
      <4> QED
        BY <1>1, <4>1, <4>2 DEF Elements
    <3> QED
      BY <3>1
  <2>2. ASSUME NEW i \in 1 .. n - 1 PROVE r[i] \in Elements(q)
    <3>1. i + 1 \in 1 .. n /\ r[i] = q[i + 1]
      BY <1>1
    <3> QED
      BY <3>1 DEF Elements
  <2>3. 1 \in 1 .. n
    OBVIOUS
  <2> QED
    BY <1>1, <2>1, <2>2, <2>3 DEF Elements
<1>3. ASSUME NEW a, NEW b, Precedes(r, a, b) PROVE Precedes(q, a, b)
  <2>1. PICK i, j \in 1 .. n - 1 : i < j /\ r[i] = a /\ r[j] = b
    BY <1>1, <1>3 DEF Precedes
  <2>2. /\ i + 1 \in 1 .. n /\ j + 1 \in 1 .. n /\ i + 1 < j + 1
        /\ q[i + 1] = a /\ q[j + 1] = b
    BY <1>1, <2>1
  <2> QED
    BY <2>2 DEF Precedes
<1>4. ASSUME NEW b \in Elements(r) PROVE Precedes(q, q[1], b)
  <2>1. PICK j \in 1 .. n - 1 : r[j] = b
    BY <1>1 DEF Elements
  <2>2. 1 \in 1 .. n /\ j + 1 \in 1 .. n /\ 1 < j + 1 /\ q[j + 1] = b
    BY <1>1, <2>1
  <2> QED
    BY <2>2 DEF Precedes
<1> QED
  BY <1>1, <1>2, <1>3, <1>4

LEMMA Nothing ==
  /\ Elements(<<>>) = {} /\ \A a, b : ~Precedes(<<>>, a, b)
  BY DEF Elements, Precedes

-----------------------------------------------------------------------------
(* What a step does to the pipes                                           *)

\* The pipes of TypeOK, in a form that names each of them.
LEMMA PipeTypes ==
  ASSUME TypeOK, NEW p \in Publishers
  PROVE  /\ \A d \in Dispatchers : wire[d][p] \in Seq(Events)
         /\ \A c \in Clients : inbox[c][p] \in Seq(Events) /\ Len(inbox[c][p]) <= Hwm
         /\ \A c \in Clients : handled[c] \in Seq(Events)
  BY DEF TypeOK

\* Send puts the event into one pipe or into none.
LEMMA SendEffect ==
  ASSUME TypeOK, NEW e \in Events, Send(e)
  PROVE  /\ Route[e].by \in Dispatchers /\ Route[e].via \in Publishers
         /\ wire' \in [Dispatchers -> [Publishers -> Seq(Events)]]
         /\ \A d \in Dispatchers, p \in Publishers :
              \/ wire'[d][p] = wire[d][p]
              \/ /\ d = Route[e].by /\ p = Route[e].via
                 /\ wire'[d][p] = Append(wire[d][p], e)
         /\ \A f \in due' : \/ f \in due
                            \/ /\ f = <<f[1], e>> /\ f[1] \in Audience(e)
                               /\ wire'[Route[e].by][Route[e].via] =
                                    Append(wire[Route[e].by][Route[e].via], e)
<1>1. Route[e] \in [by : Dispatchers, via : Publishers, wd : Wds]
  BY DeliveryAssumption
<1> PICK d \in Dispatchers, p \in Publishers : d = Route[e].by /\ p = Route[e].via
  BY <1>1
<1>2. wire \in [Dispatchers -> [Publishers -> Seq(Events)]]
  BY DEF TypeOK
<1>3. CASE wire' = [wire EXCEPT ![d][p] = Append(@, e)]
           /\ due' = due \cup (Audience(e) \X {e})
  <2>1. Append(wire[d][p], e) \in Seq(Events)
    BY <1>2
  <2>2. wire' \in [Dispatchers -> [Publishers -> Seq(Events)]]
    BY <1>2, <1>3, <2>1
  <2>3. /\ wire'[d][p] = Append(wire[d][p], e)
        /\ \A x \in Dispatchers, y \in Publishers :
             x # d \/ y # p => wire'[x][y] = wire[x][y]
    BY <1>2, <1>3
  <2>4. ASSUME NEW f \in due', f \notin due
        PROVE  f = <<f[1], e>> /\ f[1] \in Audience(e)
    BY <1>3, <2>4
  <2> QED
    BY <2>2, <2>3, <2>4
<1>4. CASE UNCHANGED <<wire, due>>
  BY <1>2, <1>4
<1> QED
  BY <1>3, <1>4 DEF Send

Matched(p, e) == {c \in Clients : Matching(c, p, Route[e].wd) # {}}

\* Forward takes the first event of a pipe and gives it to some of the clients with a
\* filter that matches; the others have a full pipe.
LEMMA ForwardEffect ==
  ASSUME TypeOK, NEW d \in Dispatchers, NEW p \in Publishers, Forward(d, p)
  PROVE  LET e == Head(wire[d][p]) IN
         /\ wire[d][p] # <<>> /\ e \in Events
         /\ wire' \in [Dispatchers -> [Publishers -> Seq(Events)]]
         /\ wire'[d][p] = Tail(wire[d][p])
         /\ \A x \in Dispatchers, y \in Publishers :
              x # d \/ y # p => wire'[x][y] = wire[x][y]
         /\ inbox' \in [Clients -> [Publishers -> Seq(Events)]]
         /\ \A c \in Clients, y \in Publishers :
              \/ inbox'[c][y] = inbox[c][y]
              \/ /\ y = p /\ c \in Matched(p, e) /\ Len(inbox[c][p]) < Hwm
                 /\ inbox'[c][y] = Append(inbox[c][y], e)
         /\ \A c \in Matched(p, e) :
              <<c, e>> \in overflow' \/ inbox'[c][p] = Append(inbox[c][p], e)
         /\ overflow \subseteq overflow'
         /\ overflow' \in SUBSET (Clients \X Events)
<1>1. /\ wire \in [Dispatchers -> [Publishers -> Seq(Events)]]
      /\ inbox \in [Clients -> [Publishers -> Seq(Events)]]
      /\ overflow \in SUBSET (Clients \X Events)
  BY DEF TypeOK
<1>2. wire[d][p] # <<>> /\ wire' = [wire EXCEPT ![d][p] = Tail(@)]
  BY DEF Forward
<1> PICK e : e = Head(wire[d][p])
  OBVIOUS
<1> DEFINE full == {c \in Matched(p, e) : Len(inbox[c][p]) >= Hwm}
<1>3. e \in Events /\ Tail(wire[d][p]) \in Seq(Events)
  BY <1>1, <1>2
<1>4. /\ inbox' = [c \in Clients |-> [inbox[c] EXCEPT ![p] =
                     IF c \in Matched(p, e) \ full THEN Append(@, e) ELSE @]]
      /\ overflow' = overflow \cup (full \X {e})
  BY DEF Forward, Matched
<1>5. /\ wire' \in [Dispatchers -> [Publishers -> Seq(Events)]]
      /\ wire'[d][p] = Tail(wire[d][p])
      /\ \A x \in Dispatchers, y \in Publishers :
           x # d \/ y # p => wire'[x][y] = wire[x][y]
  BY <1>1, <1>2, <1>3
<1>6. ASSUME NEW c \in Clients
      PROVE  /\ inbox'[c] \in [Publishers -> Seq(Events)]
             /\ \A y \in Publishers : y # p => inbox'[c][y] = inbox[c][y]
             /\ inbox'[c][p] = IF c \in Matched(p, e) \ full THEN Append(inbox[c][p], e)
                               ELSE inbox[c][p]
  <2>1. inbox[c][p] \in Seq(Events) /\ Append(inbox[c][p], e) \in Seq(Events)
    BY <1>1, <1>3
  <2>2. inbox'[c] = [inbox[c] EXCEPT ![p] =
                       IF c \in Matched(p, e) \ full THEN Append(@, e) ELSE @]
    BY <1>4
  <2> HIDE DEF full
  <2> QED
    BY <1>1, <2>1, <2>2
<1>7. full \subseteq Clients /\ Matched(p, e) \subseteq Clients
      /\ \A c \in Clients : Len(inbox[c][p]) \in Nat
  BY <1>1 DEF Matched
<1>8. \A c \in Matched(p, e) \ full : Len(inbox[c][p]) < Hwm
  <2>1. Hwm \in Nat
    BY DeliveryAssumption
  <2>2. ASSUME NEW c \in Matched(p, e) \ full PROVE Len(inbox[c][p]) < Hwm
    <3>1. Len(inbox[c][p]) \in Nat /\ ~(Len(inbox[c][p]) >= Hwm)
      BY <1>7
    <3> QED
      BY <2>1, <3>1
  <2> QED
    BY <2>2
<1>9. overflow' \in SUBSET (Clients \X Events)
  BY <1>1, <1>3, <1>4, <1>7
<1>10. inbox' \in [Clients -> [Publishers -> Seq(Events)]]
  BY <1>4, <1>6
<1> HIDE DEF full
<1> QED
  BY <1>2, <1>3, <1>4, <1>5, <1>6, <1>7, <1>8, <1>9, <1>10

\* Serve takes the first event of a pipe that has one, and may run the handler.
LEMMA ServeEffect ==
  ASSUME TypeOK, NEW c \in Clients, NEW p \in Publishers, Serve(c, p)
  PROVE  LET e == Head(inbox[c][p]) IN
         /\ inbox[c][p] # <<>> /\ e \in Events
         /\ inbox' \in [Clients -> [Publishers -> Seq(Events)]]
         /\ inbox'[c][p] = Tail(inbox[c][p])
         /\ \A x \in Clients, y \in Publishers :
              x # c \/ y # p => inbox'[x][y] = inbox[x][y]
         /\ handled' \in [Clients -> Seq(Events)]
         /\ \A x \in Clients : x # c => handled'[x] = handled[x]
         /\ handled'[c] = IF HandlerRuns(Route[e].wd) THEN Append(handled[c], e)
                          ELSE handled[c]
<1>1. /\ inbox \in [Clients -> [Publishers -> Seq(Events)]]
      /\ handled \in [Clients -> Seq(Events)]
  BY DEF TypeOK
<1>2. inbox[c][p] # <<>> /\ inbox' = [inbox EXCEPT ![c][p] = Tail(@)]
  BY DEF Serve, TypeOK
<1> PICK e : e = Head(inbox[c][p])
  OBVIOUS
<1>3. e \in Events /\ Tail(inbox[c][p]) \in Seq(Events)
  BY <1>1, <1>2
<1>4. handled' = IF HandlerRuns(Route[e].wd) THEN [handled EXCEPT ![c] = Append(@, e)]
                 ELSE handled
  BY DEF Serve
<1>5. /\ inbox' \in [Clients -> [Publishers -> Seq(Events)]]
      /\ inbox'[c][p] = Tail(inbox[c][p])
      /\ \A x \in Clients, y \in Publishers :
           x # c \/ y # p => inbox'[x][y] = inbox[x][y]
  BY <1>1, <1>2, <1>3
<1>6. /\ handled' \in [Clients -> Seq(Events)]
      /\ \A x \in Clients : x # c => handled'[x] = handled[x]
      /\ handled'[c] = IF HandlerRuns(Route[e].wd) THEN Append(handled[c], e)
                       ELSE handled[c]
  <2>1. handled[c] \in Seq(Events) /\ Append(handled[c], e) \in Seq(Events)
    BY <1>1, <1>3
  <2> QED
    BY <1>1, <1>4, <2>1
<1> QED
  BY <1>2, <1>3, <1>5, <1>6

-----------------------------------------------------------------------------
(* Types                                                                   *)

LEMMA InitTypeOK == Init => TypeOK
<1> SUFFICES ASSUME Init PROVE TypeOK
  OBVIOUS
<1> USE DEF Init
<1>1. Hwm \in Nat
  BY DeliveryAssumption
<1>2. /\ wire \in [Dispatchers -> [Publishers -> Seq(Events)]]
      /\ inbox \in [Clients -> [Publishers -> Seq(Events)]]
      /\ handled \in [Clients -> Seq(Events)] /\ sent \in Seq(Events)
  OBVIOUS
<1>3. \A c \in Clients, p \in Publishers : Len(inbox[c][p]) <= Hwm
  BY <1>1
<1>4. \A c \in Clients : ready[c] = {}
  OBVIOUS
<1> QED
  BY <1>2, <1>3, <1>4 DEF TypeOK

LEMMA StepTypeOK == TypeOK /\ [Next]_vars => TypeOK'
<1> SUFFICES ASSUME TypeOK, [Next]_vars PROVE TypeOK'
  OBVIOUS
<1> USE DEF filterVars, listenerVars, ghostVars
<1>1. ASSUME NEW c \in Clients, NEW p \in Publishers, NEW w \in Wds,
             SetFilter(c, p, w)
      PROVE  TypeOK'
  BY <1>1 DEF SetFilter, TypeOK
<1>2. ASSUME NEW c \in Clients, NEW p \in Publishers, NEW w \in Wds,
             RouteFilter(c, p, w)
      PROVE  TypeOK'
  BY <1>2 DEF RouteFilter, TypeOK
<1>3. ASSUME NEW d \in Dispatchers, NEW p \in Publishers, NEW w \in Wds,
             PassFilter(d, p, w) \/ PassUnsubscribe(d, p, w)
      PROVE  TypeOK'
  <2>1. UNCHANGED <<filters, routed, sent, wire, inbox, listenerVars, dead, ghostVars>>
    BY <1>3 DEF PassFilter, PassUnsubscribe
  <2>2. known' \in [Dispatchers -> SUBSET (Publishers \X Wds)]
    <3>1. <<p, w>> \in Publishers \X Wds
      OBVIOUS
    <3>2. CASE known' = [known EXCEPT ![d] = @ \cup {<<p, w>>}]
      BY <3>1, <3>2 DEF TypeOK
    <3>3. CASE known' = [known EXCEPT ![d] = @ \ {<<p, w>>}]
      BY <3>3 DEF TypeOK
    <3> QED
      BY <1>3, <3>2, <3>3 DEF PassFilter, PassUnsubscribe
  <2> QED
    BY <2>1, <2>2 DEF TypeOK
<1>4. ASSUME NEW e \in Events, Send(e) PROVE TypeOK'
  <2>1. wire' \in [Dispatchers -> [Publishers -> Seq(Events)]]
    BY <1>4, SendEffect
  <2>2. sent' \in Seq(Events)
    BY <1>4, Appended DEF Send, TypeOK
  <2>3. due' \in SUBSET (Clients \X Events)
    <3>1. \A f \in due' : f \in due \/ (f = <<f[1], e>> /\ f[1] \in Audience(e))
      BY <1>4, SendEffect
    <3>2. Audience(e) \subseteq Clients
      BY DEF Audience
    <3> QED
      BY <3>1, <3>2 DEF TypeOK
  <2>4. UNCHANGED <<filterVars, inbox, listenerVars, dead, overflow>>
    BY <1>4 DEF Send
  <2> QED
    BY <2>1, <2>2, <2>3, <2>4 DEF TypeOK
<1>5. ASSUME NEW d \in Dispatchers, NEW p \in Publishers, Forward(d, p) PROVE TypeOK'
  <2> PICK e : e = Head(wire[d][p])
    OBVIOUS
  <2>1. /\ e \in Events
        /\ wire' \in [Dispatchers -> [Publishers -> Seq(Events)]]
        /\ inbox' \in [Clients -> [Publishers -> Seq(Events)]]
        /\ overflow' \in SUBSET (Clients \X Events)
        /\ \A c \in Clients, y \in Publishers :
             \/ inbox'[c][y] = inbox[c][y]
             \/ /\ y = p /\ Len(inbox[c][p]) < Hwm
                /\ inbox'[c][y] = Append(inbox[c][y], e)
    BY <1>5, ForwardEffect
  <2>2. ASSUME NEW c \in Clients, NEW y \in Publishers
        PROVE  Len(inbox'[c][y]) <= Hwm /\ (inbox[c][y] # <<>> => inbox'[c][y] # <<>>)
    <3>1. inbox[c][y] \in Seq(Events) /\ Len(inbox[c][y]) <= Hwm
      BY PipeTypes
    <3>2. CASE inbox'[c][y] = inbox[c][y]
      BY <3>1, <3>2
    <3>3. CASE Len(inbox[c][y]) < Hwm /\ inbox'[c][y] = Append(inbox[c][y], e)
      <4>1. /\ inbox'[c][y] # <<>> /\ Len(inbox'[c][y]) = Len(inbox[c][y]) + 1
            /\ Len(inbox[c][y]) \in Nat
        <5>1. PICK q \in Seq(Events) : q = inbox[c][y]
          BY <3>1
        <5>2. Append(q, e) # <<>> /\ Len(Append(q, e)) = Len(q) + 1 /\ Len(q) \in Nat
          <6>1. e \in Events
            BY <2>1
          <6> QED
            BY <6>1, Appended
        <5> QED
          BY <3>3, <5>1, <5>2
      <4>2. Hwm \in Nat
        BY DeliveryAssumption
      <4> QED
        BY <3>3, <4>1, <4>2
    <3> QED
      BY <2>1, <3>2, <3>3
  <2>3. UNCHANGED <<filterVars, sent, listenerVars, dead, due>>
    BY <1>5 DEF Forward
  <2> QED
    BY <2>1, <2>2, <2>3 DEF TypeOK
<1>6. ASSUME NEW c \in Clients, NEW p \in Publishers, Serve(c, p) PROVE TypeOK'
  <2>1. /\ inbox[c][p] # <<>>
        /\ inbox' \in [Clients -> [Publishers -> Seq(Events)]]
        /\ inbox'[c][p] = Tail(inbox[c][p])
        /\ \A x \in Clients, y \in Publishers :
             x # c \/ y # p => inbox'[x][y] = inbox[x][y]
        /\ handled' \in [Clients -> Seq(Events)]
    BY <1>6, ServeEffect
  <2>2. \A x \in Clients, y \in Publishers : Len(inbox'[x][y]) <= Hwm
    <3>1. Len(inbox'[c][p]) <= Hwm
      <4>1. Len(inbox'[c][p]) = Len(inbox[c][p]) - 1 /\ Len(inbox[c][p]) \in Nat
        BY <2>1, PipeTypes, Removed
      <4>2. Len(inbox[c][p]) <= Hwm /\ Hwm \in Nat
        BY PipeTypes, DeliveryAssumption
      <4> QED
        BY <4>1, <4>2
    <3> QED
      BY <2>1, <3>1, PipeTypes
  <2>3. /\ ready' = [ready EXCEPT ![c] = @ \ {p}]
        /\ UNCHANGED <<filterVars, sent, wire, polled, cpc, dead, ghostVars>>
    BY <1>6 DEF Serve
  <2>4. \A x \in Clients : ready'[x] \in SUBSET Publishers
                           /\ \A y \in ready'[x] : inbox'[x][y] # <<>>
    BY <2>1, <2>3 DEF TypeOK
  <2>5. ready' \in [Clients -> SUBSET Publishers]
    BY <2>3 DEF TypeOK
  <2> QED
    BY <2>1, <2>2, <2>3, <2>4, <2>5 DEF TypeOK
<1>7. ASSUME NEW c \in Clients, StartListener(c) PROVE TypeOK'
  <2>1. Subscribed(c) \in SUBSET Publishers
    BY DEF Subscribed
  <2> QED
    BY <1>7, <2>1 DEF StartListener, TypeOK
<1>8. ASSUME NEW c \in Clients, Poll(c) PROVE TypeOK'
  <2>1. ready' = [ready EXCEPT ![c] = {p \in polled[c] : inbox[c][p] # <<>>}]
    BY <1>8 DEF Poll
  <2>2. /\ ready' \in [Clients -> SUBSET Publishers]
        /\ \A x \in Clients : \A p \in ready'[x] : inbox[x][p] # <<>>
    BY <2>1 DEF TypeOK
  <2> QED
    BY <1>8, <2>2 DEF Poll, TypeOK
<1>9. ASSUME NEW c \in Clients, ClientDies(c) PROVE TypeOK'
  <2>1. /\ inbox' = [inbox EXCEPT ![c] = [p \in Publishers |-> <<>>]]
        /\ ready' = [ready EXCEPT ![c] = {}]
        /\ cpc' = [cpc EXCEPT ![c] = "dead"]
        /\ routed' = {f \in routed : f[1] # c}
        /\ UNCHANGED <<filters, known, sent, wire, polled, handled, dead, ghostVars>>
    BY <1>9 DEF ClientDies
  <2>2. [p \in Publishers |-> <<>>] \in [Publishers -> Seq(Events)]
    OBVIOUS
  <2>3. inbox' \in [Clients -> [Publishers -> Seq(Events)]]
    BY <2>1, <2>2 DEF TypeOK
  <2>4. \A x \in Clients, p \in Publishers :
          \/ inbox'[x][p] = <<>> /\ ready'[x] = {}
          \/ inbox'[x][p] = inbox[x][p] /\ ready'[x] = ready[x]
    BY <2>1 DEF TypeOK
  <2>5. Hwm \in Nat
    BY DeliveryAssumption
  <2>6. \A x \in Clients, p \in Publishers : Len(inbox'[x][p]) <= Hwm
    BY <2>4, <2>5 DEF TypeOK
  <2>7. /\ ready' \in [Clients -> SUBSET Publishers]
        /\ cpc' \in [Clients -> {"subscribe", "listen", "dead"}]
        /\ routed' \in SUBSET filters
    BY <2>1 DEF TypeOK
  <2>8. \A x \in Clients : \A p \in ready'[x] : inbox'[x][p] # <<>>
    BY <2>4, <2>7 DEF TypeOK
  <2> QED
    BY <2>1, <2>3, <2>6, <2>7, <2>8 DEF TypeOK
<1>10. ASSUME NEW p \in Publishers, PublisherDies(p) PROVE TypeOK'
  <2>1. /\ dead' = dead \cup {p}
        /\ routed' = {f \in routed : f[2] # p}
        /\ known' = [d \in Dispatchers |-> {f \in known[d] : f[1] # p}]
        /\ wire' = [d \in Dispatchers |-> [wire[d] EXCEPT ![p] = <<>>]]
        /\ UNCHANGED <<filters, sent, inbox, listenerVars, ghostVars>>
    BY <1>10 DEF PublisherDies
  <2>2. known' \in [Dispatchers -> SUBSET (Publishers \X Wds)]
    BY <2>1 DEF TypeOK
  <2>3. wire' \in [Dispatchers -> [Publishers -> Seq(Events)]]
    BY <2>1 DEF TypeOK
  <2> QED
    BY <2>1, <2>2, <2>3 DEF TypeOK
<1>11. CASE UNCHANGED vars
  BY <1>11 DEF vars, TypeOK
<1>12. CASE Network
  <2>1. CASE \E f \in Granted : RouteFilter(f[1], f[2], f[3])
    <3>1. PICK f \in Granted : RouteFilter(f[1], f[2], f[3])
      BY <2>1
    <3>2. f[1] \in Clients /\ f[2] \in Publishers /\ f[3] \in Wds
      BY DeliveryAssumption
    <3> QED
      BY <1>2, <3>1, <3>2
  <2> QED
    BY <1>3, <1>12, <2>1 DEF Network
<1> QED
  BY <1>1, <1>4, <1>5, <1>6, <1>7, <1>8, <1>9, <1>10, <1>11, <1>12
     DEF Next, Publisher, Client

\* The variables stay in their types, the pipes within their bound, and the listener
\* never receives from a socket that has nothing for it (rnot.h:78-80).
THEOREM TypeCorrect == Spec => []TypeOK
  BY InitTypeOK, StepTypeOK, PTL DEF Spec

-----------------------------------------------------------------------------
(* The invariant                                                           *)

SameWay(a, b) == Route[a].by = Route[b].by /\ Route[a].via = Route[b].via

\* The three places of an event that client c may be given.
Queued(e) == e \in Elements(wire[Route[e].by][Route[e].via])
Boxed(c, e) == e \in Elements(inbox[c][Route[e].via])
Done(c, e) == e \in Elements(handled[c])

\* An event is in no pipe but those on its way.
WaysOK ==
  \A e \in Events, p \in Publishers :
    /\ \A d \in Dispatchers :
         e \in Elements(wire[d][p]) => Route[e].by = d /\ Route[e].via = p
    /\ \A c \in Clients : e \in Elements(inbox[c][p]) => Route[e].via = p

\* Nothing travels that was not sent, and nothing is sent twice.
SentOK ==
  /\ \A i, j \in 1 .. Len(sent) : sent[i] = sent[j] => i = j
  /\ \A c \in Clients, e \in Events :
       Queued(e) \/ Boxed(c, e) \/ Done(c, e) => e \in Elements(sent)

\* a is ahead of b, which takes the same way: handlers, inbox and wire are one line.
Ahead(c, a, b) ==
  \/ Precedes(handled[c], a, b)
  \/ Done(c, a) /\ (Boxed(c, b) \/ Queued(b))
  \/ Precedes(inbox[c][Route[a].via], a, b)
  \/ Boxed(c, a) /\ Queued(b)
  \/ Precedes(wire[Route[a].by][Route[a].via], a, b)

OrderOK ==
  \A c \in Clients, a, b \in Events :
    SameWay(a, b) /\ Ahead(c, a, b) => Precedes(sent, a, b)

\* A client that was promised an event still has a filter for it, or is dead, or the
\* publisher is.
Hears(c, e) == Matching(c, Route[e].via, Route[e].wd) # {}
HeardOK ==
  \A c \in Clients, e \in Events :
    <<c, e>> \in due => Hears(c, e) \/ cpc[c] = "dead" \/ Route[e].via \in dead

LossOK ==
  \A c \in Clients, e \in Events :
    <<c, e>> \in due =>
      Queued(e) \/ Boxed(c, e) \/ Accounted(c, e) \/ ~HandlerRuns(Route[e].wd)

PathInv == WaysOK /\ SentOK /\ OrderOK /\ HeardOK /\ LossOK
DeliveryInv == TypeOK /\ PathInv

LEMMA InitDeliveryInv == Init => DeliveryInv
<1> SUFFICES ASSUME Init PROVE DeliveryInv
  OBVIOUS
<1>1. /\ \A d \in Dispatchers, p \in Publishers : wire[d][p] = <<>>
      /\ \A c \in Clients, p \in Publishers : inbox[c][p] = <<>>
      /\ \A c \in Clients : handled[c] = <<>>
      /\ due = {} /\ sent = <<>>
  BY DEF Init
<1>2. \A e \in Events : Route[e].by \in Dispatchers /\ Route[e].via \in Publishers
  BY DeliveryAssumption
<1>3. \A c \in Clients, e \in Events : ~Queued(e) /\ ~Boxed(c, e) /\ ~Done(c, e)
  BY <1>1, <1>2, Nothing DEF Queued, Boxed, Done
<1>4. \A c \in Clients, a, b \in Events : ~Ahead(c, a, b)
  BY <1>1, <1>2, <1>3, Nothing DEF Ahead
<1>5. WaysOK
  BY <1>1, Nothing DEF WaysOK
<1>6. SentOK /\ OrderOK /\ HeardOK /\ LossOK
  BY <1>1, <1>3, <1>4 DEF SentOK, OrderOK, HeardOK, LossOK
<1> QED
  BY <1>5, <1>6, InitTypeOK DEF DeliveryInv, PathInv

LEMMA RouteType ==
  ASSUME NEW e \in Events
  PROVE  Route[e].by \in Dispatchers /\ Route[e].via \in Publishers
  BY DeliveryAssumption

\* A step that sends nothing keeps what was sent and the order, when nothing enters the
\* line of a client and no one in it comes ahead of another.
LEMMA LineKept ==
  ASSUME PathInv, UNCHANGED sent,
         \A c \in Clients, e \in Events :
           Queued(e)' \/ Boxed(c, e)' \/ Done(c, e)' => Queued(e) \/ Boxed(c, e) \/ Done(c, e),
         \A c \in Clients, a, b \in Events : SameWay(a, b) /\ Ahead(c, a, b)' => Ahead(c, a, b)
  PROVE  SentOK' /\ OrderOK'
<1>1. SentOK'
  BY DEF PathInv, SentOK
<1>2. OrderOK'
  BY DEF PathInv, OrderOK
<1> QED
  BY <1>1, <1>2

LEMMA SendKeeps ==
  ASSUME DeliveryInv, NEW e \in Events, Send(e)
  PROVE  PathInv'
<1>1. PICK d \in Dispatchers, p \in Publishers : d = Route[e].by /\ p = Route[e].via
  BY RouteType
<1>2. TypeOK /\ WaysOK /\ SentOK /\ OrderOK /\ HeardOK /\ LossOK
  BY DEF DeliveryInv, PathInv
<1>3. /\ \A x \in Dispatchers, y \in Publishers :
           \/ wire'[x][y] = wire[x][y]
           \/ x = d /\ y = p /\ wire'[x][y] = Append(wire[x][y], e)
      /\ \A f \in due' : \/ f \in due
                         \/ /\ f = <<f[1], e>> /\ f[1] \in Audience(e)
                            /\ wire'[d][p] = Append(wire[d][p], e)
  <2>1. TypeOK
    BY <1>2
  <2>2. \A x \in Dispatchers, y \in Publishers :
           \/ wire'[x][y] = wire[x][y]
           \/ x = d /\ y = p /\ wire'[x][y] = Append(wire[x][y], e)
    <3> SUFFICES ASSUME NEW x \in Dispatchers, NEW y \in Publishers
                 PROVE  \/ wire'[x][y] = wire[x][y]
                        \/ x = d /\ y = p /\ wire'[x][y] = Append(wire[x][y], e)
      OBVIOUS
    <3>1. \/ wire'[x][y] = wire[x][y]
          \/ /\ x = Route[e].by /\ y = Route[e].via
             /\ wire'[x][y] = Append(wire[x][y], e)
      BY <2>1, SendEffect
    <3> QED
      BY <1>1, <3>1
  <2>3. ASSUME NEW f \in due', f \notin due
        PROVE  /\ f = <<f[1], e>> /\ f[1] \in Audience(e)
               /\ wire'[d][p] = Append(wire[d][p], e)
    <3>1. /\ f = <<f[1], e>> /\ f[1] \in Audience(e)
          /\ wire'[Route[e].by][Route[e].via] = Append(wire[Route[e].by][Route[e].via], e)
      BY <2>1, <2>3, SendEffect
    <3> QED
      BY <1>1, <3>1
  <2> QED
    BY <2>2, <2>3
<1>4. /\ sent' = Append(sent, e) /\ e \notin Elements(sent) /\ sent \in Seq(Events)
      /\ UNCHANGED <<filterVars, inbox, listenerVars, dead, overflow>>
  BY <1>2 DEF Send, TypeOK
<1>5. \A x \in Dispatchers, y \in Publishers : wire[x][y] \in Seq(Events)
  BY <1>2, PipeTypes
<1>6. \A x \in Dispatchers, y \in Publishers, a, b \in Events :
        /\ a \in Elements(wire'[x][y]) =>
             a \in Elements(wire[x][y]) \/ (a = e /\ x = d /\ y = p)
        /\ a \in Elements(wire[x][y]) => a \in Elements(wire'[x][y])
        /\ Precedes(wire'[x][y], a, b) =>
             Precedes(wire[x][y], a, b) \/ (b = e /\ a \in Elements(wire[x][y]))
  <2> TAKE x \in Dispatchers, y \in Publishers, a, b \in Events
  <2>1. CASE wire'[x][y] = wire[x][y]
    BY <2>1
  <2>2. CASE x = d /\ y = p /\ wire'[x][y] = Append(wire[x][y], e)
    <3>1. PICK q \in Seq(Events) : q = wire[x][y]
      BY <1>5
    <3>2. /\ Elements(Append(q, e)) = Elements(q) \cup {e}
          /\ Precedes(Append(q, e), a, b) => Precedes(q, a, b) \/ (a \in Elements(q) /\ b = e)
      BY Appended
    <3> QED
      BY <2>2, <3>1, <3>2
  <2> QED
    BY <1>3, <2>1, <2>2
<1>7. WaysOK'
  BY <1>1, <1>2, <1>4, <1>6 DEF WaysOK
<1>8. \A x \in Events : /\ Queued(x)' => Queued(x) \/ x = e
                        /\ Queued(x) => Queued(x)'
  BY <1>6, RouteType DEF Queued
<1>9. \A c \in Clients, x \in Events :
        (Boxed(c, x)' <=> Boxed(c, x)) /\ (Done(c, x)' <=> Done(c, x))
  BY <1>4 DEF Boxed, Done, listenerVars
<1>10. /\ Elements(sent') = Elements(sent) \cup {e}
       /\ \A a, b : Precedes(sent, a, b) => Precedes(sent', a, b)
       /\ \A a \in Elements(sent) : Precedes(sent', a, e)
  BY <1>4, Appended
<1>11. \A i, j \in 1 .. Len(sent') : sent'[i] = sent'[j] => i = j
  <2>1. PICK n \in Nat : n = Len(sent)
    BY <1>4
  <2>2. Len(sent') = n + 1 /\ sent'[n + 1] = e /\ \A i \in 1 .. n : sent'[i] = sent[i]
    BY <1>4, <2>1
  <2>3. \A i \in 1 .. n : sent[i] # e
    BY <1>4, <2>1 DEF Elements
  <2>4. \A i, j \in 1 .. n : sent[i] = sent[j] => i = j
    BY <1>2, <2>1 DEF SentOK
  <2>5. \A i \in 1 .. n + 1 : i = n + 1 \/ i \in 1 .. n
    OBVIOUS
  <2> QED
    BY <2>2, <2>3, <2>4, <2>5
<1>12. SentOK'
  BY <1>2, <1>8, <1>9, <1>10, <1>11 DEF SentOK
<1>13. ASSUME NEW c \in Clients, NEW a \in Events, NEW b \in Events,
              SameWay(a, b), Ahead(c, a, b)'
       PROVE  Ahead(c, a, b) \/ (b = e /\ a \in Elements(sent))
  <2>1. Precedes(wire[Route[a].by][Route[a].via], a, b)' =>
          Precedes(wire[Route[a].by][Route[a].via], a, b) \/ (b = e /\ Queued(a))
    BY <1>6, RouteType DEF Queued
  <2>2. UNCHANGED <<handled[c], inbox[c][Route[a].via]>>
    BY <1>4 DEF listenerVars
  <2>3. Queued(a) \/ Boxed(c, a) \/ Done(c, a) => a \in Elements(sent)
    BY <1>2 DEF SentOK
  <2> QED
    BY <1>8, <1>9, <1>13, <2>1, <2>2, <2>3 DEF Ahead
<1>14. OrderOK'
  BY <1>2, <1>10, <1>13 DEF OrderOK
<1>15. \A c \in Clients, x \in Events :
         <<c, x>> \in due' => <<c, x>> \in due \/ (x = e /\ Hears(c, e) /\ Queued(e)')
  <2> SUFFICES ASSUME NEW c \in Clients, NEW x \in Events,
                      <<c, x>> \in due', <<c, x>> \notin due
               PROVE  x = e /\ Hears(c, e) /\ Queued(e)'
    OBVIOUS
  <2>1. x = e /\ c \in Audience(e) /\ wire'[d][p] = Append(wire[d][p], e)
    BY <1>3
  <2>2. Hears(c, e)
    BY <2>1 DEF Audience, Hears
  <2>3. Queued(e)'
    <3>1. wire[d][p] \in Seq(Events)
      BY <1>5
    <3>2. Elements(Append(wire[d][p], e)) = Elements(wire[d][p]) \cup {e}
      BY <3>1, Appended
    <3>3. e \in Elements(wire'[d][p])
      BY <2>1, <3>2
    <3> QED
      BY <1>1, <3>3 DEF Queued
  <2> QED
    BY <2>1, <2>2, <2>3
<1>16. \A c \in Clients, x \in Events : (Hears(c, x)' <=> Hears(c, x))
                                         /\ (Accounted(c, x)' <=> Accounted(c, x))
  BY <1>4 DEF Hears, Matching, Accounted, filterVars, listenerVars
<1>17. HeardOK' /\ LossOK'
  BY <1>2, <1>4, <1>8, <1>9, <1>15, <1>16 DEF HeardOK, LossOK, listenerVars
<1> QED
  BY <1>7, <1>12, <1>14, <1>17 DEF PathInv

\* What the proxy of a publisher takes from the wire is the first of its line there, and
\* becomes the last of it in the pipes of the clients.
LEMMA ForwardKeeps ==
  ASSUME DeliveryInv, NEW d \in Dispatchers, NEW p \in Publishers, Forward(d, p)
  PROVE  PathInv'
<1> PICK h : h = Head(wire[d][p])
  OBVIOUS
<1>1. PathInv /\ TypeOK /\ WaysOK /\ HeardOK /\ LossOK
  BY DEF DeliveryInv, PathInv
<1>2. /\ wire[d][p] # <<>> /\ h \in Events
      /\ wire'[d][p] = Tail(wire[d][p])
      /\ \A x \in Dispatchers, y \in Publishers :
           x # d \/ y # p => wire'[x][y] = wire[x][y]
      /\ \A c \in Clients, y \in Publishers :
           \/ inbox'[c][y] = inbox[c][y]
           \/ y = p /\ inbox'[c][y] = Append(inbox[c][y], h)
      /\ \A c \in Matched(p, h) :
           <<c, h>> \in overflow' \/ inbox'[c][p] = Append(inbox[c][p], h)
      /\ overflow \subseteq overflow'
  BY <1>1, ForwardEffect
<1>3. UNCHANGED <<filterVars, sent, listenerVars, dead, due>>
  BY DEF Forward
<1>4. wire[d][p] \in Seq(Events) /\ \A c \in Clients, y \in Publishers : inbox[c][y] \in Seq(Events)
  BY <1>1, PipeTypes
<1>5. /\ Elements(wire[d][p]) = Elements(wire'[d][p]) \cup {h}
      /\ \A a, b : Precedes(wire'[d][p], a, b) => Precedes(wire[d][p], a, b)
      /\ \A b \in Elements(wire'[d][p]) : Precedes(wire[d][p], h, b)
  BY <1>2, <1>4, Removed
<1>6. Route[h].by = d /\ Route[h].via = p /\ Queued(h)
  BY <1>1, <1>2, <1>5 DEF WaysOK, Queued
<1>7. \A x \in Events :
        /\ Queued(x)' => Queued(x)
        /\ Queued(x) => Queued(x)' \/ x = h
  BY <1>2, <1>5, RouteType DEF Queued
<1>8. ASSUME NEW c \in Clients, NEW y \in Publishers
      PROVE  /\ Elements(inbox[c][y]) \subseteq Elements(inbox'[c][y])
             /\ \A x \in Elements(inbox'[c][y]) : x \in Elements(inbox[c][y]) \/ (x = h /\ y = p)
             /\ \A a, b : Precedes(inbox'[c][y], a, b) =>
                  Precedes(inbox[c][y], a, b) \/ (a \in Elements(inbox[c][y]) /\ b = h)
  <2>1. CASE inbox'[c][y] = inbox[c][y]
    BY <2>1
  <2>2. CASE y = p /\ inbox'[c][y] = Append(inbox[c][y], h)
    <3>1. PICK q \in Seq(Events) : q = inbox[c][y]
      BY <1>4
    <3>2. /\ Elements(Append(q, h)) = Elements(q) \cup {h}
          /\ \A a, b : Precedes(Append(q, h), a, b) =>
                         Precedes(q, a, b) \/ (a \in Elements(q) /\ b = h)
      BY <1>2, Appended
    <3> QED
      BY <2>2, <3>1, <3>2
  <2> QED
    BY <1>2, <2>1, <2>2
<1>9. \A c \in Clients, x \in Events :
        /\ Boxed(c, x)' => Boxed(c, x) \/ x = h
        /\ Boxed(c, x) => Boxed(c, x)'
        /\ Done(c, x)' <=> Done(c, x)
  BY <1>3, <1>8, RouteType DEF Boxed, Done, listenerVars
<1>10. WaysOK'
  <2>1. ASSUME NEW x \in Events, NEW y \in Publishers, NEW z \in Dispatchers,
               x \in Elements(wire'[z][y])
        PROVE  Route[x].by = z /\ Route[x].via = y
    <3>1. x \in Elements(wire[z][y])
      BY <1>2, <1>5, <2>1
    <3> QED
      BY <1>1, <3>1 DEF WaysOK
  <2>2. ASSUME NEW x \in Events, NEW y \in Publishers, NEW c \in Clients,
               x \in Elements(inbox'[c][y])
        PROVE  Route[x].via = y
    <3>1. x \in Elements(inbox[c][y]) \/ (x = h /\ y = p)
      BY <1>8, <2>2
    <3> QED
      BY <1>1, <1>6, <3>1 DEF WaysOK
  <2> QED
    BY <2>1, <2>2 DEF WaysOK
<1>11. ASSUME NEW c \in Clients, NEW a \in Events, NEW b \in Events,
              SameWay(a, b), Ahead(c, a, b)'
       PROVE  Ahead(c, a, b)
  <2>1. Precedes(wire[Route[a].by][Route[a].via], a, b)' =>
          Precedes(wire[Route[a].by][Route[a].via], a, b)
    BY <1>2, <1>5, RouteType
  <2>2. Precedes(inbox[c][Route[a].via], a, b)' =>
          Precedes(inbox[c][Route[a].via], a, b) \/ (Boxed(c, a) /\ b = h)
    BY <1>8, RouteType DEF Boxed
  <2>3. a = h /\ Queued(b)' => Precedes(wire[Route[a].by][Route[a].via], a, b)
    BY <1>5, <1>6, <1>11 DEF Queued, SameWay
  <2>4. UNCHANGED handled
    BY <1>3 DEF listenerVars
  <2> QED
    BY <1>6, <1>7, <1>9, <1>11, <2>1, <2>2, <2>3, <2>4 DEF Ahead
<1>12. SentOK' /\ OrderOK'
  BY <1>1, <1>3, <1>6, <1>7, <1>9, <1>11, LineKept
<1>13. \A c \in Clients, x \in Events : /\ Hears(c, x)' <=> Hears(c, x)
                                        /\ Accounted(c, x) => Accounted(c, x)'
  BY <1>2, <1>3 DEF Hears, Matching, Accounted, filterVars, listenerVars
<1>14. HeardOK'
  BY <1>1, <1>3, <1>13 DEF HeardOK, listenerVars, ghostVars
<1>15. ASSUME NEW c \in Clients, <<c, h>> \in due
       PROVE  Boxed(c, h)' \/ Accounted(c, h)'
  <2>1. CASE cpc[c] = "dead" \/ Route[h].via \in dead
    BY <1>3, <2>1 DEF Accounted, listenerVars
  <2>2. CASE Hears(c, h)
    <3>1. c \in Matched(p, h)
      BY <1>6, <2>2 DEF Hears, Matched
    <3>2. CASE <<c, h>> \in overflow'
      BY <3>2 DEF Accounted
    <3>3. CASE inbox'[c][p] = Append(inbox[c][p], h)
      <4>1. PICK q \in Seq(Events) : q = inbox[c][p]
        BY <1>4
      <4>2. Elements(Append(q, h)) = Elements(q) \cup {h}
        BY <1>2, Appended
      <4> QED
        BY <1>6, <3>3, <4>1, <4>2 DEF Boxed
    <3> QED
      BY <1>2, <3>1, <3>2, <3>3
  <2> QED
    BY <1>1, <1>2, <1>15, <2>1, <2>2 DEF HeardOK
<1>16. LossOK'
  BY <1>1, <1>3, <1>7, <1>9, <1>13, <1>15 DEF LossOK, ghostVars
<1> QED
  BY <1>10, <1>12, <1>14, <1>16 DEF PathInv

\* What the listener takes from a socket is the first of its line there, and becomes the
\* last that the handler was called for.
LEMMA ServeKeeps ==
  ASSUME DeliveryInv, NEW c \in Clients, NEW p \in Publishers, Serve(c, p)
  PROVE  PathInv'
<1> PICK h : h = Head(inbox[c][p])
  OBVIOUS
<1>1. PathInv /\ TypeOK /\ WaysOK /\ HeardOK /\ LossOK
  BY DEF DeliveryInv, PathInv
<1>2. /\ inbox[c][p] # <<>> /\ h \in Events
      /\ inbox'[c][p] = Tail(inbox[c][p])
      /\ \A x \in Clients, y \in Publishers :
           x # c \/ y # p => inbox'[x][y] = inbox[x][y]
      /\ \A x \in Clients : x # c => handled'[x] = handled[x]
      /\ handled'[c] = IF HandlerRuns(Route[h].wd) THEN Append(handled[c], h)
                       ELSE handled[c]
  BY <1>1, ServeEffect
<1>3. UNCHANGED <<filterVars, sent, wire, polled, cpc, dead, ghostVars>>
  BY DEF Serve
<1>4. inbox[c][p] \in Seq(Events) /\ handled[c] \in Seq(Events)
  BY <1>1, PipeTypes
<1>5. /\ Elements(inbox[c][p]) = Elements(inbox'[c][p]) \cup {h}
      /\ \A a, b : Precedes(inbox'[c][p], a, b) => Precedes(inbox[c][p], a, b)
      /\ \A b \in Elements(inbox'[c][p]) : Precedes(inbox[c][p], h, b)
  BY <1>2, <1>4, Removed
<1>6. Route[h].via = p /\ Boxed(c, h)
  BY <1>1, <1>2, <1>5 DEF WaysOK, Boxed
<1>7. /\ Elements(handled[c]) \subseteq Elements(handled'[c])
      /\ Elements(handled'[c]) \subseteq Elements(handled[c]) \cup {h}
      /\ HandlerRuns(Route[h].wd) => h \in Elements(handled'[c])
      /\ \A a, b : Precedes(handled'[c], a, b) =>
           Precedes(handled[c], a, b) \/ (a \in Elements(handled[c]) /\ b = h)
  <2>1. PICK q \in Seq(Events) : q = handled[c]
    BY <1>4
  <2>2. /\ Elements(Append(q, h)) = Elements(q) \cup {h}
        /\ \A a, b : Precedes(Append(q, h), a, b) =>
                       Precedes(q, a, b) \/ (a \in Elements(q) /\ b = h)
    BY <1>2, Appended
  <2> QED
    BY <1>2, <2>1, <2>2
<1>8. \A x \in Clients, e \in Events :
        /\ Boxed(x, e)' => Boxed(x, e)
        /\ Boxed(x, e) => Boxed(x, e)' \/ (x = c /\ e = h)
        /\ Done(x, e)' => Done(x, e) \/ (x = c /\ e = h)
        /\ Done(x, e) => Done(x, e)'
        /\ Queued(e)' <=> Queued(e)
  <2>1. \A e \in Events : Queued(e)' <=> Queued(e)
    BY <1>3 DEF Queued
  <2>2. \A x \in Clients, e \in Events :
          /\ Boxed(x, e)' => Boxed(x, e)
          /\ Boxed(x, e) => Boxed(x, e)' \/ (x = c /\ e = h)
    BY <1>2, <1>5, RouteType DEF Boxed
  <2>3. \A x \in Clients, e \in Events :
          /\ Done(x, e)' => Done(x, e) \/ (x = c /\ e = h)
          /\ Done(x, e) => Done(x, e)'
    BY <1>2, <1>7 DEF Done
  <2> QED
    BY <2>1, <2>2, <2>3
<1>9. WaysOK'
  <2>1. ASSUME NEW x \in Events, NEW y \in Publishers, NEW z \in Clients,
               x \in Elements(inbox'[z][y])
        PROVE  Route[x].via = y
    <3>1. x \in Elements(inbox[z][y])
      BY <1>2, <1>5, <2>1
    <3> QED
      BY <1>1, <3>1 DEF WaysOK
  <2> QED
    BY <1>1, <1>3, <2>1 DEF WaysOK
<1>10. ASSUME NEW x \in Clients, NEW a \in Events, NEW b \in Events,
              SameWay(a, b), Ahead(x, a, b)'
       PROVE  Ahead(x, a, b)
  <2>1. Precedes(inbox[x][Route[a].via], a, b)' => Precedes(inbox[x][Route[a].via], a, b)
    BY <1>2, <1>5, RouteType
  <2>2. Precedes(handled[x], a, b)' =>
          Precedes(handled[x], a, b) \/ (x = c /\ Done(c, a) /\ b = h)
    BY <1>2, <1>7 DEF Done
  <2>3. x = c /\ a = h /\ Boxed(x, b)' => Precedes(inbox[x][Route[a].via], a, b)
    BY <1>5, <1>6, <1>10 DEF Boxed, SameWay
  <2>4. UNCHANGED wire
    BY <1>3
  <2> QED
    BY <1>6, <1>8, <1>10, <2>1, <2>2, <2>3, <2>4 DEF Ahead
<1>11. SentOK' /\ OrderOK'
  BY <1>1, <1>3, <1>6, <1>8, <1>10, LineKept
<1>12. \A x \in Clients, e \in Events : /\ Hears(x, e)' <=> Hears(x, e)
                                        /\ Accounted(x, e) => Accounted(x, e)'
  BY <1>3, <1>8 DEF Hears, Matching, Accounted, filterVars, ghostVars, Done
<1>13. HeardOK'
  BY <1>1, <1>3, <1>12 DEF HeardOK, ghostVars
<1>14. HandlerRuns(Route[h].wd) => Accounted(c, h)'
  BY <1>7 DEF Accounted
<1>15. LossOK'
  BY <1>1, <1>3, <1>8, <1>12, <1>14 DEF LossOK, ghostVars
<1> QED
  BY <1>9, <1>11, <1>13, <1>15 DEF PathInv

\* A step that only takes away from the pipes, of those it says so about.
LEMMA LossKeeps ==
  ASSUME DeliveryInv, UNCHANGED <<sent, handled, due, overflow>>,
         \A d \in Dispatchers, p \in Publishers :
           wire'[d][p] = wire[d][p] \/ (wire'[d][p] = <<>> /\ p \in dead'),
         \A c \in Clients, p \in Publishers :
           inbox'[c][p] = inbox[c][p] \/ (inbox'[c][p] = <<>> /\ cpc'[c] = "dead"),
         \A c \in Clients : cpc[c] = "dead" => cpc'[c] = "dead",
         dead \subseteq dead',
         \A c \in Clients, e \in Events :
           Hears(c, e) => Hears(c, e)' \/ cpc'[c] = "dead" \/ Route[e].via \in dead'
  PROVE  PathInv'
<1>1. PathInv /\ WaysOK /\ HeardOK /\ LossOK
  BY DEF DeliveryInv, PathInv
<1>2. WaysOK'
  BY <1>1, Nothing DEF WaysOK
<1>3. \A c \in Clients, e \in Events :
        /\ Queued(e)' => Queued(e)
        /\ Queued(e) => Queued(e)' \/ Route[e].via \in dead'
        /\ Boxed(c, e)' => Boxed(c, e)
        /\ Boxed(c, e) => Boxed(c, e)' \/ cpc'[c] = "dead"
        /\ Done(c, e)' <=> Done(c, e)
  BY Nothing, RouteType DEF Queued, Boxed, Done
<1>4. \A c \in Clients, a, b \in Events : SameWay(a, b) /\ Ahead(c, a, b)' => Ahead(c, a, b)
  BY <1>3, Nothing, RouteType DEF Ahead
<1>5. SentOK' /\ OrderOK'
  BY <1>1, <1>3, <1>4, LineKept
<1>6. HeardOK'
  BY <1>1 DEF HeardOK
<1>7. \A c \in Clients, e \in Events :
        /\ Accounted(c, e) => Accounted(c, e)'
        /\ Route[e].via \in dead' \/ cpc'[c] = "dead" => Accounted(c, e)'
  BY DEF Accounted
<1>8. LossOK'
  BY <1>1, <1>3, <1>7 DEF LossOK
<1> QED
  BY <1>2, <1>5, <1>6, <1>8 DEF PathInv

LEMMA ClientDiesKeeps ==
  ASSUME DeliveryInv, NEW c \in Clients, ClientDies(c)
  PROVE  PathInv'
<1>1. /\ cpc' = [cpc EXCEPT ![c] = "dead"]
      /\ routed' = {f \in routed : f[1] # c}
      /\ inbox' = [inbox EXCEPT ![c] = [p \in Publishers |-> <<>>]]
      /\ UNCHANGED <<sent, handled, due, overflow, wire, dead>>
  BY DEF ClientDies, ghostVars
<1>2. \A x \in Clients : /\ x = c => cpc'[x] = "dead"
                         /\ x # c => cpc'[x] = cpc[x] /\ inbox'[x] = inbox[x]
                         /\ x = c => \A p \in Publishers : inbox'[x][p] = <<>>
  BY <1>1 DEF DeliveryInv, TypeOK
<1>3. \A x \in Clients, e \in Events : x # c => Hears(x, e)' = Hears(x, e)
  BY <1>1 DEF Hears, Matching
<1> QED
  BY <1>1, <1>2, <1>3, LossKeeps

LEMMA PublisherDiesKeeps ==
  ASSUME DeliveryInv, NEW p \in Publishers, PublisherDies(p)
  PROVE  PathInv'
<1>1. /\ dead' = dead \cup {p}
      /\ routed' = {f \in routed : f[2] # p}
      /\ wire' = [d \in Dispatchers |-> [wire[d] EXCEPT ![p] = <<>>]]
      /\ UNCHANGED <<sent, handled, due, overflow, inbox, cpc>>
  BY DEF PublisherDies, listenerVars, ghostVars
<1>2. \A d \in Dispatchers, y \in Publishers :
        wire'[d][y] = wire[d][y] \/ (wire'[d][y] = <<>> /\ y = p)
  BY <1>1 DEF DeliveryInv, TypeOK
<1>3. \A x \in Clients, e \in Events : Route[e].via # p => Hears(x, e)' = Hears(x, e)
  BY <1>1 DEF Hears, Matching
<1> QED
  BY <1>1, <1>2, <1>3, LossKeeps

\* Filters that travel, and a listener that starts or polls, touch no event.
LEMMA QuietKeeps ==
  ASSUME DeliveryInv, UNCHANGED <<sent, wire, inbox, handled, dead, ghostVars>>,
         routed \subseteq routed',
         \A c \in Clients : cpc[c] = "dead" => cpc'[c] = "dead"
  PROVE  PathInv'
<1>1. \A c \in Clients, e \in Events : Hears(c, e) => Hears(c, e)'
  BY DEF Hears, Matching
<1> QED
  BY <1>1, LossKeeps DEF ghostVars

LEMMA StepDeliveryInv == DeliveryInv /\ [Next]_vars => DeliveryInv'
<1> SUFFICES ASSUME DeliveryInv, [Next]_vars PROVE DeliveryInv'
  OBVIOUS
<1>1. TypeOK /\ TypeOK'
  BY StepTypeOK DEF DeliveryInv
<1>2. PathInv'
  <2>1. ASSUME UNCHANGED vars PROVE PathInv'
    BY <2>1, QuietKeeps DEF vars, filterVars, listenerVars
  <2>2. CASE Network
    <3>1. UNCHANGED <<sent, wire, inbox, listenerVars, dead, ghostVars>>
      BY <2>2 DEF Network, RouteFilter, PassFilter, PassUnsubscribe
    <3>2. routed \subseteq routed'
      BY <2>2 DEF Network, RouteFilter, PassFilter, PassUnsubscribe
    <3> QED
      BY <3>1, <3>2, QuietKeeps DEF listenerVars
  <2>3. ASSUME NEW c \in Clients, Client(c) PROVE PathInv'
    <3>1. ASSUME NEW p \in Publishers, NEW w \in Wds, SetFilter(c, p, w) PROVE PathInv'
      BY <3>1, QuietKeeps DEF SetFilter, listenerVars
    <3>2. CASE StartListener(c)
      BY <1>1, <3>2, QuietKeeps DEF StartListener, filterVars, TypeOK
    <3>3. CASE Poll(c)
      BY <3>3, QuietKeeps DEF Poll, filterVars
    <3> QED
      BY <2>3, <3>1, <3>2, <3>3, ServeKeeps DEF Client
  <2> QED
    BY <2>1, <2>2, <2>3, SendKeeps, ForwardKeeps, ClientDiesKeeps, PublisherDiesKeeps
       DEF Next, Publisher
<1> QED
  BY <1>1, <1>2 DEF DeliveryInv

LEMMA DeliveryInvariant == Spec => []DeliveryInv
  BY InitDeliveryInv, StepDeliveryInv, PTL DEF Spec

-----------------------------------------------------------------------------
(* The theorems                                                            *)

\* Position finds the one place of an event that was sent.
LEMMA PositionOf ==
  ASSUME SentOK, NEW i \in 1 .. Len(sent)
  PROVE  Position(sent[i]) = i
<1>1. \E k \in 1 .. Len(sent) : sent[k] = sent[i]
  OBVIOUS
<1>2. Position(sent[i]) \in 1 .. Len(sent) /\ sent[Position(sent[i])] = sent[i]
  BY <1>1, Zenon DEF Position
<1> QED
  BY <1>2 DEF SentOK

\* The handler of a client runs once for an event, and for the events of one way in
\* the order in which the dispatcher sent them, however many of its ids match, whoever
\* dies and whatever is dropped.
THEOREM HandledOnce == Spec => []HandledOnceInOrder
<1>1. ASSUME DeliveryInv PROVE HandledOnceInOrder
  <2> SUFFICES ASSUME NEW c \in Clients, NEW i \in 1 .. Len(handled[c]),
                      NEW j \in 1 .. Len(handled[c]), i < j
               PROVE  /\ handled[c][i] # handled[c][j]
                      /\ SameWay(handled[c][i], handled[c][j]) =>
                           Position(handled[c][i]) < Position(handled[c][j])
    BY DEF HandledOnceInOrder, SameWay
  <2>1. TypeOK /\ SentOK /\ OrderOK /\ sent \in Seq(Events)
    BY <1>1 DEF DeliveryInv, PathInv, TypeOK
  <2>2. handled[c] \in Seq(Events)
    BY <2>1 DEF TypeOK
  <2>3. PICK a \in Events, b \in Events : a = handled[c][i] /\ b = handled[c][j]
    BY <2>2
  <2>4. Precedes(handled[c], a, b)
    BY <2>3 DEF Precedes
  <2>5. ASSUME SameWay(a, b) PROVE a # b /\ Position(a) < Position(b)
    <3>1. PICK k, l \in 1 .. Len(sent) : k < l /\ sent[k] = a /\ sent[l] = b
      BY <2>1, <2>4, <2>5 DEF OrderOK, Ahead, Precedes
    <3>2. Position(a) = k /\ Position(b) = l
      BY <2>1, <3>1, PositionOf
    <3>3. k # l
      BY <2>1, <3>1
    <3> QED
      BY <2>1, <3>1, <3>2, <3>3
  <2>6. a = b => SameWay(a, b)
    BY DEF SameWay
  <2> QED
    BY <2>3, <2>5, <2>6
<1> QED
  BY <1>1, DeliveryInvariant, PTL

\* An event that was promised to a client is on its way, was handled, was dropped at a
\* full pipe or died with a process, or is one the listener passes over (rnot.h:82).
THEOREM NothingLostSilently == Spec => []NoSilentLoss
<1>1. ASSUME DeliveryInv PROVE NoSilentLoss
  <2> SUFFICES ASSUME NEW f \in due
               PROVE  OnTheWay(f[1], f[2]) \/ Accounted(f[1], f[2])
                      \/ ~HandlerRuns(Route[f[2]].wd)
    BY DEF NoSilentLoss
  <2>1. f[1] \in Clients /\ f[2] \in Events /\ <<f[1], f[2]>> \in due
    <3>1. due \in SUBSET (Clients \X Events)
      BY <1>1 DEF DeliveryInv, TypeOK
    <3>2. f \in Clients \X Events
      BY <3>1
    <3>3. f[1] \in Clients /\ f[2] \in Events /\ f = <<f[1], f[2]>>
      BY <3>2
    <3> QED
      BY <3>3
  <2> QED
    BY <1>1, <2>1 DEF DeliveryInv, PathInv, LossOK, OnTheWay, Queued, Boxed
<1> QED
  BY <1>1, DeliveryInvariant, PTL

-----------------------------------------------------------------------------
(* The benchmark                                                           *)

\* The applications whose event of this round has been handled.
Reported == {a \in expected : events[a] = <<>>}

OfRound(q) == \A i \in DOMAIN q : q[i] = [round |-> round, from |-> round]

\* While no message is late: what is under way belongs to the round, and the times under
\* way or counted are as many as the applications that have reported.
InTime ==
  late = 0 =>
    /\ \A a \in Apps : \/ starts[a] = <<>> /\ started[a] = round
                       \/ starts[a] = <<round>> /\ tester = "sleep"
    /\ \A a \in Apps : \/ events[a] = <<>>
                       \/ events[a] = <<round>> /\ a \in expected /\ tester = "collect"
    /\ tester # "collect" => results = <<>>
    /\ OfRound(results)
    /\ tester # "sleep" => /\ OfRound(counted)
                           /\ IsFiniteSet(Reported)
                           /\ Cardinality(Reported) = Len(results) + Len(counted)

BenchmarkInv ==
  /\ BenchmarkTypeOK /\ InTime
  /\ tester # "enter" => round > 0

LEMMA FewDirs ==
  ASSUME BenchmarkTypeOK, NEW a \in Apps
  PROVE  IsFiniteSet(subs[a]) /\ Cardinality(subs[a]) \in Nat
BY BenchmarkAssumption, FS_Subset, FS_CardinalityType DEF BenchmarkTypeOK

LEMMA OneMoreTime ==
  ASSUME NEW S, NEW q \in Seq(S), NEW e \in S
  PROVE  /\ Append(q, e) \in Seq(S) /\ Len(Append(q, e)) = Len(q) + 1
         /\ \A i \in DOMAIN Append(q, e) : \/ i \in DOMAIN q /\ Append(q, e)[i] = q[i]
                                           \/ Append(q, e)[i] = e
  OBVIOUS

LEMMA OnlyTime ==
  ASSUME NEW S, NEW e \in S
  PROVE  Append(<<>>, e) = <<e>> /\ <<e>> # <<>>
  OBVIOUS

LEMMA FirstTaken ==
  ASSUME NEW S, NEW q \in Seq(S), q # <<>>
  PROVE  /\ Head(q) \in S /\ Head(q) = q[1] /\ 1 \in DOMAIN q
         /\ Tail(q) \in Seq(S) /\ Len(Tail(q)) = Len(q) - 1
         /\ \A i \in DOMAIN Tail(q) : i + 1 \in DOMAIN q /\ Tail(q)[i] = q[i + 1]
  OBVIOUS

LEMMA InitBenchmarkInv == BenchmarkInit => BenchmarkInv
<1> SUFFICES ASSUME BenchmarkInit PROVE BenchmarkInv
  OBVIOUS
<1>1. BenchmarkTypeOK
  BY BenchmarkAssumption, FS_EmptySet DEF BenchmarkInit, BenchmarkTypeOK
<1>2. Reported = {}
  BY DEF BenchmarkInit, Reported
<1>3. InTime
  BY <1>2, FS_EmptySet DEF BenchmarkInit, InTime, OfRound
<1> QED
  BY <1>1, <1>3 DEF BenchmarkInit, BenchmarkInv

LEMMA DrawInv ==
  ASSUME BenchmarkInv, NEW a \in Apps, NEW d \in Dirs, Draw(a, d)
  PROVE  BenchmarkInv'
<1>1. IsFiniteSet(subs[a]) /\ Cardinality(subs[a]) \in Nat
  BY FewDirs DEF BenchmarkInv
<1>2. Cardinality(subs[a] \cup {d}) <= Count[a]
  <2>1. \/ Cardinality(subs[a] \cup {d}) = Cardinality(subs[a])
        \/ Cardinality(subs[a] \cup {d}) = Cardinality(subs[a]) + 1
    BY <1>1, FS_AddElement
  <2>2. Count[a] \in Nat /\ Cardinality(subs[a]) < Count[a]
    BY BenchmarkAssumption DEF Draw
  <2> QED
    BY <1>1, <2>1, <2>2
<1>3. BenchmarkTypeOK'
  <2>1. subs' = [subs EXCEPT ![a] = subs[a] \cup {d}] /\ a \notin listening
    BY DEF Draw
  <2>2. \A x \in Apps : /\ Cardinality(subs'[x]) <= Count[x]
                        /\ x \in listening' => Cardinality(subs'[x]) = Count[x]
    BY <1>2, <2>1 DEF BenchmarkInv, BenchmarkTypeOK, Draw
  <2>3. subs' \in [Apps -> SUBSET Dirs]
    BY <2>1 DEF BenchmarkInv, BenchmarkTypeOK
  <2>4. UNCHANGED <<listening, starts, events, started, results, tester, round, counted,
                    expected, late>>
    BY DEF Draw
  <2> QED
    BY <2>2, <2>3, <2>4 DEF BenchmarkInv, BenchmarkTypeOK
<1>4. InTime'
  BY DEF BenchmarkInv, InTime, OfRound, Reported, Draw
<1> QED
  BY <1>3, <1>4 DEF BenchmarkInv, Draw

LEMMA ListenInv ==
  ASSUME BenchmarkInv, NEW a \in Apps, Listen(a)
  PROVE  BenchmarkInv'
<1>1. BenchmarkTypeOK'
  BY DEF BenchmarkInv, BenchmarkTypeOK, Listen
<1>2. InTime'
  BY DEF BenchmarkInv, InTime, OfRound, Reported, Listen
<1> QED
  BY <1>1, <1>2 DEF BenchmarkInv, Listen

LEMMA TakeStartInv ==
  ASSUME BenchmarkInv, NEW a \in Apps, TakeStart(a)
  PROVE  BenchmarkInv'
<1> USE DEF TakeStart, appVars
<1>1. starts[a] \in Seq(1 .. MaxRounds) /\ starts[a] # <<>>
  BY DEF BenchmarkInv, BenchmarkTypeOK
<1>2. Head(starts[a]) \in 1 .. MaxRounds /\ Tail(starts[a]) \in Seq(1 .. MaxRounds)
  BY <1>1, FirstTaken
<1>3. BenchmarkTypeOK'
  <2>1. /\ starts' \in [Apps -> Seq(1 .. MaxRounds)]
        /\ started' \in [Apps -> 0 .. MaxRounds]
    BY <1>2, BenchmarkAssumption DEF BenchmarkInv, BenchmarkTypeOK
  <2> QED
    BY <2>1 DEF BenchmarkInv, BenchmarkTypeOK
<1>4. InTime'
  <2> SUFFICES ASSUME late = 0 PROVE InTime'
    BY DEF InTime
  <2>1. starts[a] = <<round>> /\ tester = "sleep"
    BY <1>1 DEF BenchmarkInv, InTime
  <2>2. Head(starts[a]) = round /\ Tail(starts[a]) = <<>>
    BY <2>1
  <2>3. starts'[a] = <<>> /\ started'[a] = round'
    BY <2>2 DEF BenchmarkInv, BenchmarkTypeOK
  <2>4. \A x \in Apps \ {a} : starts'[x] = starts[x] /\ started'[x] = started[x]
    BY DEF BenchmarkInv, BenchmarkTypeOK
  <2> QED
    BY <2>1, <2>3, <2>4 DEF BenchmarkInv, InTime, OfRound
<1> QED
  BY <1>3, <1>4 DEF BenchmarkInv

LEMMA HandleInv ==
  ASSUME BenchmarkInv, NEW a \in Apps, Handle(a)
  PROVE  BenchmarkInv'
<1> USE DEF Handle, appVars
<1> DEFINE time == [round |-> Head(events[a]), from |-> started[a]]
<1>1. events[a] \in Seq(1 .. MaxRounds) /\ events[a] # <<>>
  BY DEF BenchmarkInv, BenchmarkTypeOK
<1>2. Head(events[a]) \in 1 .. MaxRounds /\ Tail(events[a]) \in Seq(1 .. MaxRounds)
  BY <1>1, FirstTaken
<1>3. time \in Result /\ results \in Seq(Result)
  BY <1>2 DEF BenchmarkInv, BenchmarkTypeOK, Result
<1>4. results' = Append(results, time)
  OBVIOUS
<1> HIDE DEF time
<1>5. /\ results' \in Seq(Result) /\ Len(results') = Len(results) + 1
      /\ \A i \in DOMAIN results' : \/ i \in DOMAIN results /\ results'[i] = results[i]
                                    \/ results'[i] = time
  BY <1>3, <1>4, OneMoreTime
<1>6. BenchmarkTypeOK'
  BY <1>2, <1>5 DEF BenchmarkInv, BenchmarkTypeOK
<1>7. InTime'
  <2> SUFFICES ASSUME late = 0 PROVE InTime'
    BY DEF InTime
  <2>1. events[a] = <<round>> /\ a \in expected /\ tester = "collect"
    BY <1>1 DEF BenchmarkInv, InTime
  <2>2. started[a] = round
    BY <2>1 DEF BenchmarkInv, InTime
  <2>3. time = [round |-> round, from |-> round] /\ Tail(events[a]) = <<>>
    BY <2>1, <2>2 DEF time
  <2>4. OfRound(results)' /\ OfRound(counted)'
    BY <1>5, <2>1, <2>3 DEF BenchmarkInv, InTime, OfRound
  <2>5. events'[a] = <<>> /\ \A x \in Apps \ {a} : events'[x] = events[x]
    BY <2>3 DEF BenchmarkInv, BenchmarkTypeOK
  <2>6. Reported' = Reported \cup {a} /\ a \notin Reported
    BY <1>1, <2>1, <2>5 DEF BenchmarkInv, BenchmarkTypeOK, Reported
  <2>7. IsFiniteSet(Reported) /\ Cardinality(Reported) = Len(results) + Len(counted)
    BY <2>1 DEF BenchmarkInv, InTime
  <2>8. IsFiniteSet(Reported') /\ Cardinality(Reported') = Cardinality(Reported) + 1
    BY <2>6, <2>7, FS_AddElement
  <2>9. Cardinality(Reported') = Len(results') + Len(counted')
    <3>1. Len(results) \in Nat /\ Len(counted) \in Nat /\ counted' = counted
      BY DEF BenchmarkInv, BenchmarkTypeOK
    <3> QED
      BY <1>5, <2>7, <2>8, <3>1
  <2> QED
    BY <2>1, <2>4, <2>5, <2>8, <2>9 DEF BenchmarkInv, InTime
<1> QED
  BY <1>6, <1>7 DEF BenchmarkInv

LEMMA StartInv == BenchmarkInv /\ Start => BenchmarkInv'
<1> SUFFICES ASSUME BenchmarkInv, Start PROVE BenchmarkInv'
  OBVIOUS
<1> USE DEF Start, appVars
<1>1. /\ round \in Nat /\ round' = round + 1 /\ round' \in 1 .. MaxRounds
      /\ late \in Nat /\ MaxLate \in Nat
  BY BenchmarkAssumption DEF BenchmarkInv, BenchmarkTypeOK
<1>2. PICK unheard \in SUBSET {a \in Apps : started[a] = 0 /\ starts[a] = <<>>} :
        /\ Late(unheard # {})
        /\ starts' = [a \in Apps |-> IF a \in unheard THEN starts[a]
                                    ELSE Append(starts[a], round')]
  BY <1>1
<1>3. /\ late' \in 0 .. MaxLate
      /\ late' = 0 => late = 0 /\ unheard = {}
  BY <1>1, <1>2 DEF Late, BenchmarkInv, BenchmarkTypeOK
<1>4. BenchmarkTypeOK'
  <2>1. \A a \in Apps : /\ starts[a] \in Seq(1 .. MaxRounds)
                        /\ Append(starts[a], round') \in Seq(1 .. MaxRounds)
    BY <1>1, OneMoreTime DEF BenchmarkInv, BenchmarkTypeOK
  <2>2. starts' \in [Apps -> Seq(1 .. MaxRounds)]
    BY <1>2, <2>1
  <2> QED
    BY <1>1, <1>3, <2>2 DEF BenchmarkInv, BenchmarkTypeOK
<1>5. InTime'
  <2> SUFFICES ASSUME late' = 0 PROVE InTime'
    BY DEF InTime
  <2>1. \A a \in Apps : starts[a] = <<>> /\ events[a] = <<>>
    BY <1>3 DEF BenchmarkInv, InTime
  <2>2. \A a \in Apps : starts'[a] = <<round'>>
    BY <1>1, <1>2, <1>3, <2>1, OnlyTime
  <2>3. results = <<>>
    BY <1>3 DEF BenchmarkInv, InTime
  <2> QED
    BY <2>1, <2>2, <2>3 DEF InTime, OfRound
<1> QED
  BY <1>1, <1>4, <1>5 DEF BenchmarkInv

LEMMA OpenFileInv == BenchmarkInv /\ OpenFile => BenchmarkInv'
<1> SUFFICES ASSUME BenchmarkInv, OpenFile PROVE BenchmarkInv'
  OBVIOUS
<1> USE DEF OpenFile, appVars
<1>1. round \in 1 .. MaxRounds /\ late \in Nat /\ late' \in 0 .. MaxLate
  BY BenchmarkAssumption DEF BenchmarkInv, BenchmarkTypeOK, Late
<1>2. events' \in [Apps -> Seq(1 .. MaxRounds)]
  <2>1. \A a \in Apps : /\ events[a] \in Seq(1 .. MaxRounds)
                        /\ Append(events[a], round) \in Seq(1 .. MaxRounds)
    BY <1>1, OneMoreTime DEF BenchmarkInv, BenchmarkTypeOK
  <2> QED
    BY <2>1
<1>3. BenchmarkTypeOK'
  <2>1. expected' \subseteq Apps /\ counted' \in Seq(Result)
    OBVIOUS
  <2> QED
    BY <1>1, <1>2, <2>1 DEF BenchmarkInv, BenchmarkTypeOK
<1>4. InTime'
  <2> SUFFICES ASSUME late' = 0 PROVE InTime'
    BY DEF InTime
  <2>1. late = 0 /\ \A a \in Apps : starts[a] = <<>>
    BY <1>1 DEF Late
  <2>2. \A a \in Apps : events[a] = <<>>
    BY <2>1 DEF BenchmarkInv, InTime
  <2>3. \A a \in Apps : \/ events'[a] = <<>> /\ a \notin expected'
                        \/ /\ events'[a] = <<round>> /\ events'[a] # <<>>
                           /\ a \in expected'
    BY <1>1, <2>2, OnlyTime
  <2>4. Reported' = {}
    BY <2>3 DEF Reported
  <2>5. IsFiniteSet(Reported') /\ Cardinality(Reported') = 0
    BY <2>4, FS_EmptySet
  <2>6. results = <<>>
    BY <2>1 DEF BenchmarkInv, InTime
  <2>7. \A a \in Apps : starts'[a] = <<>> /\ started'[a] = round'
    BY <2>1 DEF BenchmarkInv, InTime
  <2> QED
    BY <2>3, <2>5, <2>6, <2>7 DEF InTime, OfRound
<1> QED
  BY <1>1, <1>3, <1>4 DEF BenchmarkInv

LEMMA CollectInv == BenchmarkInv /\ Collect => BenchmarkInv'
<1> SUFFICES ASSUME BenchmarkInv, Collect PROVE BenchmarkInv'
  OBVIOUS
<1> USE DEF Collect, appVars
<1>1. results \in Seq(Result) /\ counted \in Seq(Result) /\ results # <<>>
  BY DEF BenchmarkInv, BenchmarkTypeOK
<1>2. /\ Head(results) \in Result /\ Head(results) = results[1] /\ 1 \in DOMAIN results
      /\ results' \in Seq(Result) /\ Len(results') = Len(results) - 1
      /\ \A i \in DOMAIN results' : i + 1 \in DOMAIN results /\ results'[i] = results[i + 1]
  BY <1>1, FirstTaken
<1>3. /\ counted' \in Seq(Result) /\ Len(counted') = Len(counted) + 1
      /\ \A i \in DOMAIN counted' : \/ i \in DOMAIN counted /\ counted'[i] = counted[i]
                                    \/ counted'[i] = Head(results)
  BY <1>1, <1>2, OneMoreTime
<1>4. BenchmarkTypeOK'
  BY <1>2, <1>3 DEF BenchmarkInv, BenchmarkTypeOK
<1>5. InTime'
  <2> SUFFICES ASSUME late = 0 PROVE InTime'
    BY DEF InTime
  <2>1. OfRound(results)' /\ OfRound(counted)'
    BY <1>2, <1>3 DEF BenchmarkInv, InTime, OfRound
  <2>2. Len(results') + Len(counted') = Len(results) + Len(counted)
    BY <1>1, <1>2, <1>3
  <2>3. Reported' = Reported
    BY DEF Reported
  <2> QED
    BY <2>1, <2>2, <2>3 DEF BenchmarkInv, InTime
<1> QED
  BY <1>4, <1>5 DEF BenchmarkInv

LEMMA SilenceInv == BenchmarkInv /\ Silence => BenchmarkInv'
<1> SUFFICES ASSUME BenchmarkInv, Silence PROVE BenchmarkInv'
  OBVIOUS
<1> USE DEF Silence, appVars
<1>1. late \in Nat /\ late' \in 0 .. MaxLate
  BY BenchmarkAssumption DEF BenchmarkInv, BenchmarkTypeOK, Late
<1>2. BenchmarkTypeOK'
  BY <1>1 DEF BenchmarkInv, BenchmarkTypeOK
<1>3. InTime'
  <2> SUFFICES ASSUME late' = 0 PROVE InTime'
    BY DEF InTime
  <2>1. late = 0 /\ \A a \in Apps : events[a] = <<>>
    BY <1>1 DEF Late
  <2>2. Reported' = Reported
    BY DEF Reported
  <2> QED
    BY <2>1, <2>2 DEF BenchmarkInv, InTime, OfRound
<1> QED
  BY <1>2, <1>3 DEF BenchmarkInv

LEMMA StepBenchmarkInv == BenchmarkInv /\ [BenchmarkNext]_benchVars => BenchmarkInv'
<1> SUFFICES ASSUME BenchmarkInv, [BenchmarkNext]_benchVars PROVE BenchmarkInv'
  OBVIOUS
<1>1. CASE UNCHANGED benchVars
  BY <1>1 DEF benchVars, BenchmarkInv, BenchmarkTypeOK, InTime, OfRound, Reported
<1>2. CASE \E a \in Apps : Listen(a) \/ TakeStart(a) \/ Handle(a) \/ \E d \in Dirs : Draw(a, d)
  BY <1>2, ListenInv, TakeStartInv, HandleInv, DrawInv
<1>3. CASE Start \/ OpenFile \/ Collect \/ Silence
  BY <1>3, StartInv, OpenFileInv, CollectInv, SilenceInv
<1> QED
  BY <1>1, <1>2, <1>3 DEF BenchmarkNext

LEMMA BenchmarkInvariant == BenchmarkSpec => []BenchmarkInv
<1> QED
  BY InitBenchmarkInv, StepBenchmarkInv, PTL DEF BenchmarkSpec

\* Of every number of applications, of directories and of rounds: both threads of an
\* application, the messages under way and the tester are in the round they take
\* themselves to be in, and while no message is late a time that counts is measured from
\* the start of its own round (tester.c:41-72, application.c:16).
THEOREM TimesAreOfTheRound == BenchmarkSpec => []RoundConsistent
<1>1. BenchmarkInv => RoundConsistent
  BY DEF BenchmarkInv, InTime, OfRound, RoundConsistent, TimesOfTheRound
<1> QED
  BY <1>1, BenchmarkInvariant, PTL

\* While no message is late, the average is taken of exactly one time for each
\* application that watches the directory (tester.c:67).
THEOREM AverageOfAll == BenchmarkSpec => []EveryoneCounted
<1>1. ASSUME BenchmarkInv PROVE EveryoneCounted
  <2> SUFFICES ASSUME late = 0, tester = "enter"
               PROVE  Len(counted) = Cardinality(expected)
    BY DEF EveryoneCounted
  <2>1. Reported = expected /\ results = <<>>
    BY <1>1 DEF BenchmarkInv, BenchmarkTypeOK, InTime, Reported
  <2>2. Cardinality(Reported) = Len(results) + Len(counted)
    BY <1>1 DEF BenchmarkInv, InTime
  <2>3. Len(counted) \in Nat
    BY <1>1 DEF BenchmarkInv, BenchmarkTypeOK
  <2> QED
    BY <2>1, <2>2, <2>3
<1> QED
  BY <1>1, BenchmarkInvariant, PTL
=============================================================================
