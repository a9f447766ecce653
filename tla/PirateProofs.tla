---------------------------- MODULE PirateProofs ----------------------------
(***************************************************************************)
(* For every number of workers and clients, every list of calls and every  *)
(* number of crashes: the Pirate patterns implement RequestReply, and the  *)
(* lists of the two queues are what their loops take them for.             *)
(*                                                                         *)
(* The lists play no part in the first: what counts is that an attempt is  *)
(* in at most one place on its way to a worker, and only afterwards on its *)
(* way back (IInv).  The second needs that the deadlines of ppqueue.c      *)
(* order its list, and that an identity of spqueue.c is in one place:      *)
(* listed, or with a request, or with an answer (ListInv).                 *)
(***************************************************************************)
EXTENDS Pirate, SequenceTheorems, TLAPS

Made(a) ==
  \/ a.call < call[a.client]
  \/ a.call = call[a.client] /\ a.try <= try[a.client]

ClientsOK ==
  /\ call \in [Clients -> Nat \ {0}]
  /\ try \in [Clients -> 0 .. Retries]
  /\ \A c \in Clients : /\ call[c] <= Len(Calls[c]) + 1
                        /\ try[c] # 0 => call[c] <= Len(Calls[c])

ServedOK ==
  /\ served \in [Attempts -> Nat]
  /\ \A a \in Attempts : served[a] > 0 => Made(a)

\* What has not been served: made, and in one place.
RequestsOK ==
  \A a \in requests : /\ a \in Attempts /\ Made(a) /\ served[a] = 0
                      /\ \A m \in routed : m[2] # a

RoutedOK ==
  /\ \A m \in routed : /\ m = <<m[1], m[2]>>
                       /\ m[2] \in Attempts /\ Made(m[2]) /\ served[m[2]] = 0
  /\ \A m, n \in routed : m[2] = n[2] => m = n

\* What goes back was served.
AnswersOK ==
  /\ \A m \in returned : m[2] \in Attempts => served[m[2]] > 0
  /\ \A a \in replies : a \in Attempts /\ served[a] > 0

IInv == ClientsOK /\ ServedOK /\ RequestsOK /\ RoutedOK /\ AnswersOK

\* A sign of life is not an attempt, and Calls is a function to sequences.
LEMMA SignIsNone == Sign \notin Attempts
  <1> SUFFICES ASSUME Sign \in Attempts PROVE FALSE
    OBVIOUS
  <1>1. DOMAIN Sign = {"client"}
    BY DEF Sign
  <1>2. DOMAIN Sign = {"client", "call", "try"}
    BY DEF Attempts
  <1> QED BY <1>1, <1>2

\* The attempts of a client are numbered by its calls and tries.
LEMMA AttemptType ==
  ASSUME NEW c \in Clients, NEW k \in Nat \ {0}, k <= Len(Calls[c]), NEW t \in 1 .. Retries
  PROVE  [client |-> c, call |-> k, try |-> t] \in Attempts
  <1>1. k \in DOMAIN Calls[c]
    BY PirateAssumption
  <1> QED BY <1>1 DEF Attempts

LEMMA AttemptFields ==
  ASSUME NEW a \in Attempts
  PROVE  a.client \in Clients /\ a.call \in Nat /\ a.try \in 1 .. Retries
  <1>1. \A c \in Clients : DOMAIN Calls[c] \subseteq Nat
    BY PirateAssumption
  <1> QED BY <1>1 DEF Attempts

LEMMA Initially == Init => IInv
  <1> SUFFICES ASSUME Init PROVE IInv
    OBVIOUS
  <1> USE PirateAssumption DEF Init
  <1>1. ClientsOK
    BY DEF ClientsOK
  <1>2. ServedOK
    BY DEF ServedOK
  <1>3. RequestsOK /\ RoutedOK
    BY DEF RequestsOK, RoutedOK
  <1>4. AnswersOK
    BY SignIsNone DEF AnswersOK
  <1> QED BY <1>1, <1>2, <1>3, <1>4 DEF IInv

\* A step of a client keeps what was made.
LEMMA MadeStays ==
  ASSUME IInv,
         NEW c \in Clients,
         \/ ClientSend(c) \/ ClientRecv(c) \/ ClientRetry(c) \/ ClientAbandon(c)
  PROVE  ClientsOK' /\ \A a \in Attempts : Made(a) => Made(a)'
  <1> USE AttemptFields, PirateAssumption DEF IInv, ClientsOK, Made
  <1>1. CASE ClientSend(c)
    BY <1>1 DEF ClientSend
  <1>2. CASE ClientRecv(c)
    BY <1>2 DEF ClientRecv
  <1>3. CASE ClientRetry(c)
    BY SMTT(40), <1>3 DEF ClientRetry
  <1>4. CASE ClientAbandon(c)
    BY <1>4 DEF ClientAbandon
  <1> QED BY <1>1, <1>2, <1>3, <1>4

\* A client that sends makes one attempt more, and it is a new one.
LEMMA SendKeeps ==
  ASSUME IInv,
         NEW c \in Clients, ClientSend(c) \/ ClientRetry(c)
  PROVE  IInv'
  <1> PICK b : b = [client |-> c, call |-> call[c], try |-> try[c] + 1]
    OBVIOUS
  <1>0. try[c] + 1 \in 1 .. Retries /\ call[c] <= Len(Calls[c]) /\ call[c] \in Nat \ {0}
    BY PirateAssumption DEF IInv, ClientsOK, ClientSend, ClientRetry
  <1>1. b \in Attempts
    BY <1>0, AttemptType
  <1>2. ~Made(b)
    BY <1>0 DEF Made, IInv, ClientsOK
  <1>3. try' = [try EXCEPT ![c] = try[c] + 1] /\ call' = call
    BY DEF ClientSend, ClientRetry, IInv, ClientsOK
  <1>4. Made(b)'
    BY <1>0, <1>3 DEF Made, IInv, ClientsOK
  <1>5. requests' \subseteq requests \cup {b}
    BY DEF ClientSend, ClientRetry, Attempt, IInv, ClientsOK
  <1>6. UNCHANGED <<routed, returned, replies, served>>
    BY DEF ClientSend, ClientRetry
  <1>7. ClientsOK' /\ \A a \in Attempts : Made(a) => Made(a)'
    BY MadeStays
  <1>8. served[b] = 0 /\ \A m \in routed : m[2] # b
    BY <1>1, <1>2 DEF IInv, ServedOK, RoutedOK
  <1>9. ServedOK' /\ RoutedOK' /\ AnswersOK'
    BY <1>6, <1>7 DEF IInv, ServedOK, RoutedOK, AnswersOK
  <1>10. RequestsOK'
    <2> SUFFICES ASSUME NEW a \in requests'
                 PROVE  /\ a \in Attempts /\ Made(a)' /\ served[a] = 0
                        /\ \A m \in routed : m[2] # a
      BY <1>6 DEF RequestsOK
    <2>1. CASE a = b
      BY <2>1, <1>1, <1>4, <1>8
    <2>2. CASE a \in requests
      BY <2>2, <1>7 DEF IInv, RequestsOK
    <2> QED BY <2>1, <2>2, <1>5
  <1> QED BY <1>7, <1>9, <1>10 DEF IInv

LEMMA DoneKeeps ==
  ASSUME IInv,
         NEW c \in Clients, ClientRecv(c) \/ ClientAbandon(c)
  PROVE  IInv'
  <1>1. ClientsOK' /\ \A a \in Attempts : Made(a) => Made(a)'
    BY MadeStays
  <1>2. replies' \subseteq replies /\ UNCHANGED <<requests, routed, returned, served>>
    BY DEF ClientRecv, ClientAbandon
  <1>3. ServedOK' /\ RoutedOK' /\ AnswersOK' /\ RequestsOK'
    BY <1>1, <1>2 DEF IInv, ServedOK, RoutedOK, AnswersOK, RequestsOK
  <1> QED BY <1>1, <1>3 DEF IInv

\* Crashes, restarts and lost messages only take away; so do the other steps that
\* leave the clients and the served attempts alone.
LEMMA LossKeeps ==
  ASSUME IInv, UNCHANGED <<call, try, served>>,
         requests' \subseteq requests, routed' \subseteq routed, replies' \subseteq replies,
         \A m \in returned' : m \in returned \/ m[2] = Sign
  PROVE  IInv'
  <1>1. \A a : Made(a)' = Made(a)
    BY DEF Made
  <1>2. ClientsOK' /\ ServedOK'
    BY <1>1 DEF IInv, ClientsOK, ServedOK
  <1>3. RequestsOK' /\ RoutedOK'
    BY <1>1 DEF IInv, RequestsOK, RoutedOK
  <1>4. AnswersOK'
    BY SignIsNone DEF IInv, AnswersOK
  <1> QED BY <1>2, <1>3, <1>4 DEF IInv

\* A request that is routed is no longer waiting.
LEMMA RouteKeeps ==
  ASSUME IInv, NEW a \in requests, ToWorker(a)
  PROVE  IInv'
  <1> USE DEF ToWorker, clientVars
  <1>1. \A x : Made(x)' = Made(x)
    BY DEF Made
  <1>2. ClientsOK' /\ ServedOK' /\ AnswersOK'
    BY <1>1 DEF IInv, ClientsOK, ServedOK, AnswersOK
  <1>3. RequestsOK'
    BY <1>1 DEF IInv, RequestsOK
  <1>4. RoutedOK'
    BY <1>1 DEF IInv, RoutedOK, RequestsOK
  <1> QED BY <1>2, <1>3, <1>4 DEF IInv

\* A message of a worker goes on to the client.
LEMMA ReturnKeeps ==
  ASSUME IInv, NEW i, NEW m \in Attempts \cup {Sign}, FromWorker(i, m)
  PROVE  IInv'
  <1> USE DEF FromWorker, clientVars
  <1>1. \A x : Made(x)' = Made(x)
    BY DEF Made
  <1>2. ClientsOK' /\ ServedOK' /\ RequestsOK' /\ RoutedOK'
    BY <1>1 DEF IInv, ClientsOK, ServedOK, RequestsOK, RoutedOK
  <1>3. AnswersOK'
    BY DEF IInv, AnswersOK
  <1> QED BY <1>2, <1>3 DEF IInv

\* An attempt that is served is taken from its one place.
LEMMA ServeKeeps ==
  ASSUME IInv, NEW w \in Workers, NEW a \in Attempts, Serve(w, a)
  PROVE  IInv' /\ served[a] = 0 /\ Made(a)
  <1> USE DEF Serve, clientVars
  <1>1. \A x : Made(x)' = Made(x)
    BY DEF Made
  <1>2. served[a] = 0 /\ Made(a) /\ a \notin requests
    BY DEF IInv, RoutedOK, RequestsOK
  <1>3. served' \in [Attempts -> Nat] /\ served'[a] = 1
        /\ \A b \in Attempts : b # a => served'[b] = served[b]
    BY <1>2 DEF IInv, ServedOK
  <1>4. ClientsOK' /\ ServedOK'
    BY <1>1, <1>2, <1>3 DEF IInv, ClientsOK, ServedOK
  <1>5. \A m \in routed' : m[2] # a
    BY DEF IInv, RoutedOK
  <1>6. RoutedOK'
    BY <1>1, <1>3, <1>5 DEF IInv, RoutedOK
  <1>7. RequestsOK'
    BY <1>1, <1>2, <1>3 DEF IInv, RequestsOK
  <1>8. AnswersOK'
    BY <1>3 DEF IInv, AnswersOK
  <1> QED BY <1>2, <1>4, <1>6, <1>7, <1>8 DEF IInv

LEMMA LazyServeKeeps ==
  ASSUME IInv, NEW a \in requests, LazyServe(a)
  PROVE  IInv' /\ served[a] = 0 /\ Made(a) /\ a \in Attempts
  <1> USE DEF LazyServe, clientVars
  <1>1. \A x : Made(x)' = Made(x)
    BY DEF Made
  <1>2. a \in Attempts /\ served[a] = 0 /\ Made(a) /\ \A m \in routed : m[2] # a
    BY DEF IInv, RequestsOK
  <1>3. served' \in [Attempts -> Nat] /\ served'[a] = 1
        /\ \A b \in Attempts : b # a => served'[b] = served[b]
    BY <1>2 DEF IInv, ServedOK
  <1>4. ClientsOK' /\ ServedOK'
    BY <1>1, <1>2, <1>3 DEF IInv, ClientsOK, ServedOK
  <1>5. RoutedOK' /\ RequestsOK'
    BY <1>1, <1>2, <1>3 DEF IInv, RoutedOK, RequestsOK
  <1>6. AnswersOK'
    BY <1>3 DEF IInv, AnswersOK
  <1> QED BY <1>2, <1>4, <1>5, <1>6 DEF IInv

\* Every step keeps the invariant and is a step of RequestReply or changes nothing of it.
LEMMA Step == IInv /\ [Next]_vars => IInv' /\ [RR!Next]_(RR!vars)
  <1> SUFFICES ASSUME IInv, [Next]_vars PROVE IInv' /\ [RR!Next]_(RR!vars)
    OBVIOUS
  <1> DEFINE Goal == IInv' /\ [RR!Next]_(RR!vars)
  <1> USE DEF RR!vars
  <1>1. ASSUME NEW c \in Clients, ClientSend(c) \/ ClientRetry(c) PROVE Goal
    <2>1. IInv'
      BY <1>1, SendKeeps
    <2>2. RR!Try(c)
      BY <1>1, PirateAssumption
      DEF ClientSend, ClientRetry, RR!Try, IInv, ClientsOK
    <2> QED BY <2>1, <2>2 DEF RR!Next, RR!Client
  <1>2. ASSUME NEW c \in Clients, ClientRecv(c) PROVE Goal
    <2>1. IInv'
      BY <1>2, DoneKeeps
    <2>2. Attempt(c) \in Attempts /\ served[Attempt(c)] > 0
      BY <1>2 DEF ClientRecv, IInv, AnswersOK
    <2>3. RR!Answered(c)
      BY <2>2 DEF RR!Answered, RR!Attempts, Attempts, Attempt
    <2>4. RR!Return(c, "reply")
      BY <1>2, <2>3 DEF ClientRecv, RR!Return
    <2> QED BY <2>1, <2>4 DEF RR!Next, RR!Client
  <1>3. ASSUME NEW c \in Clients, ClientAbandon(c) PROVE Goal
    <2>1. IInv'
      BY <1>3, DoneKeeps
    <2>2. RR!Abandon(c)
      BY <1>3 DEF ClientAbandon, RR!Abandon
    <2> QED BY <2>1, <2>2 DEF RR!Next, RR!Client
  <1>4. ASSUME NEW w \in Workers, NEW a \in Attempts, Serve(w, a) PROVE Goal
    <2>1. IInv' /\ served[a] = 0 /\ Made(a)
      BY <1>4, ServeKeeps
    <2>2. RR!Serve(a)
      BY <1>4, <2>1 DEF Serve, RR!Serve, RR!Made, Made, clientVars
    <2> QED BY <2>1, <2>2 DEF RR!Next, RR!Attempts, Attempts
  <1>5. ASSUME NEW a \in requests, LazyServe(a) PROVE Goal
    <2>1. IInv' /\ served[a] = 0 /\ Made(a) /\ a \in Attempts
      BY <1>5, LazyServeKeeps
    <2>2. RR!Serve(a)
      BY <1>5, <2>1 DEF LazyServe, RR!Serve, RR!Made, Made, clientVars
    <2> QED BY <2>1, <2>2 DEF RR!Next, RR!Attempts, Attempts
  <1>6. ASSUME NEW a \in requests, SimpleFrontend(a) \/ ParanoidFrontend(a) PROVE Goal
    <2>1. ToWorker(a)
      BY <1>6 DEF SimpleFrontend, ParanoidFrontend
    <2> QED BY <2>1, RouteKeeps DEF ToWorker, clientVars
  <1>7. CASE Backend
    <2>1. PICK i \in Ids, m \in Attempts \cup {Sign} : FromWorker(i, m)
      BY <1>7 DEF Backend, SimpleBackend, ParanoidBackend
    <2> QED BY <2>1, ReturnKeeps DEF FromWorker, clientVars
  <1>8. CASE \/ ParanoidPurge \/ QueueRestarts \/ UNCHANGED vars
             \/ \E i \in Ids : Expire(i)
             \/ \E a \in requests : LazyCrash(a)
             \/ \E w \in Workers, a \in Attempts : WorkerCrash(w, a)
             \/ \E w \in Workers : Heartbeat(w) \/ WorkerTimeout(w) \/ WorkerStarts(w)
    <2>1. UNCHANGED <<call, try, results, served>>
      BY <1>8 DEF ParanoidPurge, QueueRestarts, vars, Expire, LazyCrash, WorkerCrash, Heartbeat,
        WorkerTimeout, WorkerStarts, NewSocket, clientVars
    <2>2. requests' \subseteq requests /\ routed' \subseteq routed /\ replies' \subseteq replies
      BY <1>8 DEF ParanoidPurge, QueueRestarts, vars, Expire, LazyCrash, WorkerCrash, Heartbeat,
        WorkerTimeout, WorkerStarts, NewSocket
    <2>3. \A m \in returned' : m \in returned \/ m[2] = Sign
      <3>1. ASSUME NEW w \in Workers, NewSocket(w)
            PROVE  \A m \in returned' : m \in returned \/ m[2] = Sign
        BY <3>1 DEF NewSocket
      <3>2. CASE \E w \in Workers : WorkerTimeout(w) \/ WorkerStarts(w)
        BY <3>1, <3>2 DEF WorkerTimeout, WorkerStarts
      <3>3. CASE \E w \in Workers : Heartbeat(w)
        BY <3>3 DEF Heartbeat
      <3>4. CASE ~(\E w \in Workers : Heartbeat(w) \/ WorkerTimeout(w) \/ WorkerStarts(w))
        BY <1>8, <3>4 DEF ParanoidPurge, QueueRestarts, vars, Expire, LazyCrash, WorkerCrash
      <3> QED BY <3>2, <3>3, <3>4
    <2> QED BY <2>1, <2>2, <2>3, LossKeeps
  <1> QED BY <1>1, <1>2, <1>3, <1>4, <1>5, <1>6, <1>7, <1>8 DEF Next, Client

LEMMA InitiallyRR == Init => RR!Init
  BY DEF Init, RR!Init, RR!Attempts, Attempts

\* lpclient.c with any of the three: what it returns with answers the call it is in, and
\* no attempt is served twice.
THEOREM PirateImplementsRequestReply == Spec => ImplementsRequestReply
  <1>1. Init => IInv
    BY Initially
  <1>2. Init => RR!Init
    BY InitiallyRR
  <1>3. IInv /\ [Next]_vars => IInv' /\ [RR!Next]_(RR!vars)
    BY Step
  <1> QED BY <1>1, <1>2, <1>3, PTL DEF Spec, ImplementsRequestReply, RR!Spec
-----------------------------------------------------------------------------
(* The lists of the queues                                                 *)

Distinct(q) == \A j, k \in 1 .. Len(q) : q[j] = q[k] => j = k

\* r is q without the elements of D: h tells where each element stood.
Keeps(r, q, D) ==
  \E h \in [1 .. Len(r) -> 1 .. Len(q)] :
    /\ \A j, k \in 1 .. Len(r) : j < k <=> h[j] < h[k]
    /\ \A k \in 1 .. Len(r) : r[k] = q[h[k]] /\ r[k] \notin D
    /\ \A j \in 1 .. Len(q) : q[j] \notin D => \E k \in 1 .. Len(r) : h[k] = j

\* The order of the list q is that of the deadlines, and they pass in that order.
InOrder(q, o, e) ==
  /\ \A j, k \in 1 .. Len(q) : /\ j < k <=> <<q[j], q[k]>> \in o
                               /\ j < k /\ q[k] \in e => q[j] \in e
  /\ o \subseteq ToSet(q) \X ToSet(q)
  /\ e \subseteq ToSet(q)

\* The pairs of o that are left when the elements of D go.
Left(o, D) == {p \in o : p[1] \notin D /\ p[2] \notin D}

LEMMA InOrderDistinct ==
  ASSUME NEW q \in Seq(Ids), NEW o, NEW e, InOrder(q, o, e)
  PROVE  Distinct(q)
  <1> SUFFICES ASSUME NEW j \in 1 .. Len(q), NEW k \in 1 .. Len(q), q[j] = q[k], j < k
               PROVE  FALSE
    BY DEF Distinct
  <1>1. <<q[j], q[k]>> \in o /\ <<q[j], q[j]>> \notin o
    BY DEF InOrder
  <1> QED
    BY <1>1

\* What is left of a list stays in order.
LEMMA KeepsOrder ==
  ASSUME NEW q \in Seq(Ids), NEW r \in Seq(Ids), NEW o, NEW e, NEW D,
         InOrder(q, o, e), Keeps(r, q, D)
  PROVE  /\ InOrder(r, Left(o, D), e \ D)
         /\ ToSet(r) = ToSet(q) \ D
  <1> PICK n \in Nat : n = Len(r)
    OBVIOUS
  <1> PICK m \in Nat : m = Len(q)
    OBVIOUS
  <1>1. PICK h \in [1 .. n -> 1 .. m] :
          /\ \A j, k \in 1 .. n : j < k <=> h[j] < h[k]
          /\ \A k \in 1 .. n : r[k] = q[h[k]] /\ r[k] \notin D
          /\ \A j \in 1 .. m : q[j] \notin D => \E k \in 1 .. n : h[k] = j
    BY DEF Keeps
  <1>2. ToSet(r) = ToSet(q) \ D
    <2>1. ToSet(r) = {r[k] : k \in 1 .. n} /\ ToSet(q) = {q[k] : k \in 1 .. m}
      BY SMTT(40) DEF ToSet
    <2>2. ASSUME NEW k \in 1 .. n PROVE r[k] \in ToSet(q) \ D
      BY <1>1, <2>1
    <2>3. ASSUME NEW j \in 1 .. m, q[j] \notin D PROVE q[j] \in ToSet(r)
      <3>1. PICK k \in 1 .. n : h[k] = j
        BY <1>1, <2>3
      <3> QED
        BY <1>1, <2>1, <3>1
    <2>4. ToSet(r) \subseteq ToSet(q) \ D
      <3>1. \A x \in ToSet(r) : \E k \in 1 .. n : x = r[k]
        BY <2>1
      <3> QED
        BY <2>2, <3>1
    <2>5. ToSet(q) \ D \subseteq ToSet(r)
      <3>1. \A x \in ToSet(q) : \E j \in 1 .. m : x = q[j]
        BY <2>1
      <3> QED
        BY <2>3, <3>1
    <2> QED
      BY <2>4, <2>5
  <1>3. ASSUME NEW j \in 1 .. n, NEW k \in 1 .. n
        PROVE  /\ j < k <=> <<r[j], r[k]>> \in Left(o, D)
               /\ j < k /\ r[k] \in e \ D => r[j] \in e \ D
    <2>1. /\ j < k <=> h[j] < h[k]
          /\ h[j] \in 1 .. m /\ h[k] \in 1 .. m
          /\ r[j] = q[h[j]] /\ r[k] = q[h[k]] /\ r[j] \notin D /\ r[k] \notin D
      BY <1>1
    <2>2. /\ h[j] < h[k] <=> <<q[h[j]], q[h[k]]>> \in o
          /\ h[j] < h[k] /\ q[h[k]] \in e => q[h[j]] \in e
      BY <2>1 DEF InOrder
    <2> QED
      BY <2>1, <2>2 DEF Left
  <1>4. Left(o, D) \subseteq ToSet(r) \X ToSet(r)
    BY <1>2 DEF InOrder, Left
  <1> QED
    BY <1>2, <1>3, <1>4 DEF InOrder

\* An entry is appended with the latest deadline.
LEMMA AppendOrder ==
  ASSUME NEW q \in Seq(Ids), NEW o, NEW e, NEW i \in Ids,
         InOrder(q, o, e), i \notin ToSet(q)
  PROVE  /\ InOrder(Append(q, i), o \cup (ToSet(q) \X {i}), e)
         /\ Append(q, i) \in Seq(Ids)
         /\ ToSet(Append(q, i)) = ToSet(q) \cup {i}
  <1>1. PICK r : r = Append(q, i)
    OBVIOUS
  <1>2. PICK n \in Nat : n = Len(q)
    OBVIOUS
  <1>3. PICK o2 : o2 = o \cup (ToSet(q) \X {i})
    OBVIOUS
  <1>4. /\ r \in Seq(Ids) /\ Len(r) = n + 1 /\ r[n + 1] = i
        /\ \A k \in 1 .. n : r[k] = q[k] /\ q[k] \in ToSet(q)
    BY <1>1, <1>2 DEF ToSet
  <1>5. ToSet(r) = ToSet(q) \cup {i}
    BY <1>2, <1>4 DEF ToSet
  <1>6. /\ \A x, y : <<x, y>> \in o2 <=> <<x, y>> \in o \/ (x \in ToSet(q) /\ y = i)
        /\ i \notin e /\ \A x : <<i, x>> \notin o /\ <<x, i>> \notin o
    BY <1>3 DEF InOrder
  <1>7. ASSUME NEW j \in 1 .. n + 1, NEW k \in 1 .. n + 1
        PROVE  /\ j < k <=> <<r[j], r[k]>> \in o2
               /\ j < k /\ r[k] \in e => r[j] \in e
    <2>1. CASE j \in 1 .. n /\ k \in 1 .. n
      <3>1. r[j] = q[j] /\ r[k] = q[k] /\ r[k] # i
        BY <1>4, <2>1
      <3>2. /\ j < k <=> <<q[j], q[k]>> \in o
            /\ j < k /\ q[k] \in e => q[j] \in e
        BY <1>2, <2>1 DEF InOrder
      <3> QED
        BY <1>6, <3>1, <3>2
    <2>2. CASE j = n + 1
      <3>1. r[j] = i /\ ~(j < k)
        BY <1>4, <1>7, <2>2
      <3> QED
        BY <1>6, <3>1
    <2>3. CASE j \in 1 .. n /\ k = n + 1
      <3>1. r[k] = i /\ r[j] \in ToSet(q) /\ j < k
        BY <1>4, <2>3
      <3> QED
        BY <1>6, <3>1
    <2>4. (j \in 1 .. n /\ k \in 1 .. n) \/ j = n + 1 \/ (j \in 1 .. n /\ k = n + 1)
      BY <1>7
    <2> QED
      BY <2>1, <2>2, <2>3, <2>4
  <1>8. o2 \subseteq ToSet(r) \X ToSet(r) /\ e \subseteq ToSet(r)
    BY <1>3, <1>5 DEF InOrder
  <1>9. InOrder(r, o2, e)
    BY <1>4, <1>7, <1>8 DEF InOrder
  <1> QED
    BY <1>1, <1>3, <1>4, <1>5, <1>9

\* zlist_remove of the entry that is found.
LEMMA RemoveKeeps ==
  ASSUME NEW q \in Seq(Ids), NEW i, Distinct(q)
  PROVE  RemoveFirst(q, i) \in Seq(Ids) /\ Keeps(RemoveFirst(q, i), q, {i})
  <1> PICK n \in Nat : n = Len(q)
    OBVIOUS
  <1>1. CASE \A k \in 1 .. n : q[k] # i
    <2>1. RemoveFirst(q, i) = q
      BY <1>1 DEF RemoveFirst
    <2> PICK h : h = [k \in 1 .. n |-> k]
      OBVIOUS
    <2> QED
      BY <1>1, <2>1 DEF Keeps
  <1>2. ASSUME NEW p \in 1 .. n, q[p] = i
        PROVE  RemoveFirst(q, i) \in Seq(Ids) /\ Keeps(RemoveFirst(q, i), q, {i})
    <2>1. {k \in 1 .. n : q[k] = i} = {p}
      BY <1>2 DEF Distinct
    <2>2. SelectInSeq(q, LAMBDA v : v = i) = p
      BY <2>1 DEF SelectInSeq, Min
    <2>3. RemoveFirst(q, i) = SubSeq(q, 1, p - 1) \o SubSeq(q, p + 1, n)
      BY <1>2, <2>2 DEF RemoveFirst, RemoveAt
    <2>0. PICK a, b, r : /\ a = SubSeq(q, 1, p - 1) /\ b = SubSeq(q, p + 1, n)
                         /\ r = RemoveFirst(q, i)
      OBVIOUS
    <2>4. /\ a \in Seq(Ids) /\ Len(a) = p - 1 /\ \A k \in 1 .. p - 1 : a[k] = q[k]
          /\ b \in Seq(Ids) /\ Len(b) = n - p /\ \A k \in 1 .. n - p : b[k] = q[p + k]
      BY <1>2, <2>0
    <2>5. /\ r \in Seq(Ids) /\ Len(r) = n - 1
          /\ \A k \in 1 .. p - 1 : r[k] = q[k]
          /\ \A k \in p .. n - 1 : r[k] = q[k + 1]
      <3>1. r = a \o b
        BY <2>0, <2>3
      <3>2. PICK u \in Nat : u = Len(a)
        BY <2>4
      <3>3. PICK v \in Nat : v = Len(b)
        BY <2>4, LenProperties
      <3>4. /\ r \in Seq(Ids) /\ Len(r) = u + v
            /\ \A k \in 1 .. u + v : r[k] = IF k <= u THEN a[k] ELSE b[k - u]
        BY ZenonT(60), <2>4, <3>1, <3>2, <3>3, ConcatProperties
      <3>5. u = p - 1 /\ v = n - p /\ u + v = n - 1
        BY <2>4, <3>2, <3>3
      <3>6. ASSUME NEW k \in 1 .. p - 1 PROVE r[k] = q[k]
        <4>1. k \in 1 .. u + v /\ k <= u
          BY <1>2, <3>5, <3>6
        <4> QED
          BY <2>4, <3>4, <3>6, <4>1
      <3>7. ASSUME NEW k \in p .. n - 1 PROVE r[k] = q[k + 1]
        <4>1. /\ k \in 1 .. u + v /\ ~(k <= u) /\ k - u \in 1 .. n - p
              /\ p + (k - u) = k + 1
          BY <3>5, <3>7
        <4>2. r[k] = b[k - u]
          BY <3>4, <4>1
        <4> QED
          BY <2>4, <4>1, <4>2
      <3> QED
        BY <3>4, <3>5, <3>6, <3>7
    <2> PICK h : h = [k \in 1 .. n - 1 |-> IF k < p THEN k ELSE k + 1]
      OBVIOUS
    <2>6. h \in [1 .. n - 1 -> 1 .. n] /\ \A j, k \in 1 .. n - 1 : j < k <=> h[j] < h[k]
      OBVIOUS
    <2>7. \A k \in 1 .. n - 1 : r[k] = q[h[k]] /\ h[k] # p
      BY <2>5
    <2>8. \A k \in 1 .. n - 1 : r[k] # i
      BY <1>2, <2>6, <2>7 DEF Distinct
    <2>9. ASSUME NEW j \in 1 .. n, q[j] # i PROVE \E k \in 1 .. n - 1 : h[k] = j
      <3>1. CASE j < p
        BY <3>1
      <3>2. CASE j > p
        <4>1. j - 1 \in 1 .. n - 1 /\ h[j - 1] = j
          BY <3>2
        <4> QED
          BY <4>1
      <3> QED
        BY <1>2, <2>9, <3>1, <3>2
    <2>10. Len(r) = n - 1 /\ Len(q) = n
      BY <2>5
    <2>11. /\ h \in [1 .. Len(r) -> 1 .. Len(q)]
           /\ \A j, k \in 1 .. Len(r) : j < k <=> h[j] < h[k]
           /\ \A k \in 1 .. Len(r) : r[k] = q[h[k]] /\ r[k] \notin {i}
           /\ \A j \in 1 .. Len(q) : q[j] \notin {i} => \E k \in 1 .. Len(r) : h[k] = j
      BY <2>6, <2>7, <2>8, <2>9, <2>10
    <2>12. Keeps(r, q, {i})
      BY <2>11 DEF Keeps
    <2> QED
      BY <2>0, <2>5, <2>12
  <1> QED
    BY <1>1, <1>2

\* The first n entries go.
LEMMA SuffixKeeps ==
  ASSUME NEW q \in Seq(Ids), Distinct(q), NEW n \in 1 .. Len(q)
  PROVE  /\ SubSeq(q, n + 1, Len(q)) \in Seq(Ids)
         /\ Keeps(SubSeq(q, n + 1, Len(q)), q, {q[k] : k \in 1 .. n})
  <1> PICK m \in Nat : m = Len(q)
    OBVIOUS
  <1> PICK r : r = SubSeq(q, n + 1, m)
    OBVIOUS
  <1>1. r \in Seq(Ids) /\ Len(r) = m - n /\ \A k \in 1 .. m - n : r[k] = q[n + k]
    OBVIOUS
  <1> PICK h : h = [k \in 1 .. m - n |-> n + k]
    OBVIOUS
  <1>2. h \in [1 .. m - n -> 1 .. m] /\ \A j, k \in 1 .. m - n : j < k <=> h[j] < h[k]
    OBVIOUS
  <1>3. \A k \in 1 .. m - n : r[k] = q[h[k]] /\ r[k] \notin {q[j] : j \in 1 .. n}
    BY <1>1 DEF Distinct
  <1>4. ASSUME NEW j \in 1 .. m, q[j] \notin {q[k] : k \in 1 .. n}
        PROVE  \E k \in 1 .. m - n : h[k] = j
    <2>1. j - n \in 1 .. m - n /\ h[j - n] = j
      BY <1>4
    <2> QED
      BY <2>1
  <1> QED
    <2>1. Len(r) = m - n
      BY <1>1
    <2> PICK D : D = {q[j] : j \in 1 .. n}
      OBVIOUS
    <2>2. /\ h \in [1 .. Len(r) -> 1 .. Len(q)]
          /\ \A j, k \in 1 .. Len(r) : j < k <=> h[j] < h[k]
          /\ \A k \in 1 .. Len(r) : r[k] = q[h[k]] /\ r[k] \notin D
          /\ \A j \in 1 .. Len(q) : q[j] \notin D => \E k \in 1 .. Len(r) : h[k] = j
      BY <1>2, <1>3, <1>4, <2>1
    <2>3. Keeps(r, q, D)
      BY <2>2 DEF Keeps
    <2> QED
      BY <1>1, <2>3

\* zlist_pop.
LEMMA TailKeeps ==
  ASSUME NEW q \in Seq(Ids), Distinct(q), q # <<>>
  PROVE  /\ Tail(q) \in Seq(Ids) /\ Keeps(Tail(q), q, {Head(q)})
         /\ Head(q) \in Ids /\ Head(q) \in ToSet(q)
  <1>1. 1 \in 1 .. Len(q) /\ Tail(q) = SubSeq(q, 1 + 1, Len(q)) /\ Head(q) = q[1]
    OBVIOUS
  <1>2. {q[k] : k \in 1 .. 1} = {Head(q)} /\ Head(q) \in ToSet(q) /\ Head(q) \in Ids
    BY <1>1 DEF ToSet
  <1>3. Tail(q) \in Seq(Ids) /\ Keeps(Tail(q), q, {q[k] : k \in 1 .. 1})
    BY <1>1, SuffixKeeps
  <1> QED
    BY <1>2, <1>3


-----------------------------------------------------------------------------
(* The invariant of the two lists                                          *)

Typed ==
  /\ kind \in {"lazy", "simple", "paranoid"}
  /\ ready \in Seq(Ids)
  /\ routed \subseteq Ids \X Attempts
  /\ returned \subseteq Ids \X (Attempts \cup {Sign})
  /\ session \in [Workers -> 1 .. MaxSessions] /\ alive \in [Workers -> BOOLEAN]
  /\ faults \in 0 .. MaxFaults

ListInOrder ==
  /\ kind = "paranoid" => InOrder(ready, older, expired)
  /\ kind # "paranoid" => older = {} /\ expired = {}

\* In the simple queue an identity is in one place: listed, on its way to its worker
\* with a request, or on its way back.
OnePlace(q, R, S) ==
  /\ Distinct(q)
  /\ \A m \in R \cup S : m[1] \notin ToSet(q)
  /\ \A m, n \in R : m[1] = n[1] => m = n
  /\ \A m, n \in S : m[1] = n[1] => m = n
  /\ \A m \in R, n \in S : m[1] # n[1]

\* No identity is used before its session.
Begun(i) == i[2] <= session[i[1]]

SimpleInv ==
  kind = "simple" =>
    /\ OnePlace(ready, routed, returned)
    /\ \A i \in Listed : Begun(i)
    /\ \A m \in routed \cup returned : Begun(m[1])

ListInv == Typed /\ ListInOrder /\ SimpleInv

LEMMA ListsInitially == Init => ListInv
  <1> SUFFICES ASSUME Init PROVE ListInv
    OBVIOUS
  <1>1. \A w \in Workers : <<w, 1>> \in Ids
    BY PirateAssumption DEF Ids
  <1>2. Typed
    BY <1>1, PirateAssumption DEF Init, Typed
  <1>3. ListInOrder
    BY DEF Init, ListInOrder, InOrder
  <1>4. Listed = {} /\ Distinct(ready) /\ ToSet(ready) = {}
    BY DEF Init, Listed, ToSet, Distinct
  <1>5. /\ routed = {} /\ \A m \in returned : m[2] = Sign
        /\ \A m \in returned : \E w \in Workers : m = <<<<w, 1>>, Sign>>
        /\ \A w \in Workers : session[w] = 1
    BY DEF Init
  <1>6. OnePlace(ready, routed, returned)
    BY <1>4, <1>5 DEF OnePlace
  <1>7. \A m \in routed \cup returned : Begun(m[1])
    BY <1>5 DEF Begun
  <1> QED
    BY <1>2, <1>3, <1>4, <1>6, <1>7 DEF ListInv, SimpleInv

\* A new deadline moves an entry to the end of the paranoid list.
LEMMA ReadyOrder ==
  ASSUME NEW i \in Ids, ready \in Seq(Ids), InOrder(ready, older, expired), Ready(i)
  PROVE  ready' \in Seq(Ids) /\ InOrder(ready', older', expired')
  <1> PICK q, p, d : q = ready /\ p = older /\ d = expired
    OBVIOUS
  <1> PICK o, e : o = Forget({i}) /\ e = d \ {i}
    OBVIOUS
  <1> PICK r : r = RemoveFirst(q, i)
    OBVIOUS
  <1>0. q \in Seq(Ids) /\ InOrder(q, p, d)
    OBVIOUS
  <1>1. Distinct(q)
    BY <1>0, InOrderDistinct
  <1>2. r \in Seq(Ids) /\ Keeps(r, q, {i})
    BY <1>0, <1>1, RemoveKeeps
  <1>3. o = Left(p, {i})
    BY DEF Forget, Left
  <1>4. InOrder(r, o, e) /\ ToSet(r) = ToSet(q) \ {i}
    BY <1>0, <1>2, <1>3, KeepsOrder
  <1>5. i \notin ToSet(r)
    BY <1>4
  <1>6. /\ InOrder(Append(r, i), o \cup (ToSet(r) \X {i}), e)
        /\ Append(r, i) \in Seq(Ids)
    BY <1>2, <1>4, <1>5, AppendOrder
  <1>7. ready' = Append(r, i) /\ older' = o \cup (ToSet(r) \X {i}) /\ expired' = e
    BY <1>4 DEF Ready, Listed
  <1> QED
    BY <1>6, <1>7

\* The first n entries leave the paranoid list.
LEMMA PrefixLeaves ==
  ASSUME NEW n \in 1 .. Len(ready), ready \in Seq(Ids), InOrder(ready, older, expired),
         ready' = SubSeq(ready, n + 1, Len(ready)),
         older' = Forget({ready[k] : k \in 1 .. n}),
         expired' = expired \ {ready[k] : k \in 1 .. n}
  PROVE  ready' \in Seq(Ids) /\ InOrder(ready', older', expired')
  <1> PICK q, p, d : q = ready /\ p = older /\ d = expired
    OBVIOUS
  <1> PICK D : D = {q[k] : k \in 1 .. n}
    OBVIOUS
  <1> PICK r : r = SubSeq(q, n + 1, Len(q))
    OBVIOUS
  <1>0. q \in Seq(Ids) /\ InOrder(q, p, d) /\ n \in 1 .. Len(q)
    OBVIOUS
  <1>1. Distinct(q)
    BY <1>0, InOrderDistinct
  <1>2. r \in Seq(Ids) /\ Keeps(r, q, D)
    BY <1>0, <1>1, SuffixKeeps
  <1>3. older' = Left(p, D)
    BY DEF Forget, Left
  <1>4. InOrder(r, Left(p, D), d \ D)
    BY <1>0, <1>2, KeepsOrder
  <1> QED
    BY <1>2, <1>3, <1>4

LEMMA ParanoidListStep ==
  ASSUME kind = "paranoid", ready \in Seq(Ids), InOrder(ready, older, expired), [Next]_vars
  PROVE  ready' \in Seq(Ids) /\ InOrder(ready', older', expired')
  <1> DEFINE Goal == ready' \in Seq(Ids) /\ InOrder(ready', older', expired')
  <1> USE DEF queueVars
  <1>1. CASE Backend
    <2>1. PICK i \in Ids, m \in Attempts \cup {Sign} : SimpleBackend(i, m) \/ ParanoidBackend(i, m)
      BY <1>1 DEF Backend
    <2>2. Ready(i)
      BY <2>1 DEF SimpleBackend, ParanoidBackend
    <2> QED
      BY <2>2, ReadyOrder
  <1>2. ASSUME NEW a \in requests, SimpleFrontend(a) \/ ParanoidFrontend(a) PROVE Goal
    <2>1. ready # <<>> /\ ParanoidFrontend(a)
      BY <1>2 DEF SimpleFrontend, ParanoidFrontend, ToWorker
    <2>2. 1 \in 1 .. Len(ready) /\ {ready[k] : k \in 1 .. 1} = {Head(ready)}
      BY <2>1
    <2>3. ready' = SubSeq(ready, 1 + 1, Len(ready))
      BY <2>1 DEF ParanoidFrontend
    <2>4. /\ older' = Forget({ready[k] : k \in 1 .. 1})
          /\ expired' = expired \ {ready[k] : k \in 1 .. 1}
      BY <2>1, <2>2 DEF ParanoidFrontend
    <2> QED
      BY <2>2, <2>3, <2>4, PrefixLeaves
  <1>3. CASE ParanoidPurge
    <2>1. PICK n \in 1 .. Len(ready) :
            /\ ready' = SubSeq(ready, n + 1, Len(ready))
            /\ older' = Forget({ready[k] : k \in 1 .. n})
            /\ expired' = expired \ {ready[k] : k \in 1 .. n}
      <3>1. DOMAIN ready = 1 .. Len(ready)
        OBVIOUS
      <3> QED
        BY <1>3, <3>1 DEF ParanoidPurge
    <2> QED
      BY <2>1, PrefixLeaves
  <1>4. ASSUME NEW i \in Ids, Expire(i) PROVE Goal
    <2>1. /\ ready' = ready /\ older' = older /\ expired' = expired \cup {i}
          /\ i \in ToSet(ready) /\ \A j \in Ids : <<j, i>> \in older => j \in expired
      BY <1>4 DEF Expire, Listed
    <2>2. \A j, k \in 1 .. Len(ready) :
            j < k /\ ready[k] \in expired \cup {i} => ready[j] \in expired \cup {i}
      <3> SUFFICES ASSUME NEW j \in 1 .. Len(ready), NEW k \in 1 .. Len(ready), j < k,
                          ready[k] \in expired \cup {i}
                   PROVE  ready[j] \in expired \cup {i}
        OBVIOUS
      <3>1. <<ready[j], ready[k]>> \in older /\ ready[j] \in Ids
        BY DEF InOrder
      <3>2. ready[k] \in expired => ready[j] \in expired
        BY DEF InOrder
      <3> QED
        BY <2>1, <3>1, <3>2
    <2>3. InOrder(ready, older, expired \cup {i})
      BY <2>1, <2>2 DEF InOrder
    <2> QED
      BY <2>1, <2>3
  <1>5. CASE QueueRestarts
    <2>1. ready' = <<>> /\ older' = {} /\ expired' = {}
      BY <1>5 DEF QueueRestarts
    <2>2. InOrder(<<>>, {}, {})
      BY DEF InOrder
    <2> QED
      BY <2>1, <2>2
  <1>6. CASE UNCHANGED queueVars
    BY <1>6
  <1>7. ASSUME NEW a \in requests, LazyServe(a) \/ LazyCrash(a) PROVE UNCHANGED queueVars
    BY <1>7 DEF LazyServe, LazyCrash
  <1>8. ASSUME NEW w \in Workers, NEW a \in Attempts, Serve(w, a) \/ WorkerCrash(w, a)
        PROVE  UNCHANGED queueVars
    BY <1>8 DEF Serve, WorkerCrash
  <1>9. ASSUME NEW w \in Workers, Heartbeat(w) \/ WorkerTimeout(w) \/ WorkerStarts(w)
        PROVE  UNCHANGED queueVars
    BY <1>9 DEF Heartbeat, WorkerTimeout, WorkerStarts
  <1>10. ASSUME NEW c \in Clients, Client(c) PROVE UNCHANGED queueVars
    BY <1>10 DEF Client, ClientSend, ClientRecv, ClientRetry, ClientAbandon
  <1>11. CASE UNCHANGED vars
    BY <1>6, <1>11 DEF vars
  <1> QED
    BY <1>1, <1>2, <1>3, <1>4, <1>5, <1>6, <1>7, <1>8, <1>9, <1>10, <1>11 DEF Next

LEMMA TypedStep ==
  ASSUME IInv, Typed, ready' \in Seq(Ids), [Next]_vars
  PROVE  Typed'
  <1> USE PirateAssumption DEF Typed, queueVars, workerVars, clientVars
  <1>1. CASE Backend
    <2>1. PICK i \in Ids, m \in Attempts \cup {Sign} : FromWorker(i, m)
      BY <1>1 DEF Backend, SimpleBackend, ParanoidBackend
    <2> QED
      BY <2>1 DEF FromWorker
  <1>2. ASSUME NEW a \in requests, SimpleFrontend(a) \/ ParanoidFrontend(a) PROVE Typed'
    <2>1. ToWorker(a)
      BY <1>2 DEF SimpleFrontend, ParanoidFrontend
    <2>2. Head(ready) \in Ids
      BY <2>1 DEF ToWorker
    <2>3. a \in Attempts
      BY <1>2 DEF IInv, RequestsOK
    <2> QED
      BY <2>1, <2>2, <2>3 DEF ToWorker
  <1>3. CASE ParanoidPurge
    BY <1>3 DEF ParanoidPurge
  <1>4. ASSUME NEW i \in Ids, Expire(i) PROVE Typed'
    BY <1>4 DEF Expire, Fault
  <1>5. CASE QueueRestarts
    BY <1>5 DEF QueueRestarts, Fault
  <1>6. ASSUME NEW a \in requests, LazyServe(a) \/ LazyCrash(a) PROVE Typed'
    BY <1>6 DEF LazyServe, LazyCrash, Fault
  <1>7. ASSUME NEW w \in Workers, NEW a \in Attempts, Serve(w, a) PROVE Typed'
    BY <1>7 DEF Serve
  <1>8. ASSUME NEW w \in Workers, NEW a \in Attempts, WorkerCrash(w, a) PROVE Typed'
    BY <1>8 DEF WorkerCrash, Fault
  <1>9. ASSUME NEW w \in Workers, Heartbeat(w) PROVE Typed'
    <2>1. Id(w) \in Ids
      BY DEF Id, Ids
    <2> QED
      BY <1>9, <2>1 DEF Heartbeat
  <1>10. ASSUME NEW w \in Workers, WorkerTimeout(w) \/ WorkerStarts(w) PROVE Typed'
    <2>1. NewSocket(w) /\ UNCHANGED kind
      BY <1>10 DEF WorkerTimeout, WorkerStarts
    <2>2. <<w, session[w] + 1>> \in Ids /\ session' \in [Workers -> 1 .. MaxSessions]
      BY <2>1 DEF NewSocket, Ids
    <2>3. routed' \subseteq routed
          /\ \A m \in returned' : m \in returned \/ m = <<<<w, session[w] + 1>>, Sign>>
      BY <2>1 DEF NewSocket
    <2>4. alive' \in [Workers -> BOOLEAN] /\ faults' \in 0 .. MaxFaults
      <3>1. CASE WorkerTimeout(w)
        BY <3>1 DEF WorkerTimeout, Fault
      <3>2. CASE WorkerStarts(w)
        BY <3>2 DEF WorkerStarts
      <3> QED
        BY <1>10, <3>1, <3>2
    <2>5. returned' \subseteq Ids \X (Attempts \cup {Sign})
      <3>1. <<<<w, session[w] + 1>>, Sign>> \in Ids \X (Attempts \cup {Sign})
        BY <2>2
      <3>2. returned \subseteq Ids \X (Attempts \cup {Sign})
        OBVIOUS
      <3> HIDE DEF Typed
      <3> QED
        BY <2>3, <3>1, <3>2
    <2> QED
      BY <2>1, <2>2, <2>3, <2>4, <2>5
  <1>11. ASSUME NEW c \in Clients, Client(c) PROVE Typed'
    BY <1>11 DEF Client, ClientSend, ClientRecv, ClientRetry, ClientAbandon
  <1>12. CASE UNCHANGED vars
    BY <1>12 DEF vars
  <1> QED
    BY <1>1, <1>2, <1>3, <1>4, <1>5, <1>6, <1>7, <1>8, <1>9, <1>10, <1>11, <1>12 DEF Next

\* The four ways in which the places of an identity change.
LEMMA PlaceReturns ==
  ASSUME NEW q \in Seq(Ids), NEW R, NEW S, OnePlace(q, R, S), NEW m \in S, m[1] \in Ids
  PROVE  OnePlace(Append(q, m[1]), R, S \ {m})
  <1> PICK r, i : r = Append(q, i) /\ i = m[1]
    OBVIOUS
  <1> PICK n \in Nat : n = Len(q)
    OBVIOUS
  <1>1. Len(r) = n + 1 /\ r[n + 1] = i /\ \A k \in 1 .. n : r[k] = q[k] /\ q[k] # i
    BY DEF OnePlace, ToSet
  <1>2. ToSet(r) = ToSet(q) \cup {i}
    BY <1>1 DEF ToSet
  <1>3. Distinct(r)
    BY <1>1 DEF OnePlace, Distinct
  <1>4. OnePlace(r, R, S \ {m})
    BY <1>2, <1>3 DEF OnePlace
  <1> QED
    BY <1>4

LEMMA PlaceTaken ==
  ASSUME NEW q \in Seq(Ids), NEW R, NEW S, OnePlace(q, R, S), q # <<>>, NEW a
  PROVE  OnePlace(Tail(q), R \cup {<<Head(q), a>>}, S)
  <1> PICK r, i, m : r = Tail(q) /\ i = Head(q) /\ m = <<i, a>>
    OBVIOUS
  <1> PICK n \in Nat : n = Len(q)
    OBVIOUS
  <1>1. Len(r) = n - 1 /\ i = q[1] /\ 1 \in 1 .. n /\ \A k \in 1 .. n - 1 : r[k] = q[k + 1]
    OBVIOUS
  <1>2. i \in ToSet(q) /\ ToSet(r) \subseteq ToSet(q) /\ i \notin ToSet(r) /\ Distinct(r)
    BY <1>1 DEF OnePlace, Distinct, ToSet
  <1>3. m[1] = i
    OBVIOUS
  <1>4. OnePlace(r, R \cup {m}, S)
    BY <1>2, <1>3 DEF OnePlace
  <1> QED
    BY <1>4

LEMMA PlaceServed ==
  ASSUME NEW q, NEW R, NEW S, NEW i, NEW a, OnePlace(q, R, S), <<i, a>> \in R
  PROVE  OnePlace(q, R \ {<<i, a>>}, S \cup {<<i, a>>})
  <1> PICK m : m = <<i, a>>
    OBVIOUS
  <1>1. m \in R /\ OnePlace(q, R \ {m}, S \cup {m})
    BY DEF OnePlace
  <1> QED
    BY <1>1

LEMMA PlaceNew ==
  ASSUME NEW q, NEW R, NEW S, NEW m, OnePlace(q, R, S), m[1] \notin ToSet(q),
         \A n \in R \cup S : n[1] # m[1]
  PROVE  OnePlace(q, R, S \cup {m})
  BY DEF OnePlace

LEMMA PlaceLost ==
  ASSUME NEW q, NEW R, NEW S, OnePlace(q, R, S), NEW P \in SUBSET R, NEW T \in SUBSET S
  PROVE  OnePlace(q, P, T)
  BY DEF OnePlace

\* The steps that leave the list of the simple queue, its messages and the sockets
\* alone.
LEMMA SimpleStays ==
  ASSUME SimpleInv, kind = "simple", UNCHANGED <<kind, ready, routed, returned, session>>
  PROVE  SimpleInv'
  BY DEF SimpleInv, Listed, Begun

LEMMA SimpleSocket ==
  ASSUME Typed, SimpleInv, kind = "simple", UNCHANGED <<kind, ready>>,
         NEW w \in Workers, NewSocket(w)
  PROVE  SimpleInv'
  <1> PICK i, m : i = <<w, session[w] + 1>> /\ m = <<i, Sign>>
    OBVIOUS
  <1>1. PICK S \in SUBSET returned : returned' = S \cup {m}
    BY DEF NewSocket
  <1>2. PICK R \in SUBSET routed : routed' = R
    BY DEF NewSocket
  <1>3. ~Begun(i) /\ Begun(i)'
    BY DEF Begun, Typed, NewSocket
  <1>4. \A j \in Ids : Begun(j) => Begun(j)'
    BY DEF Begun, Typed, NewSocket, Ids
  <1>5. /\ OnePlace(ready, routed, returned)
        /\ \A j \in ToSet(ready) : Begun(j)
        /\ \A x \in routed \cup returned : Begun(x[1])
    BY DEF SimpleInv, Listed
  <1>6. OnePlace(ready, R, S)
    BY <1>5, PlaceLost
  <1>7. m[1] = i /\ i \notin ToSet(ready) /\ \A x \in R \cup S : x[1] # i
    BY <1>3, <1>5
  <1>8. OnePlace(ready, R, S \cup {m})
    BY <1>6, <1>7, PlaceNew
  <1>9. /\ ToSet(ready) \subseteq Ids
        /\ \A x \in routed \cup returned : x[1] \in Ids
    BY DEF Typed, ToSet
  <1>10. /\ \A j \in ToSet(ready) : Begun(j)'
         /\ \A x \in R \cup S \cup {m} : Begun(x[1])'
    BY <1>3, <1>4, <1>5, <1>7, <1>9
  <1>11. OnePlace(ready', routed', returned')
    BY <1>1, <1>2, <1>8
  <1>12. Listed' = ToSet(ready)
    BY DEF Listed
  <1> QED
    BY <1>1, <1>2, <1>10, <1>11, <1>12 DEF SimpleInv

LEMMA SimpleStep ==
  ASSUME IInv, Typed, SimpleInv, kind = "simple", [Next]_vars
  PROVE  ready' \in Seq(Ids) /\ SimpleInv'
  <1> DEFINE Goal == ready' \in Seq(Ids) /\ SimpleInv'
  <1> USE DEF queueVars, workerVars, clientVars
  <1>0. /\ OnePlace(ready, routed, returned) /\ ready \in Seq(Ids)
        /\ \A j \in Listed : Begun(j)
        /\ \A x \in routed \cup returned : Begun(x[1]) /\ x[1] \in Ids
        /\ UNCHANGED session => \A j : Begun(j)' = Begun(j)
    BY DEF SimpleInv, Typed, Begun
  <1>1. CASE Backend
    <2>1. PICK i \in Ids, m \in Attempts \cup {Sign} : SimpleBackend(i, m)
      BY <1>1 DEF Backend, ParanoidBackend
    <2> PICK x : x = <<i, m>>
      OBVIOUS
    <2>2. x = <<i, m>> /\ x[1] = i
      OBVIOUS
    <2>3. /\ x \in returned /\ ready' = Append(ready, i) /\ returned' = returned \ {x}
          /\ UNCHANGED <<kind, routed, session>>
      BY <2>1, <2>2 DEF SimpleBackend, FromWorker
    <2>4. OnePlace(Append(ready, i), routed, returned \ {x})
      BY <1>0, <2>2, <2>3, PlaceReturns
    <2>5. OnePlace(ready', routed', returned')
      BY <2>3, <2>4
    <2>6. Listed' \subseteq Listed \cup {i}
      BY <1>0, <2>3 DEF Listed, ToSet
    <2>7. ready' \in Seq(Ids) /\ Begun(i)
      BY <1>0, <2>2, <2>3
    <2> QED
      BY <1>0, <2>3, <2>5, <2>6, <2>7 DEF SimpleInv
  <1>2. ASSUME NEW a \in requests, SimpleFrontend(a) \/ ParanoidFrontend(a) PROVE Goal
    <2> PICK i, x : i = Head(ready) /\ x = <<i, a>>
      OBVIOUS
    <2>1. x = <<i, a>> /\ i = Head(ready) /\ x[1] = i
      OBVIOUS
    <2>2. /\ ready # <<>> /\ ready' = Tail(ready) /\ routed' = routed \cup {x}
          /\ UNCHANGED <<kind, returned, session>>
      BY <1>2, <2>1 DEF SimpleFrontend, ParanoidFrontend, ToWorker
    <2>3. OnePlace(Tail(ready), routed \cup {x}, returned)
      BY <1>0, <2>1, <2>2, PlaceTaken
    <2>4. OnePlace(ready', routed', returned')
      BY <2>2, <2>3
    <2>5. Listed' \subseteq Listed /\ i \in Listed
      BY <1>0, <2>1, <2>2 DEF Listed, ToSet
    <2>6. ready' \in Seq(Ids)
      BY <1>0, <2>2
    <2> QED
      BY <1>0, <2>1, <2>2, <2>4, <2>5, <2>6 DEF SimpleInv
  <1>3. CASE QueueRestarts
    <2>1. ready' = <<>> /\ routed' \in SUBSET routed /\ returned' \in SUBSET returned
          /\ UNCHANGED <<kind, session>>
      BY <1>3 DEF QueueRestarts
    <2>2. ToSet(<<>>) = {} /\ Distinct(<<>>) /\ <<>> \in Seq(Ids)
      BY DEF ToSet, Distinct
    <2>3. OnePlace(<<>>, routed', returned')
      BY <1>0, <2>1, <2>2 DEF OnePlace
    <2>4. Listed' = {}
      BY <2>1, <2>2 DEF Listed
    <2> QED
      BY <1>0, <2>1, <2>2, <2>3, <2>4 DEF SimpleInv
  <1>4. ASSUME NEW w \in Workers, NEW a \in Attempts, Serve(w, a) PROVE Goal
    <2> PICK i, x : i = Id(w) /\ x = <<i, a>>
      OBVIOUS
    <2>1. x = <<i, a>> /\ i = Id(w) /\ x[1] = i
      OBVIOUS
    <2>2. /\ x \in routed /\ routed' = routed \ {x} /\ returned' = returned \cup {x}
          /\ UNCHANGED <<kind, ready, session>>
      BY <1>4, <2>1 DEF Serve
    <2>3. OnePlace(ready, routed \ {x}, returned \cup {x})
      BY <1>0, <2>1, <2>2, PlaceServed
    <2>4. OnePlace(ready', routed', returned')
      BY <2>2, <2>3
    <2>5. Listed' = Listed /\ Begun(i)
      BY <1>0, <2>1, <2>2 DEF Listed
    <2> QED
      BY <1>0, <2>1, <2>2, <2>4, <2>5 DEF SimpleInv
  <1>5. ASSUME NEW w \in Workers, NEW a \in Attempts, WorkerCrash(w, a) PROVE Goal
    <2>1. /\ routed' \in SUBSET routed /\ returned' \in SUBSET returned
          /\ UNCHANGED <<kind, ready, session>>
      BY <1>5 DEF WorkerCrash
    <2>2. OnePlace(ready', routed', returned')
      BY <1>0, <2>1, PlaceLost
    <2>3. Listed' = Listed
      BY <2>1 DEF Listed
    <2> QED
      BY <1>0, <2>1, <2>2, <2>3 DEF SimpleInv
  <1>6. ASSUME NEW w \in Workers, Heartbeat(w) \/ WorkerTimeout(w) \/ WorkerStarts(w)
        PROVE  Goal
    <2>1. NewSocket(w) /\ UNCHANGED <<kind, ready>>
      BY <1>6 DEF Heartbeat, WorkerTimeout, WorkerStarts
    <2> QED
      BY <1>0, <2>1, SimpleSocket
  <1>7. ASSUME UNCHANGED <<kind, ready, routed, returned, session>> PROVE Goal
    BY <1>0, <1>7, SimpleStays
  <1>8. ASSUME NEW a \in requests, LazyServe(a) \/ LazyCrash(a) PROVE Goal
    BY <1>8 DEF LazyServe, LazyCrash
  <1>9. CASE ParanoidPurge \/ \E i \in Ids : Expire(i)
    BY <1>9 DEF ParanoidPurge, Expire
  <1>10. ASSUME NEW c \in Clients, Client(c) PROVE Goal
    BY <1>7, <1>10 DEF Client, ClientSend, ClientRecv, ClientRetry, ClientAbandon
  <1>11. CASE UNCHANGED vars
    BY <1>7, <1>11 DEF vars
  <1> QED
    BY <1>1, <1>2, <1>3, <1>4, <1>5, <1>6, <1>8, <1>9, <1>10, <1>11 DEF Next

\* The lazy server has no list.
LEMMA LazyStep ==
  ASSUME kind = "lazy", ready \in Seq(Ids), [Next]_vars
  PROVE  ready' \in Seq(Ids)
  <1> USE DEF queueVars
  <1>1. ~Backend /\ ~ParanoidPurge /\ ~QueueRestarts
    BY DEF Backend, SimpleBackend, ParanoidBackend, ParanoidPurge, QueueRestarts
  <1>2. ASSUME NEW a \in requests, \/ LazyServe(a) \/ LazyCrash(a)
                                   \/ SimpleFrontend(a) \/ ParanoidFrontend(a)
        PROVE  UNCHANGED ready
    BY <1>2 DEF LazyServe, LazyCrash, SimpleFrontend, ParanoidFrontend
  <1>3. \A i \in Ids : ~Expire(i)
    BY DEF Expire
  <1>4. ASSUME NEW w \in Workers,
               \/ \E a \in Attempts : Serve(w, a) \/ WorkerCrash(w, a)
               \/ Heartbeat(w) \/ WorkerTimeout(w) \/ WorkerStarts(w)
        PROVE  UNCHANGED ready
    BY <1>4 DEF Serve, WorkerCrash, Heartbeat, WorkerTimeout, WorkerStarts
  <1>5. ASSUME NEW c \in Clients, Client(c) PROVE UNCHANGED ready
    BY <1>5 DEF Client, ClientSend, ClientRecv, ClientRetry, ClientAbandon
  <1>6. CASE UNCHANGED vars
    BY <1>6 DEF vars
  <1> QED
    BY <1>1, <1>2, <1>3, <1>4, <1>5, <1>6 DEF Next

\* Only the paranoid queue has deadlines, and no step changes the pattern.
LEMMA KindStep ==
  ASSUME [Next]_vars
  PROVE  /\ UNCHANGED kind
         /\ kind # "paranoid" /\ older = {} /\ expired = {} => older' = {} /\ expired' = {}
  <1> DEFINE Goal == /\ UNCHANGED kind
                     /\ kind # "paranoid" /\ older = {} /\ expired = {}
                          => older' = {} /\ expired' = {}
  <1> USE DEF queueVars
  <1>1. CASE Backend
    BY <1>1 DEF Backend, SimpleBackend, ParanoidBackend, FromWorker
  <1>2. CASE ParanoidPurge \/ QueueRestarts \/ \E i \in Ids : Expire(i)
    BY <1>2 DEF ParanoidPurge, QueueRestarts, Expire
  <1>3. ASSUME NEW a \in requests, \/ LazyServe(a) \/ LazyCrash(a)
                                   \/ SimpleFrontend(a) \/ ParanoidFrontend(a)
        PROVE  Goal
    BY <1>3 DEF LazyServe, LazyCrash, SimpleFrontend, ParanoidFrontend, ToWorker
  <1>4. ASSUME NEW w \in Workers,
               \/ \E a \in Attempts : Serve(w, a) \/ WorkerCrash(w, a)
               \/ Heartbeat(w) \/ WorkerTimeout(w) \/ WorkerStarts(w)
        PROVE  Goal
    BY <1>4 DEF Serve, WorkerCrash, Heartbeat, WorkerTimeout, WorkerStarts
  <1>5. ASSUME NEW c \in Clients, Client(c) PROVE Goal
    BY <1>5 DEF Client, ClientSend, ClientRecv, ClientRetry, ClientAbandon
  <1>6. CASE UNCHANGED vars
    BY <1>6 DEF vars
  <1> QED
    BY <1>1, <1>2, <1>3, <1>4, <1>5, <1>6 DEF Next

LEMMA ListStep == IInv /\ ListInv /\ [Next]_vars => ListInv'
  <1> SUFFICES ASSUME IInv, ListInv, [Next]_vars PROVE ListInv'
    OBVIOUS
  <1> USE DEF ListInv
  <1>1. UNCHANGED kind
    BY KindStep
  <1>2. CASE kind = "paranoid"
    <2>1. ready' \in Seq(Ids) /\ InOrder(ready', older', expired')
      BY <1>2, ParanoidListStep DEF Typed, ListInOrder
    <2>2. Typed'
      BY <2>1, TypedStep
    <2> QED
      BY <1>1, <1>2, <2>1, <2>2 DEF ListInOrder, SimpleInv
  <1>3. CASE kind # "paranoid"
    <2>1. ready' \in Seq(Ids) /\ SimpleInv'
      <3>1. CASE kind = "simple"
        BY <3>1, SimpleStep
      <3>2. CASE kind = "lazy"
        BY <1>1, <3>2, LazyStep DEF Typed, SimpleInv
      <3> QED
        BY <1>3, <3>1, <3>2 DEF Typed
    <2>2. Typed'
      BY <2>1, TypedStep
    <2>3. ListInOrder'
      BY <1>1, <1>3, KindStep DEF ListInOrder
    <2> QED
      BY <2>1, <2>2, <2>3
  <1> QED
    BY <1>2, <1>3

\* The invariants state what the run checks.
LEMMA ListsAreConsistent == IInv /\ ListInv => ListsConsistent
  <1> SUFFICES ASSUME IInv, ListInv PROVE ListsConsistent
    OBVIOUS
  <1>1. DOMAIN ready = 1 .. Len(ready)
    BY DEF ListInv, Typed
  <1>2. requests \subseteq Attempts /\ replies \subseteq Attempts
    BY DEF IInv, RequestsOK, AnswersOK
  <1>3. call \in [Clients -> Nat] /\ try \in [Clients -> 0 .. Retries]
    BY DEF IInv, ClientsOK
  <1>4. served \in [Attempts -> Nat]
    BY DEF IInv, ServedOK
  <1>5. expired \subseteq Listed /\ older \subseteq Listed \X Listed
    BY DEF ListInv, ListInOrder, InOrder, Listed
  <1>6. TypeOK
    BY <1>2, <1>3, <1>4, <1>5 DEF TypeOK, ListInv, Typed
  <1>7. SimpleListIsIdle
    <2>1. \A k \in DOMAIN ready : ready[k] \in ToSet(ready)
      BY <1>1 DEF ToSet
    <2> QED
      BY <1>1, <2>1 DEF SimpleListIsIdle, ListInv, SimpleInv, OnePlace, Distinct
  <1>8. OldestFirst
    BY <1>1 DEF OldestFirst, ListInv, ListInOrder, InOrder
  <1> QED
    BY <1>6, <1>7, <1>8 DEF ListsConsistent

\* spqueue.c lists a worker once and only while it is idle; ppqueue.c lists it once, in
\* the order of the deadlines, so that its purge finds every worker that has expired.
THEOREM ReadyListsHold == Spec => []ListsConsistent
  <1>1. Init => IInv /\ ListInv
    BY Initially, ListsInitially
  <1>2. IInv /\ [Next]_vars => IInv'
    BY Step
  <1>3. IInv /\ ListInv /\ [Next]_vars => ListInv'
    BY ListStep
  <1>4. IInv /\ ListInv => ListsConsistent
    BY ListsAreConsistent
  <1> QED
    BY <1>1, <1>2, <1>3, <1>4, PTL DEF Spec
=============================================================================
