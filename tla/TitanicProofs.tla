--------------------------- MODULE TitanicProofs ----------------------------
(***************************************************************************)
(* Proofs about Titanic, for every set of clients, every number of         *)
(* retries, of requests and of crashes and failed calls.                   *)
(***************************************************************************)
EXTENDS Titanic, TLAPS

-----------------------------------------------------------------------------
(* The inductive invariant                                                 *)

Attempts == [client : Clients, op : {"request", "reply", "close"},
             uuid : 0 .. MaxUuids, try : 0 .. Retries]
Entries == [uuid : Uuids, mark : {"-", "+"}]
Busy == {"call", "open", "save", "mark"}

Records == [phase : Phases, uuid : 0 .. MaxUuids, try : 0 .. Retries]

\* TypeOK by parts, and the types of what is between the threads and between them and
\* the clients.  No answer is 400.
DiskTypes ==
  /\ req \in [Uuids -> BOOLEAN] /\ rep \in [Uuids -> {"none", "empty", "full"}]
  /\ queue \in Seq(Entries) /\ used \in 0 .. MaxUuids

GhostTypes ==
  /\ ran \in [Uuids -> Nat] /\ late \in [Uuids -> Nat] /\ faults \in Nat
  /\ closed \subseteq Uuids /\ lost \subseteq Uuids

MainTypes ==
  /\ main \in [at : Busy \cup {"poll", "scan"}, pos : Nat]
  /\ main.pos <= Len(queue) + 1
  /\ main.at \in Busy => main.pos \in 1 .. Len(queue)
  /\ At("scan") => main.pos # 0

ClientTypes ==
  /\ client \in [Clients -> Records]
  /\ \A c \in Clients : /\ client[c].phase = "request" => client[c].uuid = 0
                        /\ client[c].phase \in {"reply", "close"} => client[c].uuid # 0

ThreadTypes ==
  /\ pipe \in Seq(Uuids)
  /\ saving \subseteq Attempts \X Uuids /\ \A x, y \in saving : x = y
  /\ reading \subseteq Attempts
  /\ closing \subseteq Attempts /\ \A a \in closing : a.op = "close" /\ a.uuid # 0

MessageTypes ==
  /\ asked \subseteq Attempts
  /\ \A a \in asked : a.op \in {"reply", "close"} => a.uuid # 0
  /\ answers \subseteq Attempts \X {"200", "300", "empty"} \X (0 .. MaxUuids)

Types == DiskTypes /\ GhostTypes /\ MainTypes /\ ClientTypes /\ ThreadTypes /\ MessageTypes

\* Nothing is kept of a uuid before it is drawn.
Fresh(u) ==
  /\ ~req[u] /\ rep[u] = "none" /\ ran[u] = 0 /\ late[u] = 0 /\ u \notin closed
  /\ \A x \in saving : x[2] # u
  /\ \A k \in DOMAIN pipe : pipe[k] # u
  /\ \A k \in DOMAIN queue : queue[k].uuid # u
  /\ \A x \in answers : x[3] # u
  /\ \A c \in Clients : client[c].uuid # u

DrawnOK == \A u \in Uuids : u > used => Fresh(u)

\* A uuid is drawn for one client: it is being saved, or on its way to the client, or
\* the client has it.  Up to the close it is on disk.
OwnersOK ==
  /\ \A x \in saving : req[x[2]] /\ (\A c \in Clients : client[c].uuid # x[2])
                                 /\ (\A y \in answers : y[3] # x[2])
  /\ \A x \in answers : x[3] # 0 =>
        /\ req[x[3]] /\ \A c \in Clients : client[c].uuid # x[3]
        /\ \A y \in answers : y[3] = x[3] => y = x
  /\ \A c, d \in Clients : client[c].uuid = client[d].uuid /\ c # d => client[c].uuid = 0
  /\ \A c \in Clients : client[c].phase = "reply" => req[client[c].uuid]

\* Only a client that has its reply asks to close, and only for its own request.
ClosersOK ==
  /\ \A a \in asked \cup closing : a.op = "close" =>
        /\ client[a.client].uuid = a.uuid
        /\ client[a.client].phase \notin {"request", "reply"}
  /\ \A a \in closing : ~req[a.uuid]
  /\ \A u \in closed : ~req[u] /\ ~InHand(u)

\* A uuid is in one place on the way to the queue, and once.
OncePerUuid ==
  /\ \A j, k \in DOMAIN queue : queue[j].uuid = queue[k].uuid => j = k
  /\ \A j, k \in DOMAIN pipe : pipe[j] = pipe[k] => j = k
  /\ \A j \in DOMAIN pipe, k \in DOMAIN queue : pipe[j] # queue[k].uuid
  /\ \A x \in saving : /\ \A k \in DOMAIN pipe : pipe[k] # x[2]
                       /\ \A k \in DOMAIN queue : queue[k].uuid # x[2]

\* What the main thread knows of the entry it is at.
MainOK ==
  /\ main.at \in Busy => Entry.mark = "-"
  /\ At("save") => ~req[Entry.uuid] \/ rep[Entry.uuid] # "none"
  /\ At("mark") => ~req[Entry.uuid] \/ rep[Entry.uuid] = "full"

\* It waits for its call, and every run it has had is paid for.
Untried(u) ==
  \/ \E x \in saving : x[2] = u
  \/ \E k \in DOMAIN pipe : pipe[k] = u
  \/ \E k \in DOMAIN queue : queue[k] = [uuid |-> u, mark |-> "-"]
                             /\ ~(main.pos = k /\ main.at \in {"open", "save", "mark"})

Paid(u) == ran[u] + late[u] <= faults + 1 /\ (Untried(u) => ran[u] + late[u] <= faults)

RunsOK == \A u \in Uuids : Paid(u)

DiskInv ==
  /\ Types /\ DrawnOK /\ OwnersOK /\ ClosersOK /\ OncePerUuid /\ MainOK
  /\ NothingForgotten /\ NeverUnknown /\ RunsOK
-----------------------------------------------------------------------------
(* The steps of a client, all as one                                       *)

Later(r, s) ==
  \/ s.phase \in {r.phase, "failed", "done", "aborted"}
  \/ r.phase = "reply" /\ s.phase = "close"

\* What a client may do to the rest: it asks in its phase, takes its answers away, and
\* the uuid it gets is one that an answer it takes away has brought.
ClientMove(c) ==
  /\ UNCHANGED <<disk, threads, ghosts, faults>>
  /\ answers' \subseteq answers
  /\ \A a \in asked' \ asked :
       /\ a \in Attempts /\ a.client = c /\ a.op = client[c].phase /\ a.uuid = client[c].uuid
       /\ asked' = asked \cup {a} /\ client'[c].phase = client[c].phase
  /\ asked \subseteq asked'
  /\ \E r \in Records :
       /\ client' = [client EXCEPT ![c] = r]
       /\ \/ r.uuid = client[c].uuid /\ Later(client[c], r)
          \/ /\ client[c].phase = "request" /\ r.phase = "reply" /\ r.uuid # 0
             /\ \E x \in answers \ answers' : x[3] = r.uuid

LEMMA ClientSendMoves ==
  ASSUME TitanicAssumption, ClientTypes, NEW c \in Clients,
         ClientSend(c) \/ ClientAbandon(c)
  PROVE  ClientMove(c)
<1> USE DEF ClientTypes, Records
<1> PICK r \in Records : r = client[c]
  OBVIOUS
<1>1. CASE ClientSend(c)
  <2> PICK s : s = [r EXCEPT !.try = @ + 1]
    OBVIOUS
  <2>1. /\ s \in Records /\ s.uuid = r.uuid /\ s.phase = r.phase
        /\ client' = [client EXCEPT ![c] = s]
    BY <1>1 DEF ClientSend, TitanicAssumption
  <2> PICK a : a = [Attempt(c) EXCEPT !.try = @ + 1]
    OBVIOUS
  <2>2. /\ a \in Attempts /\ a.client = c /\ a.op = r.phase /\ a.uuid = r.uuid
        /\ asked' = asked \cup {a} /\ answers' \subseteq answers
        /\ UNCHANGED <<disk, threads, ghosts, faults>>
    BY <1>1 DEF ClientSend, Attempt, Attempts, TitanicAssumption
  <2> QED
    BY <2>1, <2>2 DEF ClientMove, Later
<1>2. CASE ClientAbandon(c)
  <2> PICK s : s = [r EXCEPT !.phase = "failed", !.try = 0]
    OBVIOUS
  <2>1. /\ s \in Records /\ s.uuid = r.uuid /\ s.phase = "failed"
        /\ client' = [client EXCEPT ![c] = s]
    BY <1>2 DEF ClientAbandon, Phases, TitanicAssumption
  <2> QED
    BY <1>2, <2>1 DEF ClientMove, ClientAbandon, Later
<1> QED
  BY <1>1, <1>2

LEMMA ClientGotMoves ==
  ASSUME TitanicAssumption, ClientTypes, MessageTypes, NEW c \in Clients, Client(c)
  PROVE  ClientMove(c)
<1> USE DEF ClientTypes, Records
<1> PICK r \in Records : r = client[c]
  OBVIOUS
<1>1. \A code, u : Got(c, code, u) =>
         /\ code # "400" /\ answers' \subseteq answers /\ asked' = asked
         /\ UNCHANGED <<disk, threads, ghosts, faults>>
         /\ \E x \in answers \ answers' : x[3] = u
  BY DEF Got, Attempt, MessageTypes
<1>2. CASE ClientStored(c)
  <2>1. PICK u \in Uuids : /\ r.phase = "request" /\ Got(c, "200", u)
                           /\ client' = [client EXCEPT ![c] =
                                           [phase |-> "reply", uuid |-> u, try |-> 0]]
    BY <1>2 DEF ClientStored
  <2> PICK s : s = [phase |-> "reply", uuid |-> u, try |-> 0]
    OBVIOUS
  <2>2. s \in Records /\ s.phase = "reply" /\ s.uuid = u /\ u # 0
    BY DEF Uuids, Phases, TitanicAssumption
  <2> QED
    BY <1>1, <2>1, <2>2 DEF ClientMove
<1>3. ASSUME NEW code, NEW u, Got(c, code, u), NEW p \in Phases,
             p = r.phase \/ p \in {"close", "done", "aborted"}, p = "close" => r.phase = "reply",
             client' = [client EXCEPT ![c].phase = p, ![c].try = 0]
      PROVE  ClientMove(c)
  <2> PICK s : s = [r EXCEPT !.phase = p, !.try = 0]
    OBVIOUS
  <2> PICK q : q = Phases
    OBVIOUS
  <2>1. s \in Records /\ s.uuid = r.uuid /\ s.phase = p
    <3>1. r \in [phase : q, uuid : 0 .. MaxUuids, try : 0 .. Retries] /\ p \in q
      BY <1>3
    <3>2. 0 \in 0 .. Retries
      BY DEF TitanicAssumption
    <3>3. s \in [phase : q, uuid : 0 .. MaxUuids, try : 0 .. Retries]
      BY <3>1, <3>2
    <3> QED
      BY <3>1, <3>3
  <2>2. client' = [client EXCEPT ![c] = s]
    BY <1>3
  <2> QED
    BY <1>1, <1>3, <2>1, <2>2 DEF ClientMove, Later
<1>4. CASE ClientReplied(c)
  BY <1>3, <1>4 DEF ClientReplied, Phases
<1>5. CASE ClientRefused(c)
  <2>1. /\ r.phase = "reply" /\ Got(c, "300", 0)
        /\ client' = [client EXCEPT ![c].phase = r.phase, ![c].try = 0]
    BY <1>1, <1>5 DEF ClientRefused
  <2> QED
    BY <1>3, <2>1
<1>6. CASE ClientClosed(c)
  BY <1>3, <1>6 DEF ClientClosed, Phases
<1> QED
  BY <1>2, <1>4, <1>5, <1>6 DEF Client

-----------------------------------------------------------------------------
(* The types                                                               *)

LEMMA EntryType ==
  ASSUME DiskTypes, MainTypes, main.at \in Busy \/ (At("scan") /\ main.pos <= Len(queue))
  PROVE  /\ main.pos \in DOMAIN queue /\ main.pos \in 1 .. Len(queue)
         /\ Entry \in Entries /\ Entry.uuid \in Uuids
<1>1. main.pos \in 1 .. Len(queue)
  BY DEF DiskTypes, MainTypes
<1>2. main.pos \in DOMAIN queue /\ queue[main.pos] \in Entries
  BY <1>1 DEF DiskTypes
<1> QED
  BY <1>1, <1>2 DEF Entries, Entry

LEMMA Answered ==
  ASSUME MessageTypes, NEW a \in Attempts, NEW code \in {"200", "300", "empty"},
         NEW u \in 0 .. MaxUuids, Answer(a, code, u)
  PROVE  answers' \subseteq Attempts \X {"200", "300", "empty"} \X (0 .. MaxUuids)
BY DEF Answer, MessageTypes

\* A client whose request is on disk is not told 400.
LEMMA ReplyAnswers ==
  ASSUME Types, OwnersOK, NEW a \in asked, Reply(a)
  PROVE  \/ answers' = answers
         \/ Answer(a, "300", 0)
<1> USE DEF Types, ClientTypes, MessageTypes, DiskTypes
<1>1. a \in Attempts /\ a.op = "reply" /\ a.client \in Clients
  BY DEF Reply, Take, Attempts
<1>2. CASE a = Attempt(a.client)
  <2>1. client[a.client].phase = "reply" /\ a.uuid = client[a.client].uuid
    BY <1>1, <1>2 DEF Attempt
  <2>2. req[a.uuid] /\ a.uuid \in Uuids
    BY <1>1, <2>1 DEF OwnersOK, Attempts, Uuids, Records
  <2> QED
    BY <2>2 DEF Reply
<1>3. CASE a # Attempt(a.client)
  BY <1>3 DEF Reply, Answer
<1> QED
  BY <1>2, <1>3

LEMMA LateType ==
  ASSUME GhostTypes, NEW u \in Uuids, LeaveOut(u)
  PROVE  /\ late' \in [Uuids -> Nat] /\ late'[u] <= late[u] + 1
         /\ \A v \in Uuids : v # u => late'[v] = late[v]
<1> USE DEF GhostTypes
<1>1. PICK n \in {0, 1} : late' = [late EXCEPT ![u] = @ + n]
  BY DEF LeaveOut
<1> QED
  BY <1>1

LEMMA DiskStep ==
  ASSUME TitanicAssumption, Types, [Next]_vars
  PROVE  DiskTypes'
<1> USE DEF Types, DiskTypes
<1>1. ASSUME NEW c \in Clients, Client(c) \/ ClientSend(c) \/ ClientAbandon(c) PROVE DiskTypes'
  BY <1>1, ClientSendMoves, ClientGotMoves DEF ClientMove, disk
<1>2. ASSUME NEW a \in asked, RequestSave(a) PROVE DiskTypes'
  BY <1>2 DEF RequestSave, Uuids, TitanicAssumption
<1>3. ASSUME NEW a \in asked, Reply(a) \/ ReplyExists(a) \/ CloseRequest(a) PROVE DiskTypes'
  BY <1>3 DEF Reply, ReplyExists, CloseRequest, disk
<1>4. CASE RequestSend \/ ReplyLoads \/ RunLate \/ MainTimer \/ ScanEnds \/ ScanSkips \/ ScanLoads \/ CallReplies
             \/ CallFails \/ StartAgain \/ UNCHANGED vars
  BY <1>4 DEF RequestSend, ReplyLoads, RunLate, MainTimer, ScanEnds, ScanSkips, ScanLoads,
              CallReplies, CallFails, StartAgain, vars, disk
<1>5. CASE CloseReply \/ OpenReply \/ SaveReply
  BY <1>5 DEF CloseReply, OpenReply, SaveReply
<1>6. CASE MainRecv
  <2>1. Head(pipe) \in Uuids
    BY <1>6 DEF MainRecv, ThreadTypes
  <2>2. [uuid |-> Head(pipe), mark |-> "-"] \in Entries
    BY <2>1 DEF Entries
  <2> QED
    BY <1>6, <2>2 DEF MainRecv
<1>7. CASE Mark
  <2> PICK k, e : k = main.pos /\ e = [queue[k] EXCEPT !.mark = "+"]
    OBVIOUS
  <2>1. k \in 1 .. Len(queue) /\ e \in Entries
    BY <1>7, EntryType DEF Mark, At, Busy, Entry, Entries
  <2>2. queue' = [queue EXCEPT ![k] = e]
    BY <1>7 DEF Mark
  <2> QED
    BY <1>7, <2>1, <2>2 DEF Mark
<1> QED
  BY <1>1, <1>2, <1>3, <1>4, <1>5, <1>6, <1>7 DEF Next, Services, Scan, Crash, ReplyAsserts

LEMMA GhostStep ==
  ASSUME TitanicAssumption, Types, [Next]_vars
  PROVE  GhostTypes'
<1> USE DEF Types, GhostTypes
<1>1. ASSUME NEW c \in Clients, Client(c) \/ ClientSend(c) \/ ClientAbandon(c)
      PROVE  GhostTypes'
  BY <1>1, ClientSendMoves, ClientGotMoves DEF ClientMove, ghosts
<1>2. ASSUME NEW a \in asked, RequestSave(a) \/ Reply(a) \/ ReplyExists(a) \/ CloseRequest(a)
      PROVE  GhostTypes'
  BY <1>2 DEF RequestSave, Reply, ReplyExists, CloseRequest, Take, ghosts
<1>3. CASE RequestSend \/ ReplyLoads \/ MainRecv \/ MainTimer \/ ScanEnds \/ ScanSkips \/ ScanLoads
             \/ OpenReply \/ SaveReply \/ Mark \/ UNCHANGED vars
  BY <1>3 DEF RequestSend, ReplyLoads, MainRecv, MainTimer, ScanEnds, ScanSkips, ScanLoads, OpenReply,
              SaveReply, Mark, vars, ghosts
<1>4. CASE CloseReply
  <2>1. PICK a \in closing :
          closed' = IF InHand(a.uuid) THEN closed ELSE closed \cup {a.uuid}
    BY <1>4 DEF CloseReply
  <2>2. a.uuid \in Uuids
    BY DEF ThreadTypes, Attempts, Uuids, TitanicAssumption
  <2>3. closed' \subseteq Uuids
    BY <2>1, <2>2
  <2> QED
    BY <1>4, <2>3 DEF CloseReply
<1>5. CASE CallReplies
  <2> PICK u : u = Entry.uuid
    OBVIOUS
  <2>1. u \in Uuids /\ ran' = [ran EXCEPT ![u] = @ + 1]
    BY <1>5, EntryType DEF CallReplies, At, Busy
  <2> QED
    BY <1>5, <2>1 DEF CallReplies
<1>6. CASE CallFails
  <2>1. Entry.uuid \in Uuids
    BY <1>6, EntryType DEF CallFails, At, Busy
  <2>2. late' \in [Uuids -> Nat]
    BY <1>6, <2>1, LateType DEF CallFails
  <2> QED
    BY <1>6, <2>2 DEF CallFails, Fault
<1>7. CASE Crash \/ ReplyAsserts
  <2>1. late' \in [Uuids -> Nat]
    <3>1. CASE At("call")
      <4>1. Entry.uuid \in Uuids
        BY <3>1, EntryType DEF At, Busy
      <4> QED
        BY <1>7, <3>1, <4>1, LateType DEF Crash, ReplyAsserts, StartAgain
    <3>2. CASE ~At("call")
      BY <1>7, <3>2 DEF Crash, ReplyAsserts, StartAgain
    <3> QED
      BY <3>1, <3>2
  <2>2. UNCHANGED <<ran, closed>> /\ faults' = faults + 1
    BY <1>7 DEF Crash, ReplyAsserts, StartAgain, Fault
  <2>3. lost' \subseteq Uuids
    <3>1. lost' = lost \cup {pipe[k] : k \in DOMAIN pipe} \cup {x[2] : x \in saving}
      BY <1>7 DEF Crash, ReplyAsserts, StartAgain
    <3>2. /\ \A k \in DOMAIN pipe : pipe[k] \in Uuids
          /\ \A x \in saving : x[2] \in Uuids
      BY DEF ThreadTypes
    <3> QED
      BY <3>1, <3>2
  <2> QED
    BY <2>1, <2>2, <2>3
<1>8. CASE RunLate
  <2>1. PICK u \in Uuids : /\ late[u] > 0 /\ late' = [late EXCEPT ![u] = @ - 1]
                           /\ ran' = [ran EXCEPT ![u] = @ + 1]
    BY <1>8 DEF RunLate
  <2>2. late' \in [Uuids -> Nat] /\ ran' \in [Uuids -> Nat]
    BY <2>1
  <2> QED
    BY <1>8, <2>2 DEF RunLate
<1> QED
  BY <1>1, <1>2, <1>3, <1>4, <1>5, <1>6, <1>7, <1>8 DEF Next, Services, Scan

LEMMA MainStep ==
  ASSUME TitanicAssumption, Types, [Next]_vars
  PROVE  MainTypes'
<1> USE DEF Types, MainTypes, Busy, At
<1>1. ASSUME NEW c \in Clients, Client(c) \/ ClientSend(c) \/ ClientAbandon(c) PROVE MainTypes'
  BY <1>1, ClientSendMoves, ClientGotMoves DEF ClientMove, disk, threads
<1>2. ASSUME NEW a \in asked, RequestSave(a) \/ Reply(a) \/ ReplyExists(a) \/ CloseRequest(a) PROVE MainTypes'
  BY <1>2 DEF RequestSave, Reply, ReplyExists, CloseRequest, disk, threads
<1>3. CASE RequestSend \/ ReplyLoads \/ RunLate \/ CloseReply \/ UNCHANGED vars
  BY <1>3 DEF RequestSend, ReplyLoads, RunLate, CloseReply, vars, disk, threads
<1>4. CASE MainRecv \/ MainTimer
  <2>1. main' = [at |-> "scan", pos |-> 1] /\ Len(queue') \in Nat
    BY <1>4, DiskStep DEF MainRecv, MainTimer, DiskTypes
  <2> QED
    BY <2>1
<1>5. CASE ScanEnds \/ StartAgain
  <2>1. main' = [at |-> "poll", pos |-> 0] /\ Len(queue') \in Nat
    BY <1>5, DiskStep DEF ScanEnds, StartAgain, Idle, DiskTypes
  <2> QED
    BY <2>1
<1>6. CASE ScanSkips \/ Mark \/ CallFails
  <2>1. /\ main' = [at |-> "scan", pos |-> main.pos + 1] /\ Len(queue') = Len(queue)
        /\ main.pos <= Len(queue)
    BY <1>6 DEF ScanSkips, Mark, CallFails, NextEntry, disk, DiskTypes
  <2> QED
    BY <2>1 DEF DiskTypes
<1>7. CASE ScanLoads \/ CallReplies \/ OpenReply \/ SaveReply
  <2>1. /\ \E at \in Busy : main' = [main EXCEPT !.at = at]
        /\ UNCHANGED queue /\ main.pos \in 1 .. Len(queue)
    BY <1>7 DEF ScanLoads, CallReplies, OpenReply, SaveReply, disk, DiskTypes
  <2> QED
    BY <2>1
<1> QED
  BY <1>1, <1>2, <1>3, <1>4, <1>5, <1>6, <1>7 DEF Next, Services, Scan, Crash, ReplyAsserts

LEMMA ClientTypesStep ==
  ASSUME TitanicAssumption, Types, [Next]_vars
  PROVE  ClientTypes'
<1>1. ASSUME NEW c \in Clients, Client(c) \/ ClientSend(c) \/ ClientAbandon(c)
      PROVE  ClientTypes'
  <2>1. ClientMove(c)
    BY <1>1, ClientSendMoves, ClientGotMoves DEF Types
  <2>2. PICK r \in Records :
          /\ client' = [client EXCEPT ![c] = r]
          /\ \/ r.uuid = client[c].uuid /\ Later(client[c], r)
             \/ r.phase = "reply" /\ r.uuid # 0
    BY <2>1 DEF ClientMove
  <2>3. client' \in [Clients -> Records]
    BY <2>2 DEF Types, ClientTypes
  <2>4. /\ r.phase = "request" => r.uuid = 0
        /\ r.phase \in {"reply", "close"} => r.uuid # 0
    BY <2>2 DEF Types, ClientTypes, Later
  <2> QED
    BY <2>2, <2>3, <2>4 DEF Types, ClientTypes
<1>2. ASSUME UNCHANGED client PROVE ClientTypes'
  BY <1>2 DEF Types, ClientTypes
<1>3. ASSUME NEW a \in asked, RequestSave(a) \/ Reply(a) \/ ReplyExists(a) \/ CloseRequest(a)
      PROVE  UNCHANGED client
  BY <1>3 DEF RequestSave, Reply, ReplyExists, CloseRequest, Take
<1>4. CASE \/ RequestSend \/ CloseReply \/ MainRecv \/ MainTimer \/ ScanEnds \/ ScanSkips
           \/ ScanLoads \/ CallReplies \/ OpenReply \/ SaveReply \/ Mark \/ CallFails
           \/ StartAgain \/ ReplyLoads \/ RunLate \/ UNCHANGED vars
  BY <1>4, <1>2 DEF RequestSend, CloseReply, MainRecv, MainTimer, ScanEnds, ScanSkips, ScanLoads,
     CallReplies, OpenReply, SaveReply, Mark, CallFails, StartAgain, ReplyLoads, RunLate, vars
<1> QED
  BY <1>1, <1>2, <1>3, <1>4 DEF Next, Services, Scan, Crash, ReplyAsserts

LEMMA ThreadStep ==
  ASSUME TitanicAssumption, Types, [Next]_vars
  PROVE  ThreadTypes'
<1> USE DEF Types, ThreadTypes
<1>1. ASSUME NEW c \in Clients, Client(c) \/ ClientSend(c) \/ ClientAbandon(c)
      PROVE  ThreadTypes'
  BY <1>1, ClientSendMoves, ClientGotMoves DEF ClientMove, threads
<1>2. ASSUME NEW a \in asked, RequestSave(a) PROVE ThreadTypes'
  <2>1. a \in Attempts /\ used + 1 \in Uuids
    BY <1>2 DEF RequestSave, MessageTypes, DiskTypes, Uuids, TitanicAssumption
  <2> QED
    BY <1>2, <2>1 DEF RequestSave
<1>3. ASSUME NEW a \in asked, CloseRequest(a) PROVE ThreadTypes'
  BY <1>3 DEF CloseRequest, Take, MessageTypes
<1>4. CASE RequestSend
  BY <1>4 DEF RequestSend
<1>5. CASE MainRecv
  <2>1. pipe' = Tail(pipe) /\ pipe # <<>> /\ UNCHANGED <<saving, reading, closing>>
    BY <1>5 DEF MainRecv
  <2> QED
    BY <2>1
<1>6. CASE CloseReply \/ StartAgain \/ ReplyLoads
  <2>1. /\ pipe' = pipe \/ pipe' = <<>>
        /\ saving' \subseteq saving /\ reading' \subseteq reading /\ closing' \subseteq closing
    BY <1>6 DEF CloseReply, StartAgain, ReplyLoads
  <2>2. CASE pipe' = pipe
    BY <2>1, <2>2
  <2>3. CASE pipe' = <<>>
    <3>1. pipe' \in Seq(Uuids)
      BY <2>3
    <3> QED
      BY <2>1, <3>1
  <2> QED
    BY <2>1, <2>2, <2>3
<1>7. ASSUME UNCHANGED <<pipe, saving, reading, closing>> PROVE ThreadTypes'
  BY <1>7
<1>8. ASSUME NEW a \in asked, Reply(a) PROVE UNCHANGED <<pipe, saving, reading, closing>>
  BY <1>8 DEF Reply, threads
<1>9. CASE \/ MainTimer \/ ScanEnds \/ ScanSkips \/ ScanLoads \/ CallReplies \/ OpenReply
           \/ SaveReply \/ Mark \/ CallFails \/ RunLate \/ UNCHANGED vars
  BY <1>9, <1>7 DEF MainTimer, ScanEnds, ScanSkips, ScanLoads, CallReplies, OpenReply,
     SaveReply, Mark, CallFails, RunLate, vars, threads
<1>10. ASSUME NEW a \in asked, ReplyExists(a) PROVE ThreadTypes'
  BY <1>10 DEF ReplyExists, Take, MessageTypes
<1> QED
  BY <1>1, <1>2, <1>3, <1>4, <1>5, <1>6, <1>7, <1>8, <1>9, <1>10
     DEF Next, Services, Scan, Crash, ReplyAsserts

LEMMA MessageStep ==
  ASSUME TitanicAssumption, Types, OwnersOK, [Next]_vars
  PROVE  MessageTypes'
<1> USE DEF Types
<1>1. ASSUME NEW c \in Clients, Client(c) \/ ClientSend(c) \/ ClientAbandon(c)
      PROVE  MessageTypes'
  <2>1. ClientMove(c)
    BY <1>1, ClientSendMoves, ClientGotMoves
  <2>2. ASSUME NEW a \in asked' PROVE a \in Attempts /\ (a.op \in {"reply", "close"} => a.uuid # 0)
    <3>1. CASE a \in asked
      BY <3>1 DEF MessageTypes
    <3>2. CASE a \notin asked
      BY <2>1, <3>2 DEF ClientMove, ClientTypes
    <3> QED
      BY <3>1, <3>2
  <2> QED
    BY <2>1, <2>2 DEF ClientMove, MessageTypes
<1>2. ASSUME NEW a \in asked, Take(a, a.op), answers' \subseteq answers PROVE MessageTypes'
  BY <1>2 DEF Take, MessageTypes
<1>3. ASSUME NEW a \in asked, RequestSave(a) PROVE MessageTypes'
  BY <1>2, <1>3 DEF RequestSave, Take
<1>4. ASSUME NEW a \in asked, CloseRequest(a) PROVE MessageTypes'
  BY <1>2, <1>4 DEF CloseRequest, Take
<1>5. ASSUME NEW a \in asked, Reply(a) PROVE MessageTypes'
  <2>1. asked' \subseteq asked /\ a \in Attempts /\ 0 \in 0 .. MaxUuids
    BY <1>5 DEF Reply, Take, MessageTypes, TitanicAssumption
  <2>2. answers' \subseteq Attempts \X {"200", "300", "empty"} \X (0 .. MaxUuids)
    BY <1>5, <2>1, ReplyAnswers, Answered DEF MessageTypes
  <2> QED
    BY <2>1, <2>2 DEF MessageTypes
<1>6. CASE RequestSend \/ ReplyLoads \/ CloseReply
  <2>1. PICK a \in Attempts, code \in {"200", "300", "empty"}, u \in 0 .. MaxUuids :
          Answer(a, code, u) /\ UNCHANGED asked
    <3>1. CASE RequestSend
      <4>1. PICK x \in saving : Answer(x[1], "200", x[2]) /\ UNCHANGED asked
        BY <3>1 DEF RequestSend
      <4> QED
        BY <4>1 DEF ThreadTypes, Uuids
    <3>2. CASE CloseReply
      BY <3>2 DEF CloseReply, ThreadTypes, TitanicAssumption
    <3>3. CASE ReplyLoads
      <4>1. PICK a \in reading : /\ Answer(a, "200", 0) \/ Answer(a, "empty", 0)
                                 /\ UNCHANGED asked
        BY <3>3 DEF ReplyLoads
      <4>2. a \in Attempts /\ 0 \in 0 .. MaxUuids
        BY DEF ThreadTypes, TitanicAssumption
      <4> QED
        BY <4>1, <4>2
    <3> QED
      BY <1>6, <3>1, <3>2, <3>3
  <2> QED
    BY <2>1, Answered DEF MessageTypes
<1>7. CASE \/ MainRecv \/ MainTimer \/ ScanEnds \/ ScanSkips \/ ScanLoads \/ CallReplies
           \/ OpenReply \/ SaveReply \/ Mark \/ CallFails \/ StartAgain \/ RunLate
           \/ UNCHANGED vars
  <2>1. UNCHANGED <<asked, answers>>
    BY <1>7 DEF MainRecv, MainTimer, ScanEnds, ScanSkips, ScanLoads, CallReplies, OpenReply,
       SaveReply, Mark, CallFails, StartAgain, RunLate, vars
  <2> QED
    BY <2>1 DEF MessageTypes
<1>8. ASSUME NEW a \in asked, ReplyExists(a) PROVE MessageTypes'
  BY <1>2, <1>8 DEF ReplyExists, Take
<1> QED
  BY <1>1, <1>3, <1>4, <1>5, <1>6, <1>7, <1>8 DEF Next, Services, Scan, Crash, ReplyAsserts

LEMMA TypesStep ==
  ASSUME TitanicAssumption, Types, OwnersOK, [Next]_vars
  PROVE  Types'
BY DiskStep, GhostStep, MainStep, ClientTypesStep, ThreadStep, MessageStep DEF Types

-----------------------------------------------------------------------------
(* Sequences, and what a step of the main thread leaves alone              *)

LEMMA AppendElements ==
  ASSUME NEW S, NEW q \in Seq(S), NEW e \in S
  PROVE  /\ DOMAIN q \subseteq DOMAIN Append(q, e)
         /\ \A k \in DOMAIN q : Append(q, e)[k] = q[k]
         /\ Len(q) + 1 \in DOMAIN Append(q, e) /\ Append(q, e)[Len(q) + 1] = e
         /\ \A k \in DOMAIN Append(q, e) : k \in DOMAIN q \/ k = Len(q) + 1
         /\ Len(q) + 1 \notin DOMAIN q
OBVIOUS

LEMMA TailElements ==
  ASSUME NEW S, NEW q \in Seq(S), q # <<>>
  PROVE  /\ 1 \in DOMAIN q /\ Head(q) = q[1] /\ Head(q) \in S
         /\ \A k \in DOMAIN Tail(q) : k + 1 \in DOMAIN q /\ Tail(q)[k] = q[k + 1] /\ k + 1 # 1
         /\ \A k \in DOMAIN q : k = 1 \/ (k - 1 \in DOMAIN Tail(q) /\ Tail(q)[k - 1] = q[k])
         /\ \A j, k \in DOMAIN Tail(q) : j + 1 = k + 1 => j = k
OBVIOUS

LEMMA Marked ==
  ASSUME Types, Mark
  PROVE  /\ DOMAIN queue' = DOMAIN queue
         /\ \A k \in DOMAIN queue : queue'[k].uuid = queue[k].uuid
         /\ \A k \in DOMAIN queue : k # main.pos => queue'[k] = queue[k]
         /\ queue'[main.pos].mark = "+" /\ main.pos \in DOMAIN queue
<1> USE DEF Types, DiskTypes
<1> PICK k, e : k = main.pos /\ e = [queue[k] EXCEPT !.mark = "+"]
  OBVIOUS
<1>1. k \in DOMAIN queue /\ queue[k] \in Entries
  BY EntryType DEF Mark, At, Busy, Entry
<1>2. e.uuid = queue[k].uuid /\ e.mark = "+"
  BY <1>1 DEF Entries
<1>3. queue' = [queue EXCEPT ![k] = e]
  BY DEF Mark
<1>4. /\ DOMAIN queue' = DOMAIN queue /\ queue'[k] = e
      /\ \A j \in DOMAIN queue : j # k => queue'[j] = queue[j]
  BY <1>1, <1>3
<1> QED
  BY <1>1, <1>2, <1>4

\* A step in which the main thread only looks.
Looks == MainTimer \/ ScanEnds \/ ScanSkips \/ ScanLoads

\* What the steps of the main thread do not touch, once it has received.
Outside == <<req, used, pipe, saving, reading, closing, asked, answers, client, closed, lost>>

LEMMA MainFrame ==
  ASSUME Looks \/ CallReplies \/ CallFails \/ OpenReply \/ SaveReply \/ Mark
  PROVE  /\ UNCHANGED Outside
         /\ Mark \/ UNCHANGED queue
         /\ CallReplies \/ UNCHANGED ran
         /\ CallFails \/ UNCHANGED late
         /\ OpenReply \/ SaveReply \/ UNCHANGED rep
         /\ CallFails \/ UNCHANGED faults
BY DEF Looks, MainTimer, ScanEnds, ScanSkips, ScanLoads, CallReplies, CallFails, OpenReply,
   SaveReply, Mark, Outside, disk, ghosts

\* The calls count a run of the entry, and the files that are opened and written are its.
LEMMA EntryOnly ==
  ASSUME Types
  PROVE  /\ CallReplies =>
              Entry.uuid \in Uuids /\ \A u \in Uuids : u # Entry.uuid => ran'[u] = ran[u]
         /\ CallFails =>
              Entry.uuid \in Uuids /\ \A u \in Uuids : u # Entry.uuid => late'[u] = late[u]
         /\ OpenReply \/ SaveReply =>
              Entry.uuid \in Uuids /\ \A u \in Uuids : u # Entry.uuid => rep'[u] = rep[u]
<1> USE DEF Types, DiskTypes, GhostTypes
<1> PICK e : e = Entry.uuid
  OBVIOUS
<1>1. CallReplies \/ CallFails \/ OpenReply \/ SaveReply => e \in Uuids
  BY EntryType DEF CallReplies, CallFails, OpenReply, SaveReply, At, Busy
<1>2. CallReplies => \A u \in Uuids : u # e => ran'[u] = ran[u]
  BY DEF CallReplies
<1>3. CallFails => \A u \in Uuids : u # e => late'[u] = late[u]
  BY <1>1, LateType DEF CallFails
<1>4. OpenReply \/ SaveReply => \A u \in Uuids : u # e => rep'[u] = rep[u]
  BY DEF OpenReply, SaveReply
<1> QED
  BY <1>1, <1>2, <1>3, <1>4

\* Only a call under way is given up when Titanic ends.
LEMMA EndsLate ==
  ASSUME Types, StartAgain
  PROVE  \A u \in Uuids : late'[u] # late[u] =>
                           At("call") /\ u = Entry.uuid /\ late'[u] <= late[u] + 1
<1>1. CASE At("call")
  <2>1. Entry.uuid \in Uuids
    BY <1>1, EntryType DEF At, Busy, Types
  <2> QED
    BY <1>1, <2>1, LateType DEF StartAgain, Types
<1>2. CASE ~At("call")
  BY <1>2 DEF StartAgain
<1> QED
  BY <1>1, <1>2

-----------------------------------------------------------------------------
(* Uuids                                                                   *)

LEMMA DrawnStep ==
  ASSUME TitanicAssumption, Types, DrawnOK, ClosersOK, [Next]_vars
  PROVE  DrawnOK'
<1> SUFFICES ASSUME NEW u \in Uuids, u > used' PROVE Fresh(u)'
  BY DEF DrawnOK
<1> USE DEF Types, DiskTypes
<1>0. used' >= used /\ u > used /\ Fresh(u) /\ u # 0
  <2>1. used' = used \/ used' = used + 1
    <3>1. ASSUME NEW c \in Clients, Client(c) \/ ClientSend(c) \/ ClientAbandon(c)
          PROVE  used' = used
      BY <3>1, ClientSendMoves, ClientGotMoves DEF ClientMove, disk
    <3> QED
      BY <3>1, MainFrame DEF Next, Services, Scan, Looks, Outside, RequestSave, Reply, CloseRequest,
         ReplyExists, RequestSend, ReplyLoads, CloseReply, MainRecv, RunLate, Crash, ReplyAsserts,
         StartAgain, vars, disk
  <2> QED
    BY <2>1 DEF DrawnOK, Uuids, TitanicAssumption
<1> USE DEF Fresh
<1>1. ASSUME NEW c \in Clients, Client(c) \/ ClientSend(c) \/ ClientAbandon(c) PROVE Fresh(u)'
  <2>1. ClientMove(c)
    BY <1>1, ClientSendMoves, ClientGotMoves
  <2>2. UNCHANGED <<disk, threads, ghosts>> /\ answers' \subseteq answers
    BY <2>1 DEF ClientMove
  <2>3. \A d \in Clients : client'[d].uuid # u
    BY <1>0, <2>1 DEF ClientMove, ClientTypes
  <2> QED
    BY <1>0, <2>2, <2>3 DEF disk, threads, ghosts
<1>2. ASSUME NEW a \in asked, RequestSave(a) PROVE Fresh(u)'
  <2>1. used + 1 \in Nat /\ u > used + 1
    BY <1>2 DEF RequestSave
  <2> QED
    BY <1>0, <1>2, <2>1 DEF RequestSave, Take, ghosts
<1>3. ASSUME NEW a \in asked, Reply(a) PROVE Fresh(u)'
  <2>1. \A x \in answers' : x \in answers \/ x[3] = 0
    BY <1>3 DEF Reply, Answer
  <2> QED
    BY <1>0, <1>3, <2>1 DEF Reply, Take, disk, threads, ghosts
<1>4. ASSUME NEW a \in asked, CloseRequest(a) PROVE Fresh(u)'
  BY <1>0, <1>4 DEF CloseRequest, Take, ghosts
<1>5. CASE RequestSend
  <2>1. PICK x \in saving : /\ pipe' = Append(pipe, x[2]) /\ Answer(x[1], "200", x[2])
                            /\ saving' = {} /\ UNCHANGED <<disk, client, ghosts>>
    BY <1>5 DEF RequestSend
  <2>2. x[2] \in Uuids /\ x[2] # u
    BY <1>0 DEF ThreadTypes
  <2>3. \A k \in DOMAIN pipe' : pipe'[k] # u
    BY <1>0, <2>1, <2>2, AppendElements DEF ThreadTypes
  <2> QED
    BY <1>0, <2>1, <2>2, <2>3 DEF Answer, disk, ghosts
<1>6. CASE CloseReply
  <2>1. PICK a \in closing :
          /\ rep' = [rep EXCEPT ![a.uuid] = "none"] /\ closed' \subseteq closed \cup {a.uuid}
          /\ Answer(a, "200", 0) /\ closing' = {}
          /\ UNCHANGED <<req, queue, used, pipe, saving, client, ran, late>>
    BY <1>6 DEF CloseReply
  <2>2. a.uuid # u
    BY <1>0 DEF ClosersOK, ThreadTypes, Attempts
  <2> QED
    BY <1>0, <2>1, <2>2 DEF Answer
<1>7. CASE MainRecv
  <2> PICK e : e = [uuid |-> Head(pipe), mark |-> "-"]
    OBVIOUS
  <2>1. /\ pipe # <<>> /\ queue' = Append(queue, e) /\ pipe' = Tail(pipe)
        /\ UNCHANGED <<req, rep, saving, answers, client, ghosts>>
    BY <1>7 DEF MainRecv
  <2>2. e \in Entries /\ e.uuid # u
    BY <1>0, <2>1, TailElements DEF ThreadTypes, Entries
  <2>3. \A k \in DOMAIN queue' : queue'[k].uuid # u
    BY <1>0, <2>1, <2>2, AppendElements
  <2>4. \A k \in DOMAIN pipe' : pipe'[k] # u
    BY <1>0, <2>1, TailElements DEF ThreadTypes
  <2> QED
    BY <1>0, <2>1, <2>3, <2>4 DEF ghosts
<1>8. CASE Looks \/ CallReplies \/ CallFails \/ OpenReply \/ SaveReply \/ Mark
  <2>1. UNCHANGED Outside
    BY <1>8, MainFrame
  <2>2. CallReplies \/ CallFails \/ OpenReply \/ SaveReply => Entry.uuid # u
    BY <1>0, EntryType DEF CallReplies, CallFails, OpenReply, SaveReply, At, Busy, Entry
  <2>3. ran'[u] = 0 /\ late'[u] = 0 /\ rep'[u] = "none"
    BY <1>0, <1>8, <2>2, MainFrame, EntryOnly
  <2>4. \A k \in DOMAIN queue' : queue'[k].uuid # u
    BY <1>0, <1>8, MainFrame, Marked
  <2> QED
    BY <1>0, <2>1, <2>3, <2>4 DEF Outside
<1>9. CASE StartAgain
  <2>1. late'[u] = late[u]
    <3>1. CASE At("call")
      BY <1>0, <1>9, <3>1, EntryType, EndsLate DEF At, Busy, Entry
    <3>2. CASE ~At("call")
      BY <1>9, <3>2, EndsLate
    <3> QED
      BY <3>1, <3>2
  <2> QED
    BY <1>0, <1>9, <2>1 DEF StartAgain, disk
<1>10. CASE RunLate
  <2>1. PICK v \in Uuids : /\ late[v] > 0 /\ late' = [late EXCEPT ![v] = @ - 1]
                           /\ ran' = [ran EXCEPT ![v] = @ + 1]
                           /\ UNCHANGED <<disk, threads, answers, client, closed>>
    BY <1>10 DEF RunLate
  <2>2. v # u
    BY <1>0, <2>1
  <2>3. ran'[u] = ran[u] /\ late'[u] = late[u]
    BY <2>1, <2>2 DEF GhostTypes
  <2> QED
    BY <1>0, <2>1, <2>3 DEF disk, threads
<1>11. ASSUME NEW a \in asked, ReplyExists(a) PROVE Fresh(u)'
  BY <1>0, <1>11 DEF ReplyExists, Take, disk, ghosts
<1>12. CASE ReplyLoads
  <2>1. \A x \in answers' : x \in answers \/ x[3] = 0
    BY <1>12 DEF ReplyLoads, Answer
  <2> QED
    BY <1>0, <1>12, <2>1 DEF ReplyLoads, disk, ghosts
<1>13. CASE UNCHANGED vars
  BY <1>0, <1>13 DEF vars, disk, threads, ghosts
<1> QED
  BY <1>1, <1>2, <1>3, <1>4, <1>5, <1>6, <1>7, <1>8, <1>9, <1>10, <1>11, <1>12, <1>13
     DEF Next, Services, Scan, Looks, Crash, ReplyAsserts

LEMMA OwnersStep ==
  ASSUME TitanicAssumption, Types, DrawnOK, OwnersOK, ClosersOK, [Next]_vars
  PROVE  OwnersOK'
<1> USE DEF Types, OwnersOK
<1>1. ASSUME NEW c \in Clients, Client(c) \/ ClientSend(c) \/ ClientAbandon(c)
      PROVE  OwnersOK'
  <2>1. ClientMove(c)
    BY <1>1, ClientSendMoves, ClientGotMoves
  <2>2. PICK r \in Records :
          /\ client' = [client EXCEPT ![c] = r]
          /\ \/ r.uuid = client[c].uuid /\ Later(client[c], r)
             \/ /\ client[c].phase = "request" /\ r.phase = "reply" /\ r.uuid # 0
                /\ \E x \in answers \ answers' : x[3] = r.uuid
    BY <2>1 DEF ClientMove
  <2>3. /\ UNCHANGED <<req, saving>> /\ answers' \subseteq answers
        /\ client'[c] = r /\ \A d \in Clients : d # c => client'[d] = client[d]
    BY <2>1, <2>2 DEF ClientMove, disk, threads, ClientTypes
  <2>4. CASE r.uuid = client[c].uuid /\ Later(client[c], r)
    <3>1. \A d \in Clients : client'[d].uuid = client[d].uuid
      BY <2>3, <2>4
    <3>2. \A d \in Clients : client'[d].phase = "reply" => client[d].phase = "reply"
      BY <2>3, <2>4 DEF Later
    <3> QED
      BY <2>3, <3>1, <3>2
  <2>5. ASSUME NEW x \in answers \ answers', x[3] = r.uuid, r.uuid # 0 PROVE OwnersOK'
    <3>1. /\ req[r.uuid] /\ \A d \in Clients : client[d].uuid # r.uuid
          /\ \A y \in answers' : y[3] # r.uuid
          /\ \A y \in saving : y[2] # r.uuid
      BY <2>3, <2>5
    <3> QED
      BY <2>3, <3>1
  <2> QED
    BY <2>2, <2>4, <2>5
<1>2. ASSUME NEW a \in asked, RequestSave(a) PROVE OwnersOK'
  <2>1. /\ Fresh(used + 1) /\ used + 1 \in Uuids /\ saving' = {<<a, used + 1>>}
        /\ req' = [req EXCEPT ![used + 1] = TRUE] /\ UNCHANGED <<answers, client>>
    BY <1>2 DEF RequestSave, Take, DrawnOK, DiskTypes, Uuids, TitanicAssumption
  <2>2. \A u \in Uuids : req[u] => req'[u]
    BY <2>1 DEF DiskTypes
  <2>3. /\ \A x \in answers : x[3] # 0 => x[3] \in Uuids
        /\ \A c \in Clients : client[c].uuid # 0 => client[c].uuid \in Uuids
    BY DEF MessageTypes, ClientTypes, Records, Uuids, TitanicAssumption
  <2>4. req'[used + 1] /\ \A x \in saving' : x[2] = used + 1
    BY <2>1 DEF DiskTypes
  <2> QED
    BY <2>1, <2>2, <2>3, <2>4 DEF Fresh, ClientTypes
<1>3. ASSUME NEW a \in asked, Reply(a) PROVE OwnersOK'
  <2>1. \A x \in answers' : x \in answers \/ x[3] = 0
    BY <1>3 DEF Reply, Answer
  <2>2. UNCHANGED <<req, saving, client>> /\ \A x \in saving : x[2] # 0
    BY <1>3 DEF Reply, Take, disk, threads, ThreadTypes, Uuids
  <2> QED
    BY <2>1, <2>2
<1>4. ASSUME NEW a \in asked, CloseRequest(a) PROVE OwnersOK'
  <2>1. /\ a.client \in Clients /\ client[a.client].uuid = a.uuid /\ a.uuid # 0
        /\ client[a.client].phase # "reply"
    BY <1>4 DEF CloseRequest, Take, ClosersOK, MessageTypes, Attempts
  <2>2. /\ \A u : u # a.uuid => req'[u] = req[u]
        /\ UNCHANGED <<saving, answers, client>>
    BY <1>4 DEF CloseRequest, Take, DiskTypes
  <2> QED
    BY <2>1, <2>2
<1>5. CASE RequestSend
  <2>1. PICK x \in saving : /\ Answer(x[1], "200", x[2]) /\ saving' = {}
                            /\ UNCHANGED <<req, client>>
    BY <1>5 DEF RequestSend, disk
  <2>2. \A y \in answers' : y \in answers \/ y = <<x[1], "200", x[2]>>
    BY <2>1 DEF Answer
  <2> QED
    BY <2>1, <2>2
<1>6. CASE CloseReply
  <2>1. \A x \in answers' : x \in answers \/ x[3] = 0
    BY <1>6 DEF CloseReply, Answer
  <2>2. UNCHANGED <<req, saving, client>> /\ \A x \in saving : x[2] # 0
    BY <1>6 DEF CloseReply, ThreadTypes, Uuids
  <2> QED
    BY <2>1, <2>2
<1>7. CASE MainRecv
  BY <1>7 DEF MainRecv
<1>8. CASE Looks \/ CallReplies \/ CallFails \/ OpenReply \/ SaveReply \/ Mark
  <2>1. UNCHANGED <<req, saving, answers, client>>
    BY <1>8, MainFrame DEF Outside
  <2> QED
    BY <2>1
<1>9. CASE StartAgain \/ RunLate
  BY <1>9 DEF StartAgain, RunLate, disk, threads
<1>10. ASSUME NEW a \in asked, ReplyExists(a) PROVE OwnersOK'
  BY <1>10 DEF ReplyExists, Take, disk
<1>11. CASE ReplyLoads
  <2>1. \A x \in answers' : x \in answers \/ x[3] = 0
    BY <1>11 DEF ReplyLoads, Answer
  <2>2. UNCHANGED <<req, saving, client>> /\ \A x \in saving : x[2] # 0
    BY <1>11 DEF ReplyLoads, disk, ThreadTypes, Uuids
  <2> QED
    BY <2>1, <2>2
<1>12. CASE UNCHANGED vars
  BY <1>12 DEF vars, disk, threads
<1> QED
  BY <1>1, <1>2, <1>3, <1>4, <1>5, <1>6, <1>7, <1>8, <1>9, <1>10, <1>11, <1>12
     DEF Next, Services, Scan, Looks, Crash, ReplyAsserts

LEMMA ClosersStep ==
  ASSUME TitanicAssumption, Types, DrawnOK, OwnersOK, ClosersOK, [Next]_vars
  PROVE  ClosersOK'
<1> USE DEF Types
<1>1. ASSUME NEW c \in Clients, Client(c) \/ ClientSend(c) \/ ClientAbandon(c)
      PROVE  ClosersOK'
  <2>1. ClientMove(c)
    BY <1>1, ClientSendMoves, ClientGotMoves
  <2>2. PICK r \in Records :
          /\ client' = [client EXCEPT ![c] = r]
          /\ \/ r.uuid = client[c].uuid /\ Later(client[c], r)
             \/ client[c].phase = "request"
    BY <2>1 DEF ClientMove
  <2>3. /\ UNCHANGED <<req, closing, closed, queue, main>>
        /\ client'[c] = r /\ \A d \in Clients : d # c => client'[d] = client[d]
    BY <2>1, <2>2 DEF ClientMove, disk, threads, ghosts, ClientTypes
  <2>4. ASSUME NEW a \in asked \cup closing, a.op = "close"
        PROVE  /\ client'[a.client].uuid = a.uuid
               /\ client'[a.client].phase \notin {"request", "reply"}
    <3>1. a.client \in Clients
      BY DEF MessageTypes, ThreadTypes, Attempts
    <3> QED
      BY <2>2, <2>3, <2>4, <3>1 DEF ClosersOK, Later
  <2>5. ASSUME NEW a \in asked' \ asked, a.op = "close"
        PROVE  /\ client'[a.client].uuid = a.uuid
               /\ client'[a.client].phase \notin {"request", "reply"}
    <3>1. /\ a.client = c /\ client[c].phase = "close" /\ a.uuid = client[c].uuid
          /\ client'[c].phase = "close"
      BY <2>1, <2>5 DEF ClientMove
    <3> QED
      BY <2>2, <2>3, <3>1
  <2> QED
    BY <2>3, <2>4, <2>5 DEF ClosersOK, InHand, Entry
<1>2. ASSUME NEW a \in asked, RequestSave(a) PROVE ClosersOK'
  <2>1. /\ Fresh(used + 1) /\ used + 1 \in Uuids
        /\ req' = [req EXCEPT ![used + 1] = TRUE] /\ asked' \subseteq asked
        /\ UNCHANGED <<closing, closed, main, queue, client>>
    BY <1>2 DEF RequestSave, Take, ghosts, DrawnOK, DiskTypes, Uuids, TitanicAssumption
  <2>2. \A b \in closing : b.uuid # used + 1
    <3> SUFFICES ASSUME NEW b \in closing PROVE b.uuid # used + 1
      OBVIOUS
    <3>1. b.client \in Clients /\ b.op = "close"
      BY DEF ThreadTypes, Attempts
    <3> QED
      BY <2>1, <3>1 DEF ClosersOK, Fresh
  <2>3. \A u \in Uuids : u # used + 1 => req'[u] = req[u]
    BY <2>1 DEF DiskTypes
  <2>4. /\ \A b \in closing : b.uuid \in Uuids
        /\ \A u \in closed : u \in Uuids /\ u # used + 1
    BY <2>1 DEF ThreadTypes, Attempts, Uuids, GhostTypes, Fresh, TitanicAssumption
  <2> QED
    BY <2>1, <2>2, <2>3, <2>4 DEF ClosersOK, InHand, Entry
<1>3. ASSUME NEW a \in asked, Reply(a) PROVE ClosersOK'
  <2>1. asked' \subseteq asked /\ UNCHANGED <<req, closing, closed, main, queue, client>>
    BY <1>3 DEF Reply, Take, disk, threads, ghosts
  <2> QED
    BY <2>1 DEF ClosersOK, InHand, Entry
<1>4. ASSUME NEW a \in asked, CloseRequest(a) PROVE ClosersOK'
  <2>1. /\ asked' \subseteq asked /\ closing' = {a} /\ req' = [req EXCEPT ![a.uuid] = FALSE]
        /\ UNCHANGED <<closed, main, queue, client>> /\ a.uuid \in Uuids
    BY <1>4 DEF CloseRequest, Take, ghosts, MessageTypes, Attempts, Uuids, TitanicAssumption
  <2>2. ~req'[a.uuid] /\ \A u \in Uuids : req'[u] => req[u]
    BY <2>1 DEF DiskTypes
  <2> QED
    BY <2>1, <2>2 DEF ClosersOK, InHand, Entry, GhostTypes
<1>5. CASE RequestSend
  BY <1>5 DEF RequestSend, disk, ghosts, ClosersOK, InHand, Entry
<1>6. CASE CloseReply
  <2>1. PICK a \in closing :
          /\ closed' = IF InHand(a.uuid) THEN closed ELSE closed \cup {a.uuid}
          /\ closing' = {} /\ UNCHANGED <<req, main, queue, asked, client>>
    BY <1>6 DEF CloseReply
  <2>2. \A u \in closed' : ~req[u] /\ ~InHand(u)
    BY <2>1 DEF ClosersOK
  <2> QED
    BY <2>1, <2>2 DEF ClosersOK, InHand, Entry
<1>7. CASE MainRecv
  <2>1. main'.at = "scan" /\ UNCHANGED <<req, closing, closed, asked, client>>
    BY <1>7 DEF MainRecv, ghosts
  <2> QED
    BY <2>1 DEF ClosersOK, InHand
<1>8. CASE Looks \/ CallReplies \/ CallFails \/ OpenReply \/ SaveReply \/ Mark
  <2>1. UNCHANGED <<req, closing, closed, asked, client>>
    BY <1>8, MainFrame DEF Outside
  <2>2. ASSUME NEW u \in Uuids, InHand(u)' PROVE InHand(u) \/ req[u]
    <3>1. CASE MainTimer \/ ScanEnds \/ ScanSkips \/ CallFails \/ Mark
      <4>1. main'.at \in {"scan", "poll"}
        BY <3>1 DEF MainTimer, ScanEnds, ScanSkips, CallFails, Mark, NextEntry, Idle
      <4> QED
        BY <2>2, <4>1 DEF InHand
    <3>2. CASE ScanLoads
      BY <2>2, <3>2 DEF ScanLoads, InHand, Entry, MainTypes, disk
    <3>3. CASE CallReplies \/ OpenReply \/ SaveReply
      BY <2>2, <3>3 DEF CallReplies, OpenReply, SaveReply, InHand, Entry, MainTypes, disk, At
    <3> QED
      BY <1>8, <3>1, <3>2, <3>3 DEF Looks
  <2> QED
    BY <2>1, <2>2 DEF ClosersOK, GhostTypes
<1>9. CASE StartAgain
  BY <1>9 DEF StartAgain, Idle, disk, ClosersOK, InHand
<1>10. ASSUME NEW a \in asked, ReplyExists(a) PROVE ClosersOK'
  <2>1. asked' \subseteq asked /\ UNCHANGED <<req, closing, closed, main, queue, client>>
    BY <1>10 DEF ReplyExists, Take, disk, ghosts
  <2> QED
    BY <2>1 DEF ClosersOK, InHand, Entry
<1>11. CASE ReplyLoads \/ RunLate
  <2>1. UNCHANGED <<req, closing, closed, main, queue, asked, client>>
    BY <1>11 DEF ReplyLoads, RunLate, disk, threads, ghosts
  <2> QED
    BY <2>1 DEF ClosersOK, InHand, Entry
<1>12. CASE UNCHANGED vars
  BY <1>12 DEF vars, disk, threads, ghosts, ClosersOK, InHand, Entry
<1> QED
  BY <1>1, <1>2, <1>3, <1>4, <1>5, <1>6, <1>7, <1>8, <1>9, <1>10, <1>11, <1>12
     DEF Next, Services, Scan, Looks, Crash, ReplyAsserts

\* A closed request stays closed.
LEMMA ClosedGrows ==
  ASSUME TitanicAssumption, Types, Next
  PROVE  closed \subseteq closed'
<1>1. ASSUME NEW c \in Clients, Client(c) \/ ClientSend(c) \/ ClientAbandon(c)
      PROVE  closed \subseteq closed'
  BY <1>1, ClientSendMoves, ClientGotMoves DEF ClientMove, ghosts, Types
<1>2. ASSUME NEW a \in asked,
             RequestSave(a) \/ Reply(a) \/ ReplyExists(a) \/ CloseRequest(a)
      PROVE  closed \subseteq closed'
  BY <1>2 DEF RequestSave, Reply, ReplyExists, CloseRequest, ghosts
<1>3. CASE RequestSend \/ ReplyLoads \/ CloseReply \/ MainRecv \/ RunLate \/ StartAgain
  BY <1>3 DEF RequestSend, ReplyLoads, CloseReply, MainRecv, RunLate, StartAgain, ghosts
<1>4. CASE Looks \/ CallReplies \/ CallFails \/ OpenReply \/ SaveReply \/ Mark
  BY <1>4, MainFrame DEF Outside
<1> QED
  BY <1>1, <1>2, <1>3, <1>4 DEF Next, Services, Scan, Looks, Crash, ReplyAsserts

-----------------------------------------------------------------------------
(* The way to the queue, and the runs                                      *)

LEMMA OnceStep ==
  ASSUME TitanicAssumption, Types, DrawnOK, OncePerUuid, [Next]_vars
  PROVE  OncePerUuid'
<1> USE DEF Types, OncePerUuid
<1>1. ASSUME NEW c \in Clients, Client(c) \/ ClientSend(c) \/ ClientAbandon(c)
      PROVE  OncePerUuid'
  BY <1>1, ClientSendMoves, ClientGotMoves DEF ClientMove, disk, threads
<1>2. ASSUME NEW a \in asked, RequestSave(a) PROVE OncePerUuid'
  <2>1. /\ Fresh(used + 1) /\ saving' = {<<a, used + 1>>} /\ UNCHANGED <<pipe, queue>>
    BY <1>2 DEF RequestSave, DrawnOK, DiskTypes, Uuids, TitanicAssumption
  <2> QED
    BY <2>1 DEF Fresh
<1>3. ASSUME NEW a \in asked, Reply(a) \/ ReplyExists(a) \/ CloseRequest(a) PROVE OncePerUuid'
  BY <1>3 DEF Reply, ReplyExists, CloseRequest, disk, threads
<1>4. CASE RequestSend
  <2>1. PICK x \in saving : /\ pipe' = Append(pipe, x[2]) /\ saving' = {}
                            /\ UNCHANGED queue /\ x[2] \in Uuids
    BY <1>4 DEF RequestSend, disk, ThreadTypes
  <2>2. \A k \in DOMAIN pipe : pipe[k] # x[2]
    BY <2>1
  <2>3. \A j, k \in DOMAIN pipe' : pipe'[j] = pipe'[k] => j = k
    BY <2>1, <2>2, AppendElements DEF ThreadTypes
  <2>4. \A j \in DOMAIN pipe', k \in DOMAIN queue : pipe'[j] # queue[k].uuid
    BY <2>1, AppendElements DEF ThreadTypes
  <2> QED
    BY <2>1, <2>3, <2>4
<1>5. CASE CloseReply \/ ReplyLoads \/ RunLate
  BY <1>5 DEF CloseReply, ReplyLoads, RunLate, disk, threads
<1>6. CASE MainRecv
  <2> PICK e : e = [uuid |-> Head(pipe), mark |-> "-"]
    OBVIOUS
  <2>1. /\ pipe # <<>> /\ queue' = Append(queue, e) /\ pipe' = Tail(pipe) /\ UNCHANGED saving
    BY <1>6 DEF MainRecv
  <2>2. e \in Entries /\ e.uuid = pipe[1] /\ 1 \in DOMAIN pipe
    BY <2>1, TailElements DEF ThreadTypes, Entries
  <2>3. \A k \in DOMAIN queue : queue[k].uuid # e.uuid
    BY <2>2
  <2>4. \A j, k \in DOMAIN queue' : queue'[j].uuid = queue'[k].uuid => j = k
    BY <2>1, <2>2, <2>3, AppendElements DEF DiskTypes
  <2>5. \A k \in DOMAIN pipe' : k + 1 \in DOMAIN pipe /\ pipe'[k] = pipe[k + 1] /\ k + 1 # 1
    BY <2>1, TailElements DEF ThreadTypes
  <2>6. \A j, k \in DOMAIN pipe' : pipe'[j] = pipe'[k] => j = k
    BY <2>1, <2>5, TailElements DEF ThreadTypes
  <2>7. \A j \in DOMAIN pipe' : pipe'[j] # e.uuid
    BY <2>2, <2>5
  <2>8. \A j \in DOMAIN pipe', k \in DOMAIN queue' : pipe'[j] # queue'[k].uuid
    BY <2>1, <2>2, <2>5, <2>7, AppendElements DEF DiskTypes
  <2>9. \A x \in saving : /\ \A k \in DOMAIN pipe' : pipe'[k] # x[2]
                          /\ \A k \in DOMAIN queue' : queue'[k].uuid # x[2]
    BY <2>1, <2>2, <2>5, AppendElements DEF DiskTypes
  <2> QED
    BY <2>1, <2>4, <2>6, <2>8, <2>9
<1>7. CASE Looks \/ CallReplies \/ CallFails \/ OpenReply \/ SaveReply \/ Mark
  <2>1. UNCHANGED <<pipe, saving>>
    BY <1>7, MainFrame DEF Outside
  <2>2. /\ DOMAIN queue' = DOMAIN queue
        /\ \A k \in DOMAIN queue : queue'[k].uuid = queue[k].uuid
    BY <1>7, MainFrame, Marked
  <2> QED
    BY <2>1, <2>2
<1>8. CASE StartAgain
  BY <1>8 DEF StartAgain, disk
<1>9. CASE UNCHANGED vars
  BY <1>9 DEF vars, disk, threads
<1> QED
  BY <1>1, <1>2, <1>3, <1>4, <1>5, <1>6, <1>7, <1>8, <1>9
     DEF Next, Services, Scan, Looks, Crash, ReplyAsserts

LEMMA MainKnows ==
  ASSUME TitanicAssumption, Types, DrawnOK, ClosersOK, MainOK, [Next]_vars
  PROVE  MainOK'
<1> USE DEF Types, MainOK, At
<1>1. ASSUME NEW c \in Clients, Client(c) \/ ClientSend(c) \/ ClientAbandon(c) PROVE MainOK'
  BY <1>1, ClientSendMoves, ClientGotMoves DEF ClientMove, disk, threads, Entry
<1>2. ASSUME NEW a \in asked, RequestSave(a) PROVE MainOK'
  <2>1. /\ Fresh(used + 1) /\ req' = [req EXCEPT ![used + 1] = TRUE]
        /\ UNCHANGED <<rep, queue, main>>
    BY <1>2 DEF RequestSave, DrawnOK, DiskTypes, Uuids, TitanicAssumption
  <2>2. main.at \in Busy => /\ Entry.uuid # used + 1 /\ Entry.uuid \in Uuids
                            /\ req'[Entry.uuid] = req[Entry.uuid]
    BY <2>1, EntryType DEF Fresh, Entry, DiskTypes
  <2> QED
    BY <2>1, <2>2 DEF Entry, Busy
<1>3. ASSUME NEW a \in asked, Reply(a) \/ ReplyExists(a) PROVE MainOK'
  BY <1>3 DEF Reply, ReplyExists, disk, threads, Entry
<1>4. ASSUME NEW a \in asked, CloseRequest(a) PROVE MainOK'
  <2>1. /\ \A u \in Uuids : req'[u] => req[u]
        /\ UNCHANGED <<rep, queue, main>>
    BY <1>4 DEF CloseRequest, DiskTypes
  <2>2. main.at \in Busy => Entry.uuid \in Uuids
    BY EntryType
  <2> QED
    BY <2>1, <2>2 DEF Entry, Busy
<1>5. CASE RequestSend \/ ReplyLoads \/ RunLate
  BY <1>5 DEF RequestSend, ReplyLoads, RunLate, disk, threads, Entry
<1>6. CASE CloseReply
  <2>1. PICK a \in closing : /\ rep' = [rep EXCEPT ![a.uuid] = "none"] /\ ~req[a.uuid]
                             /\ UNCHANGED <<req, queue, main>>
    BY <1>6 DEF CloseReply, ClosersOK
  <2>2. main.at \in Busy => Entry.uuid \in Uuids
    BY EntryType
  <2>3. \A u \in Uuids : u # a.uuid => rep'[u] = rep[u]
    BY <2>1 DEF DiskTypes
  <2> QED
    BY <2>1, <2>2, <2>3 DEF Entry, Busy
<1>7. CASE MainRecv \/ MainTimer \/ ScanEnds \/ ScanSkips \/ CallFails \/ Mark \/ StartAgain
  <2>1. main'.at \in {"scan", "poll"}
    BY <1>7 DEF MainRecv, MainTimer, ScanEnds, ScanSkips, CallFails, Mark, StartAgain, NextEntry, Idle
  <2> QED
    BY <2>1 DEF Busy
<1>8. CASE ScanLoads
  <2>1. /\ Entry.mark = "-" /\ UNCHANGED <<req, queue>>
        /\ main'.at = (IF req[Entry.uuid] THEN "call" ELSE "mark") /\ main'.pos = main.pos
    BY <1>8 DEF ScanLoads, disk, MainTypes
  <2> QED
    BY <2>1 DEF Entry
<1>9. CASE CallReplies
  BY <1>9 DEF CallReplies, disk, Entry, MainTypes, Busy
<1>10. CASE OpenReply \/ SaveReply
  <2> PICK e : e = Entry.uuid
    OBVIOUS
  <2>1. /\ main.at \in Busy /\ main'.pos = main.pos /\ UNCHANGED <<req, queue>> /\ e \in Uuids
    BY <1>10, EntryType DEF OpenReply, SaveReply, MainTypes, Busy
  <2>2. Entry' = Entry
    BY <2>1 DEF Entry
  <2>3. CASE OpenReply
    <3>1. main'.at = "save" /\ rep'[e] = "empty"
      BY <2>1, <2>3 DEF OpenReply, MainTypes, DiskTypes
    <3> QED
      BY <2>1, <2>2, <3>1
  <2>4. CASE SaveReply
    <3>1. main'.at = "mark" /\ rep'[e] = IF rep[e] = "none" THEN "none" ELSE "full"
      BY <2>1, <2>4 DEF SaveReply, MainTypes, DiskTypes
    <3>2. ~req[e] \/ rep[e] # "none"
      BY <2>4 DEF SaveReply
    <3> QED
      BY <2>1, <2>2, <3>1, <3>2
  <2> QED
    BY <1>10, <2>3, <2>4
<1>11. CASE UNCHANGED vars
  BY <1>11 DEF vars, disk, threads, Entry
<1> QED
  BY <1>1, <1>2, <1>3, <1>4, <1>5, <1>6, <1>7, <1>8, <1>9, <1>10, <1>11
     DEF Next, Services, Scan, Crash, ReplyAsserts

-----------------------------------------------------------------------------
(* What the runs check                                                     *)

OnTheWay(u) ==
  \/ \E x \in saving : x[2] = u
  \/ \E k \in DOMAIN pipe : pipe[k] = u
  \/ \E k \in DOMAIN queue : queue[k] = [uuid |-> u, mark |-> "-"]

LEMMA ForgottenStep ==
  ASSUME TitanicAssumption, Types, DrawnOK, ClosersOK, MainOK, NothingForgotten, [Next]_vars
  PROVE  NothingForgotten'
<1> SUFFICES ASSUME NEW u \in Uuids, req'[u], rep'[u] # "full", u \notin lost'
             PROVE  OnTheWay(u)'
  BY DEF NothingForgotten, OnTheWay
<1>0. req[u] /\ rep[u] # "full" /\ u \notin lost => OnTheWay(u)
  BY DEF NothingForgotten, OnTheWay
<1> USE DEF Types, OnTheWay
<1>1. ASSUME NEW c \in Clients, Client(c) \/ ClientSend(c) \/ ClientAbandon(c)
      PROVE  OnTheWay(u)'
  BY <1>0, <1>1, ClientSendMoves, ClientGotMoves DEF ClientMove, disk, threads, ghosts
<1>2. ASSUME NEW a \in asked, RequestSave(a) PROVE OnTheWay(u)'
  <2>1. /\ saving = {} /\ saving' = {<<a, used + 1>>}
        /\ req' = [req EXCEPT ![used + 1] = TRUE] /\ UNCHANGED <<rep, queue, pipe, lost>>
    BY <1>2 DEF RequestSave, ghosts
  <2> QED
    BY <1>0, <2>1 DEF DiskTypes
<1>3. ASSUME NEW a \in asked, Reply(a) \/ ReplyExists(a) \/ CloseRequest(a) PROVE OnTheWay(u)'
  BY <1>0, <1>3 DEF Reply, ReplyExists, CloseRequest, disk, threads, ghosts, DiskTypes
<1>4. CASE RequestSend
  <2>1. PICK x \in saving : /\ pipe' = Append(pipe, x[2]) /\ x[2] \in Uuids
                            /\ UNCHANGED <<req, rep, queue, lost>>
    BY <1>4 DEF RequestSend, disk, ghosts, ThreadTypes
  <2>2. \A y \in saving : y = x
    BY DEF ThreadTypes
  <2>3. /\ \E k \in DOMAIN pipe' : pipe'[k] = x[2]
        /\ \A k \in DOMAIN pipe : k \in DOMAIN pipe' /\ pipe'[k] = pipe[k]
    BY <2>1, AppendElements DEF ThreadTypes
  <2> QED
    BY <1>0, <2>1, <2>2, <2>3
<1>5. CASE CloseReply
  <2>1. PICK a \in closing : /\ rep' = [rep EXCEPT ![a.uuid] = "none"] /\ ~req[a.uuid]
                             /\ UNCHANGED <<req, queue, pipe, saving, lost>>
    BY <1>5 DEF CloseReply, ClosersOK
  <2> QED
    BY <1>0, <2>1 DEF DiskTypes
<1>6. CASE MainRecv
  <2> PICK e : e = [uuid |-> Head(pipe), mark |-> "-"]
    OBVIOUS
  <2>1. /\ pipe # <<>> /\ queue' = Append(queue, e) /\ pipe' = Tail(pipe)
        /\ UNCHANGED <<req, rep, saving, lost>>
    BY <1>6 DEF MainRecv, ghosts
  <2>2. e \in Entries /\ e = [uuid |-> pipe[1], mark |-> "-"]
    BY <2>1, TailElements DEF ThreadTypes, Entries
  <2>3. /\ \A k \in DOMAIN queue : k \in DOMAIN queue' /\ queue'[k] = queue[k]
        /\ \E k \in DOMAIN queue' : queue'[k] = e
    BY <2>1, <2>2, AppendElements DEF DiskTypes
  <2>4. \A k \in DOMAIN pipe : k = 1 \/ \E j \in DOMAIN pipe' : pipe'[j] = pipe[k]
    BY ZenonT(60), <2>1, TailElements DEF ThreadTypes
  <2> QED
    BY <1>0, <2>1, <2>2, <2>3, <2>4
<1>7. CASE Looks \/ CallReplies \/ CallFails \/ OpenReply \/ SaveReply
  <2>1. /\ UNCHANGED Outside /\ UNCHANGED queue
        /\ OpenReply \/ SaveReply \/ UNCHANGED rep
    BY <1>7, MainFrame DEF Looks, Mark, MainTimer, ScanEnds, ScanSkips, ScanLoads, CallReplies,
       CallFails, OpenReply, SaveReply, disk
  <2>2. CASE (OpenReply \/ SaveReply) /\ u = Entry.uuid
    <3>1. main.pos \in DOMAIN queue /\ Entry \in Entries /\ Entry.mark = "-"
      BY <2>2, EntryType DEF OpenReply, SaveReply, MainOK, At, Busy
    <3>2. queue[main.pos] = [uuid |-> u, mark |-> "-"]
      BY <2>2, <3>1 DEF Entry, Entries
    <3> QED
      BY <2>1, <3>1, <3>2
  <2>3. CASE ~((OpenReply \/ SaveReply) /\ u = Entry.uuid)
    <3>1. rep'[u] = rep[u]
      BY <2>1, <2>3, EntryOnly
    <3> QED
      BY <1>0, <2>1, <3>1 DEF Outside
  <2> QED
    BY <2>2, <2>3
<1>8. CASE Mark
  <2>1. UNCHANGED Outside /\ UNCHANGED rep
    BY <1>8 DEF Mark, Outside, ghosts
  <2>2. u # queue[main.pos].uuid
    BY <1>8, <2>1 DEF Mark, MainOK, Outside, Entry
  <2> QED
    BY <1>0, <1>8, <2>1, <2>2, Marked DEF Outside
<1>9. CASE StartAgain
  <2>1. /\ UNCHANGED <<req, rep, queue>> /\ lost \subseteq lost'
        /\ (\A k \in DOMAIN pipe : pipe[k] # u) /\ (\A x \in saving : x[2] # u)
    BY <1>9 DEF StartAgain, disk
  <2> QED
    BY <1>0, <2>1
<1>10. CASE ReplyLoads \/ RunLate \/ UNCHANGED vars
  BY <1>0, <1>10 DEF ReplyLoads, RunLate, vars, disk, threads, ghosts
<1> QED
  BY <1>1, <1>2, <1>3, <1>4, <1>5, <1>6, <1>7, <1>8, <1>9, <1>10
     DEF Next, Services, Scan, Looks, Crash, ReplyAsserts

LEMMA KnownStep ==
  ASSUME TitanicAssumption, Types, NeverUnknown, [Next]_vars
  PROVE  NeverUnknown'
<1> USE DEF Types
<1>1. ASSUME NEW c \in Clients, Client(c) \/ ClientSend(c) \/ ClientAbandon(c)
      PROVE  NeverUnknown'
  <2>1. ClientMove(c)
    BY <1>1, ClientSendMoves, ClientGotMoves
  <2>2. PICK r \in Records : /\ client' = [client EXCEPT ![c] = r]
                             /\ Later(client[c], r) \/ r.phase = "reply"
    BY <2>1 DEF ClientMove
  <2>3. r.phase # "fatal"
    BY <2>2 DEF NeverUnknown, Later
  <2> QED
    BY <2>2, <2>3 DEF NeverUnknown, ClientTypes
<1>2. ASSUME NEW a \in asked, RequestSave(a) \/ Reply(a) \/ ReplyExists(a) \/ CloseRequest(a)
      PROVE  UNCHANGED client
  BY <1>2 DEF RequestSave, Reply, ReplyExists, CloseRequest, Take
<1>3. RequestSend \/ ReplyLoads \/ CloseReply \/ MainRecv \/ RunLate \/ StartAgain \/ UNCHANGED vars
        => UNCHANGED client
  BY DEF RequestSend, ReplyLoads, CloseReply, MainRecv, RunLate, StartAgain, vars
<1>4. Looks \/ CallReplies \/ CallFails \/ OpenReply \/ SaveReply \/ Mark => UNCHANGED client
  BY MainFrame DEF Outside
<1>5. UNCHANGED client => NeverUnknown'
  BY DEF NeverUnknown
<1> QED
  BY <1>1, <1>2, <1>3, <1>4, <1>5
     DEF Next, Services, Scan, Looks, Crash, ReplyAsserts

LEMMA RunsStep ==
  ASSUME TitanicAssumption, Types, DrawnOK, OncePerUuid, MainOK, RunsOK, [Next]_vars
  PROVE  RunsOK'
<1> SUFFICES ASSUME NEW u \in Uuids PROVE Paid(u)'
  BY DEF RunsOK
<1> USE DEF Types
<1>0. /\ ran[u] \in Nat /\ late[u] \in Nat /\ faults \in Nat
      /\ ran'[u] \in Nat /\ late'[u] \in Nat /\ faults' \in Nat
  BY GhostStep DEF GhostTypes
<1>1. ran[u] + late[u] <= faults + 1 /\ (Untried(u) => ran[u] + late[u] <= faults)
  BY DEF RunsOK, Paid
<1>2. ASSUME faults' = faults, ran'[u] + late'[u] = ran[u] + late[u],
             Untried(u)' => Untried(u) \/ ran[u] + late[u] = 0
      PROVE  Paid(u)'
  BY <1>0, <1>1, <1>2 DEF Paid
<1>3. ASSUME NEW c \in Clients, Client(c) \/ ClientSend(c) \/ ClientAbandon(c) PROVE Paid(u)'
  <2>1. UNCHANGED <<disk, threads, ghosts, faults>>
    BY <1>3, ClientSendMoves, ClientGotMoves DEF ClientMove
  <2> QED
    BY <1>2, <2>1 DEF Untried, disk, threads, ghosts
<1>4. ASSUME NEW a \in asked, RequestSave(a) PROVE Paid(u)'
  <2>1. /\ Fresh(used + 1) /\ saving' = {<<a, used + 1>>}
        /\ UNCHANGED <<queue, pipe, main, ran, late, faults>>
    BY <1>4 DEF RequestSave, Take, ghosts, DrawnOK, DiskTypes, Uuids, TitanicAssumption
  <2> QED
    BY <1>2, <2>1 DEF Untried, Fresh
<1>5. ASSUME NEW a \in asked, Reply(a) \/ ReplyExists(a) \/ CloseRequest(a) PROVE Paid(u)'
  BY <1>2, <1>5 DEF Reply, ReplyExists, CloseRequest, Take, disk, threads, ghosts, Untried
<1>6. CASE RequestSend
  <2>1. PICK x \in saving : /\ pipe' = Append(pipe, x[2]) /\ x[2] \in Uuids /\ saving' = {}
                            /\ UNCHANGED <<queue, main, ran, late, faults>>
    BY <1>6 DEF RequestSend, disk, ghosts, ThreadTypes
  <2>2. \A k \in DOMAIN pipe' : pipe'[k] = x[2] \/ \E j \in DOMAIN pipe : pipe[j] = pipe'[k]
    BY <2>1, AppendElements DEF ThreadTypes
  <2>3. Untried(u)' => Untried(u)
    BY <2>1, <2>2 DEF Untried
  <2> QED
    BY <1>2, <2>1, <2>3
<1>7. CASE CloseReply \/ ReplyLoads
  BY <1>2, <1>7 DEF CloseReply, ReplyLoads, disk, ghosts, Untried
<1>8. CASE MainRecv
  <2> PICK e : e = [uuid |-> Head(pipe), mark |-> "-"]
    OBVIOUS
  <2>1. /\ pipe # <<>> /\ queue' = Append(queue, e) /\ pipe' = Tail(pipe) /\ main.at = "poll"
        /\ UNCHANGED <<saving, ran, late, faults>>
    BY <1>8 DEF MainRecv, ghosts, At
  <2>2. e \in Entries /\ e.uuid = pipe[1] /\ 1 \in DOMAIN pipe
    BY <2>1, TailElements DEF ThreadTypes, Entries
  <2>3. \A k \in DOMAIN queue' : queue'[k] = e \/ (k \in DOMAIN queue /\ queue'[k] = queue[k])
    BY <2>1, <2>2, AppendElements DEF DiskTypes
  <2>4. \A k \in DOMAIN pipe' : \E j \in DOMAIN pipe : pipe'[k] = pipe[j]
    BY <2>1, TailElements DEF ThreadTypes
  <2>5. Untried(u)' => Untried(u)
    BY <2>1, <2>2, <2>3, <2>4 DEF Untried
  <2> QED
    BY <1>2, <2>1, <2>5
<1>9. CASE Looks \/ OpenReply \/ SaveReply
  <2>1. UNCHANGED <<pipe, saving, queue, ran, late, faults>>
    BY <1>9 DEF Looks, MainTimer, ScanEnds, ScanSkips, ScanLoads, OpenReply, SaveReply, disk, ghosts
  <2>2. \/ main.at \in {"poll", "scan"}
        \/ main.pos = main'.pos /\ main.at \in {"open", "save"} /\ main'.at \in {"save", "mark"}
    BY <1>9 DEF Looks, MainTimer, ScanEnds, ScanSkips, ScanLoads, OpenReply, SaveReply, At,
       MainTypes
  <2>3. Untried(u)' => Untried(u)
    BY <2>1, <2>2 DEF Untried
  <2> QED
    BY <1>2, <2>1, <2>3
<1>10. CASE CallReplies
  <2> PICK e : e = Entry.uuid
    OBVIOUS
  <2>1. /\ UNCHANGED <<pipe, saving, queue, late, faults>> /\ main.at = "call" /\ e \in Uuids
        /\ main'.pos = main.pos /\ main'.at = "open" /\ ran' = [ran EXCEPT ![e] = @ + 1]
        /\ main.pos \in DOMAIN queue /\ Entry \in Entries /\ Entry.mark = "-"
    BY <1>10, EntryType DEF CallReplies, disk, At, MainTypes, MainOK, Busy
  <2>2. CASE u = e
    <3>1. queue[main.pos] = [uuid |-> u, mark |-> "-"]
      BY <2>1, <2>2 DEF Entry, Entries
    <3>2. Untried(u)
      BY <2>1, <3>1 DEF Untried
    <3>3. ran'[u] = ran[u] + 1 /\ ran[u] + late[u] <= faults
      BY <1>1, <2>1, <2>2, <3>2 DEF GhostTypes
    <3>4. ~Untried(u)'
      BY <2>1, <3>1 DEF Untried, OncePerUuid
    <3> QED
      BY <1>0, <2>1, <3>3, <3>4 DEF Paid
  <2>3. CASE u # e
    <3>1. ran'[u] = ran[u]
      BY <2>1, <2>3 DEF GhostTypes
    <3>2. Untried(u)' => Untried(u)
      BY <2>1 DEF Untried
    <3> QED
      BY <1>2, <2>1, <3>1, <3>2
  <2> QED
    BY <2>2, <2>3
<1>11. CASE Mark
  <2>1. UNCHANGED <<pipe, saving, ran, late, faults>> /\ main.at = "mark"
    BY <1>11 DEF Mark, ghosts, At
  <2>2. Untried(u)' => Untried(u)
    BY <1>11, <2>1, Marked DEF Untried
  <2> QED
    BY <1>2, <2>1, <2>2
<1>12. CASE CallFails
  <2>1. /\ UNCHANGED <<pipe, saving, queue, ran>> /\ main.at = "call" /\ faults' = faults + 1
    BY <1>12 DEF CallFails, Fault, disk, At
  <2>2. late'[u] <= late[u] + 1
    <3>1. Entry.uuid \in Uuids
      BY <2>1, EntryType DEF Busy
    <3> QED
      BY <1>0, <1>12, <3>1, LateType DEF CallFails
  <2>3. Untried(u)' => Untried(u)
    BY <2>1 DEF Untried
  <2> QED
    BY <1>0, <1>1, <2>1, <2>2, <2>3 DEF Paid
<1>13. CASE Crash \/ ReplyAsserts
  <2>1. StartAgain /\ UNCHANGED ran /\ faults' = faults + 1
    BY <1>13 DEF Crash, ReplyAsserts, StartAgain, Fault
  <2>2. CASE late'[u] = late[u]
    BY <1>0, <1>1, <2>1, <2>2 DEF Paid
  <2>3. CASE late'[u] # late[u]
    <3>1. At("call") /\ u = Entry.uuid /\ late'[u] <= late[u] + 1
      BY <2>1, <2>3, EndsLate
    <3>2. main.pos \in DOMAIN queue /\ Entry \in Entries /\ Entry.mark = "-"
      BY <3>1, EntryType DEF MainOK, At, Busy
    <3>3. queue[main.pos] = [uuid |-> u, mark |-> "-"]
      BY <3>1, <3>2 DEF Entry, Entries
    <3>4. Untried(u)
      BY <3>1, <3>2, <3>3 DEF Untried, At
    <3> QED
      BY <1>0, <1>1, <2>1, <3>1, <3>4 DEF Paid
  <2> QED
    BY <2>2, <2>3
<1>14. CASE RunLate
  <2>1. PICK v \in Uuids : /\ late[v] > 0 /\ late' = [late EXCEPT ![v] = @ - 1]
                           /\ ran' = [ran EXCEPT ![v] = @ + 1]
                           /\ UNCHANGED <<disk, threads, faults>>
    BY <1>14 DEF RunLate
  <2>2. ran'[u] + late'[u] = ran[u] + late[u]
    <3>1. CASE v = u
      BY <1>0, <2>1, <3>1 DEF GhostTypes
    <3>2. CASE v # u
      BY <2>1, <3>2 DEF GhostTypes
    <3> QED
      BY <3>1, <3>2
  <2> QED
    BY <1>2, <2>1, <2>2 DEF Untried, disk, threads
<1>15. CASE UNCHANGED vars
  BY <1>2, <1>15 DEF vars, disk, threads, ghosts, Untried
<1> QED
  BY <1>3, <1>4, <1>5, <1>6, <1>7, <1>8, <1>9, <1>10, <1>11, <1>12, <1>13, <1>14, <1>15
     DEF Next, Services, Scan, Looks

-----------------------------------------------------------------------------
(* The theorems                                                            *)

LEMMA DiskInitially == TitanicAssumption /\ Init => DiskInv
<1> SUFFICES ASSUME TitanicAssumption, Init PROVE DiskInv
  OBVIOUS
<1> USE DEF Init, Idle
<1>1. Types
  <2>1. [phase |-> "request", uuid |-> 0, try |-> 0] \in Records
    BY DEF Records, Phases, TitanicAssumption
  <2>2. DiskTypes /\ GhostTypes /\ MainTypes /\ ThreadTypes /\ MessageTypes
    BY DEF DiskTypes, GhostTypes, MainTypes, ThreadTypes, MessageTypes, Busy, At,
       TitanicAssumption
  <2>3. ClientTypes
    BY <2>1 DEF ClientTypes
  <2> QED
    BY <2>2, <2>3 DEF Types
<1>2. DrawnOK
  BY DEF DrawnOK, Fresh, Uuids
<1>3. OwnersOK /\ ClosersOK /\ OncePerUuid /\ MainOK
  BY DEF OwnersOK, ClosersOK, OncePerUuid, MainOK, Busy, At
<1>4. NothingForgotten /\ NeverUnknown /\ RunsOK
  BY DEF NothingForgotten, NeverUnknown, RunsOK, Paid, Untried
<1> QED
  BY <1>1, <1>2, <1>3, <1>4 DEF DiskInv

LEMMA DiskStays == TitanicAssumption /\ DiskInv /\ [Next]_vars => DiskInv'
BY TypesStep, DrawnStep, OwnersStep, ClosersStep, OnceStep, MainKnows, ForgottenStep, KnownStep,
   RunsStep DEF DiskInv

LEMMA TypesImply == TitanicAssumption /\ Types => TypeOK
BY DEF TypeOK, Types, DiskTypes, GhostTypes, MainTypes, ClientTypes, Entries, Records, Busy

LEMMA DiskInvariant == Spec => []DiskInv
<1>1. Init => DiskInv
  BY DiskInitially, TitanicAssumption
<1>2. DiskInv /\ [Next]_vars => DiskInv'
  BY DiskStays, TitanicAssumption
<1> QED
  BY <1>1, <1>2, PTL DEF Spec

\* Whatever the order of the clients, of the three services and of the main thread, and
\* wherever a crash falls: a stored request is on its way to the queue, or in it, until
\* its reply is stored, and no client that was given a uuid is told 400.
THEOREM DiskKeepsWhatWasTold == Spec => []DiskConsistent
<1>1. DiskInv => DiskConsistent
  BY TypesImply, TitanicAssumption DEF DiskInv, DiskConsistent
<1> QED
  BY <1>1, DiskInvariant, PTL

\* However often the scan of the queue comes by, and whatever is still out with the
\* broker: a request is run once, and once more at most for every crash, every failed
\* call and every failed assertion.
THEOREM FaultsPayForRuns == Spec => []RunAgainByFault
<1>1. DiskInv => RunAgainByFault
  BY DEF DiskInv, Types, GhostTypes, RunsOK, Paid, RunAgainByFault
<1> QED
  BY <1>1, DiskInvariant, PTL

\* The main thread does not take up a request that was closed while it had it not in
\* hand: what still runs of it was called before, and no reply of it comes back.
THEOREM ClosedRequestsStayClosed == Spec => ClosedStaysClosed
<1>1. DiskInv /\ [Next]_vars =>
         [\A u \in closed : /\ ~InHand(u)'
                            /\ ran'[u] + late'[u] = ran[u] + late[u]
                            /\ rep'[u] \in {rep[u], "none"}]_vars
  <2> DEFINE Stays(u) == /\ ~InHand(u)'
                         /\ ran'[u] + late'[u] = ran[u] + late[u]
                         /\ rep'[u] \in {rep[u], "none"}
  <2> SUFFICES ASSUME DiskInv, Next, NEW u \in closed
               PROVE  Stays(u)
    OBVIOUS
  <2> USE DEF Types, DiskInv
  <2>0. /\ u \in Uuids /\ ~req[u] /\ ~InHand(u)
        /\ ran[u] \in Nat /\ late[u] \in Nat
    BY DEF ClosersOK, GhostTypes
  <2>1. ~InHand(u)'
    <3>1. ClosersOK' /\ u \in closed'
      <4>1. closed \subseteq closed'
        BY ClosedGrows, TitanicAssumption
      <4> QED
        BY <4>1, ClosersStep, TitanicAssumption
    <3> QED
      BY <3>1 DEF ClosersOK
  <2>2. ASSUME UNCHANGED <<ran, late>>, rep'[u] \in {rep[u], "none"} PROVE Stays(u)
    BY <2>1, <2>2
  <2>3. ASSUME NEW c \in Clients, Client(c) \/ ClientSend(c) \/ ClientAbandon(c)
        PROVE  Stays(u)
    BY <2>2, <2>3, ClientSendMoves, ClientGotMoves, TitanicAssumption DEF ClientMove, disk, ghosts
  <2>4. ASSUME NEW a \in asked,
               RequestSave(a) \/ Reply(a) \/ ReplyExists(a) \/ CloseRequest(a)
        PROVE  Stays(u)
    BY <2>2, <2>4 DEF RequestSave, Reply, ReplyExists, CloseRequest, disk, ghosts
  <2>5. CASE RequestSend \/ ReplyLoads \/ MainRecv
    BY <2>2, <2>5 DEF RequestSend, ReplyLoads, MainRecv, disk, ghosts
  <2>6. CASE CloseReply
    <3>1. PICK a \in closing : /\ rep' = [rep EXCEPT ![a.uuid] = "none"]
                               /\ UNCHANGED <<ran, late>>
      BY <2>6 DEF CloseReply
    <3> QED
      BY <2>0, <2>2, <3>1 DEF DiskTypes
  <2>7. CASE Looks \/ CallReplies \/ CallFails \/ OpenReply \/ SaveReply \/ Mark
    <3>1. CallReplies \/ CallFails \/ OpenReply \/ SaveReply => u # Entry.uuid
      BY <2>0 DEF CallReplies, CallFails, OpenReply, SaveReply, At, InHand
    <3>2. ran'[u] = ran[u] /\ late'[u] = late[u] /\ rep'[u] = rep[u]
      BY <2>0, <2>7, <3>1, MainFrame, EntryOnly
    <3> QED
      BY <2>1, <3>2
  <2>8. CASE Crash \/ ReplyAsserts
    <3>1. StartAgain /\ UNCHANGED <<ran, rep>>
      BY <2>8 DEF Crash, ReplyAsserts, StartAgain, disk
    <3>2. late'[u] = late[u]
      BY <2>0, <3>1, EndsLate DEF InHand, At
    <3> QED
      BY <2>1, <3>1, <3>2
  <2>9. CASE RunLate
    <3>1. PICK v \in Uuids : /\ late[v] > 0 /\ late' = [late EXCEPT ![v] = @ - 1]
                             /\ ran' = [ran EXCEPT ![v] = @ + 1] /\ UNCHANGED rep
      BY <2>9 DEF RunLate, disk
    <3>2. ran'[u] + late'[u] = ran[u] + late[u]
      <4>1. CASE v = u
        BY <2>0, <3>1, <4>1 DEF GhostTypes
      <4>2. CASE v # u
        BY <2>0, <3>1, <4>2 DEF GhostTypes
      <4> QED
        BY <4>1, <4>2
    <3> QED
      BY <2>1, <3>1, <3>2
  <2> QED
    BY <2>3, <2>4, <2>5, <2>6, <2>7, <2>8, <2>9 DEF Next, Services, Scan, Looks
<1> QED
  BY <1>1, DiskInvariant, PTL DEF Spec, ClosedStaysClosed
=============================================================================
