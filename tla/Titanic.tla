------------------------------ MODULE Titanic -------------------------------
(***************************************************************************)
(* The Titanic service (src/zmq/C/titanic.c) and its client (ticlient.c):  *)
(* requests are stored on disk, called from there, and their replies are   *)
(* stored until the client has fetched them.  Three threads serve          *)
(* titanic.request, titanic.reply and titanic.close; the main thread       *)
(* dispatches.                                                             *)
(*                                                                         *)
(* The calls go through Majordomo and are taken as RequestReply promises:  *)
(* an attempt is served at most once, at any time after it was made, and   *)
(* its answer is lost when the client has given up on it.                  *)
(***************************************************************************)
EXTENDS Naturals, Sequences

CONSTANTS
  Clients,
  Retries,     \* attempts of mdcli_send
  MaxUuids,    \* bound: requests that are stored
  MaxFaults    \* bound: kills of Titanic and failed calls of it

ASSUME TitanicAssumption ==
  Retries \in Nat \ {0} /\ MaxUuids \in Nat \ {0} /\ MaxFaults \in Nat

Uuids == 1 .. MaxUuids

VARIABLES
  req,      \* [Uuids -> BOOLEAN], the request file exists
  rep,      \* [Uuids -> {"none", "empty", "full"}], the reply file
  queue,    \* Seq([uuid : Uuids, mark : {"-", "+"}]), the file "queue"
  used,     \* Nat, uuids drawn
  pipe,     \* Seq(Uuids), from the request thread to the main thread
  saving,   \* the request thread: what it has saved and not yet sent on
  reading,  \* the reply thread: the attempt whose reply file it has seen
  closing,  \* the close thread: the request file it has just deleted
  main,     \* the main thread: [at |-> step, pos |-> entry of the queue]
  asked,    \* requests of clients on their way to the three services
  answers,  \* and the answers <<attempt, code, uuid>>; "empty" is a 200 without frames
  client,   \* [Clients -> [phase, uuid, try]]
  ran,      \* [Uuids -> Nat], how often a worker has run the request
  late,     \* [Uuids -> Nat], calls given up that a worker may still run
  closed,   \* SUBSET Uuids, requests closed while the main thread had not loaded them
  lost,     \* SUBSET Uuids, requests that a crash left out of the queue
  faults    \* kills, failed calls and failed assertions

disk == <<req, rep, queue, used>>
threads == <<pipe, saving, reading, closing, main>>
ghosts == <<ran, late, closed, lost>>
vars == <<disk, threads, asked, answers, client, ghosts, faults>>

Entry == queue[main.pos]

\* The main thread has loaded request u and will store its reply.
InHand(u) == main.at \in {"call", "open", "save"} /\ Entry.uuid = u

Idle == [at |-> "poll", pos |-> 0]

Init ==
  /\ req = [u \in Uuids |-> FALSE]
  /\ rep = [u \in Uuids |-> "none"]
  /\ queue = <<>> /\ used = 0
  /\ pipe = <<>> /\ saving = {} /\ reading = {} /\ closing = {} /\ main = Idle
  /\ asked = {} /\ answers = {}
  /\ client = [c \in Clients |-> [phase |-> "request", uuid |-> 0, try |-> 0]]
  /\ ran = [u \in Uuids |-> 0] /\ late = [u \in Uuids |-> 0]
  /\ closed = {} /\ lost = {}
  /\ faults = 0

Fault == faults < MaxFaults /\ faults' = faults + 1

-----------------------------------------------------------------------------
(* The client: mdcli_send and the main task of ticlient.c                  *)

\* An attempt of client c: only the answer to the last one reaches it.
Attempt(c) == [client |-> c, op |-> client[c].phase, uuid |-> client[c].uuid,
               try |-> client[c].try]

ClientSend(c) ==
  /\ client[c].phase \in {"request", "reply", "close"} /\ client[c].try < Retries
  /\ client' = [client EXCEPT ![c].try = @ + 1]
  /\ asked' = asked \cup {[Attempt(c) EXCEPT !.try = @ + 1]}
  /\ answers' = {x \in answers : x[1].client # c}
  /\ UNCHANGED <<disk, threads, ghosts, faults>>

ClientAbandon(c) ==
  /\ client[c].phase \in {"request", "reply", "close"} /\ client[c].try = Retries
  /\ client' = [client EXCEPT ![c].phase = "failed", ![c].try = 0]
  /\ UNCHANGED <<disk, threads, asked, answers, ghosts, faults>>

Got(c, code, u) ==
  /\ <<Attempt(c), code, u>> \in answers
  /\ answers' = {x \in answers : x[1].client # c}
  /\ UNCHANGED <<disk, threads, asked, ghosts, faults>>

ClientStored(c) ==
  \E u \in Uuids :
    /\ client[c].phase = "request" /\ Got(c, "200", u)
    /\ client' = [client EXCEPT ![c] = [phase |-> "reply", uuid |-> u, try |-> 0]]

\* A reply that was loaded from an empty file has no frame to print.
ClientReplied(c) ==
  /\ client[c].phase = "reply"
  /\ \/ /\ Got(c, "200", 0)
        /\ client' = [client EXCEPT ![c].phase = "close", ![c].try = 0]
     \/ /\ Got(c, "empty", 0)
        /\ client' = [client EXCEPT ![c].phase = "aborted", ![c].try = 0]

\* "300" is asked again; "400" makes the client exit.
ClientRefused(c) ==
  /\ client[c].phase = "reply"
  /\ \E code \in {"300", "400"} :
       /\ Got(c, code, 0)
       /\ client' = [client EXCEPT ![c].phase = IF code = "300" THEN @ ELSE "fatal",
                                  ![c].try = 0]

ClientClosed(c) ==
  /\ client[c].phase = "close" /\ Got(c, "200", 0)
  /\ client' = [client EXCEPT ![c].phase = "done", ![c].try = 0]

-----------------------------------------------------------------------------
(* titanic.request, titanic.reply, titanic.close                           *)

\* An answer reaches a client that still waits for it.
Answer(a, code, u) ==
  answers' = IF a = Attempt(a.client) THEN answers \cup {<<a, code, u>>} ELSE answers

Take(a, op) ==
  /\ a.op = op
  /\ asked' = asked \ {a}
  /\ UNCHANGED <<client, faults>>

\* Slip: the client is answered before the request is on disk.
RequestSaveLate(a) ==
  /\ saving = {} /\ used < MaxUuids
  /\ Take(a, "request")
  /\ used' = used + 1
  /\ saving' = {<<a, used + 1>>}
  /\ Answer(a, "200", used + 1)
  /\ UNCHANGED <<req, rep, queue, pipe, reading, closing, main, ghosts>>

RequestSave(a) ==
  /\ saving = {} /\ used < MaxUuids
  /\ Take(a, "request")
  /\ used' = used + 1
  /\ req' = [req EXCEPT ![used + 1] = TRUE]
  /\ saving' = {<<a, used + 1>>}
  /\ UNCHANGED <<rep, queue, pipe, reading, closing, main, answers, ghosts>>

\* The uuid goes to the main thread and, with the next mdwrk_recv, to the client.
RequestSend ==
  \E x \in saving :
    /\ pipe' = Append(pipe, x[2])
    /\ Answer(x[1], "200", x[2])
    /\ saving' = {}
    /\ UNCHANGED <<disk, reading, closing, main, asked, client, ghosts, faults>>

\* There is no reply file: the request is pending, or unknown.
Reply(a) ==
  /\ Take(a, "reply")
  /\ reading = {} /\ rep[a.uuid] = "none"
  /\ Answer(a, IF req[a.uuid] THEN "300" ELSE "400", 0)
  /\ UNCHANGED <<disk, threads, ghosts>>

\* There is one, and it is opened in a step of its own.
ReplyExists(a) ==
  /\ Take(a, "reply")
  /\ reading = {} /\ rep[a.uuid] # "none"
  /\ reading' = {a}
  /\ UNCHANGED <<disk, pipe, saving, closing, main, answers, ghosts>>

ReplyLoads ==
  \E a \in reading :
    /\ rep[a.uuid] # "none"
    /\ reading' = {}
    /\ Answer(a, IF rep[a.uuid] = "full" THEN "200" ELSE "empty", 0)
    /\ UNCHANGED <<disk, pipe, saving, closing, main, asked, client, ghosts, faults>>

CloseRequest(a) ==
  /\ closing = {}
  /\ Take(a, "close")
  /\ req' = [req EXCEPT ![a.uuid] = FALSE]
  /\ closing' = {a}
  /\ UNCHANGED <<rep, queue, used, pipe, saving, reading, main, answers, ghosts>>

CloseReply ==
  \E a \in closing :
    /\ rep' = [rep EXCEPT ![a.uuid] = "none"]
    /\ closed' = IF InHand(a.uuid) THEN closed ELSE closed \cup {a.uuid}
    /\ closing' = {}
    /\ Answer(a, "200", 0)
    /\ UNCHANGED <<req, queue, used, pipe, saving, reading, main, asked, client, ran, late, lost,
                   faults>>

-----------------------------------------------------------------------------
(* The main thread                                                         *)

At(step) == main.at = step
NextEntry == main' = [at |-> "scan", pos |-> main.pos + 1]

MainRecv ==
  /\ At("poll") /\ pipe # <<>>
  /\ queue' = Append(queue, [uuid |-> Head(pipe), mark |-> "-"])
  /\ pipe' = Tail(pipe)
  /\ main' = [at |-> "scan", pos |-> 1]
  /\ UNCHANGED <<req, rep, used, saving, reading, closing, asked, answers, client, ghosts, faults>>

\* A second has passed.
MainTimer ==
  /\ At("poll") /\ pipe = <<>> /\ \E k \in DOMAIN queue : queue[k].mark = "-"
  /\ main' = [at |-> "scan", pos |-> 1]
  /\ UNCHANGED <<disk, pipe, saving, reading, closing, asked, answers, client, ghosts, faults>>

ScanEnds ==
  /\ At("scan") /\ main.pos > Len(queue)
  /\ main' = Idle
  /\ UNCHANGED <<disk, pipe, saving, reading, closing, asked, answers, client, ghosts, faults>>

ScanSkips ==
  /\ At("scan") /\ main.pos <= Len(queue) /\ Entry.mark = "+"
  /\ NextEntry
  /\ UNCHANGED <<disk, pipe, saving, reading, closing, asked, answers, client, ghosts, faults>>

\* Slip: the request is called whether or not its file is still there.
ScanLoadsClosed ==
  /\ At("scan") /\ main.pos <= Len(queue) /\ Entry.mark = "-"
  /\ main' = [main EXCEPT !.at = "call"]
  /\ UNCHANGED <<disk, pipe, saving, reading, closing, asked, answers, client, ghosts, faults>>

\* s_service_success loads the request; one that was closed counts as done.
ScanLoads ==
  /\ At("scan") /\ main.pos <= Len(queue) /\ Entry.mark = "-"
  /\ main' = [main EXCEPT !.at = IF req[Entry.uuid] THEN "call" ELSE "mark"]
  /\ UNCHANGED <<disk, pipe, saving, reading, closing, asked, answers, client, ghosts, faults>>

\* The service is there (mmi.service) and replies.
CallReplies ==
  /\ At("call")
  /\ ran' = [ran EXCEPT ![Entry.uuid] = @ + 1]
  /\ main' = [main EXCEPT !.at = "open"]
  /\ UNCHANGED <<disk, pipe, saving, reading, closing, asked, answers, client, late, closed,
                 lost, faults>>

\* A call is given up; the broker or a worker may hold its request.
LeaveOut(u) == \E n \in {0, 1} : late' = [late EXCEPT ![u] = @ + n]

\* Slip: a request that could not be called counts as done.
CallFailsDone ==
  /\ At("call") /\ Fault
  /\ main' = [main EXCEPT !.at = "mark"]
  /\ UNCHANGED <<disk, pipe, saving, reading, closing, asked, answers, client, ghosts>>

\* No broker, no service or no reply in time.
CallFails ==
  /\ At("call") /\ Fault
  /\ LeaveOut(Entry.uuid)
  /\ NextEntry
  /\ UNCHANGED <<disk, pipe, saving, reading, closing, asked, answers, client, ran, closed, lost>>

\* A worker runs the request of a call that was given up, before or after the request
\* is called again, answered and closed.  Nobody waits for that reply.
RunLate ==
  \E u \in Uuids :
    /\ late[u] > 0
    /\ late' = [late EXCEPT ![u] = @ - 1]
    /\ ran' = [ran EXCEPT ![u] = @ + 1]
    /\ UNCHANGED <<disk, threads, asked, answers, client, closed, lost, faults>>

\* fopen creates the reply file, or empties the one of an earlier call.
OpenReply ==
  /\ At("open")
  /\ rep' = [rep EXCEPT ![Entry.uuid] = "empty"]
  /\ main' = [main EXCEPT !.at = "save"]
  /\ UNCHANGED <<req, queue, used, pipe, saving, reading, closing, asked, answers, client, ghosts,
                 faults>>

\* A file that was deleted in between takes the reply with it.
SaveReply ==
  /\ At("save")
  /\ rep' = [rep EXCEPT ![Entry.uuid] = IF @ = "none" THEN "none" ELSE "full"]
  /\ main' = [main EXCEPT !.at = "mark"]
  /\ UNCHANGED <<req, queue, used, pipe, saving, reading, closing, asked, answers, client, ghosts,
                 faults>>

\* Slip: the mark is not written back.
MarkUnwritten ==
  /\ At("mark")
  /\ NextEntry
  /\ UNCHANGED <<disk, pipe, saving, reading, closing, asked, answers, client, ghosts, faults>>

Mark ==
  /\ At("mark")
  /\ queue' = [queue EXCEPT ![main.pos].mark = "+"]
  /\ NextEntry
  /\ UNCHANGED <<req, rep, used, pipe, saving, reading, closing, asked, answers, client, ghosts,
                 faults>>

\* Titanic ends and is started again: the disk is what is left.  What was not in the
\* queue yet is lost to the main thread.
StartAgain ==
  /\ pipe' = <<>> /\ saving' = {} /\ reading' = {} /\ closing' = {} /\ main' = Idle
  /\ lost' = lost \cup {pipe[k] : k \in DOMAIN pipe} \cup {x[2] : x \in saving}
  /\ IF At("call") THEN LeaveOut(Entry.uuid) ELSE late' = late
  /\ UNCHANGED <<disk, asked, answers, client, ran, closed>>

\* It is killed.
Crash == Fault /\ StartAgain

\* The file was deleted before it was opened: the assertion ends the whole program.
ReplyAsserts ==
  /\ \E a \in reading : rep[a.uuid] = "none"
  /\ faults' = faults + 1
  /\ StartAgain

-----------------------------------------------------------------------------

Client(c) ==
  \/ ClientStored(c) \/ ClientReplied(c) \/ ClientRefused(c) \/ ClientClosed(c)

Services ==
  \/ \E a \in asked : RequestSave(a) \/ Reply(a) \/ ReplyExists(a) \/ CloseRequest(a)
  \/ RequestSend \/ ReplyLoads \/ ReplyAsserts \/ CloseReply

Scan == ScanEnds \/ ScanSkips \/ ScanLoads \/ CallReplies \/ OpenReply \/ SaveReply \/ Mark

Next ==
  \/ \E c \in Clients : Client(c) \/ ClientSend(c) \/ ClientAbandon(c)
  \/ Services \/ MainRecv \/ MainTimer \/ Scan \/ CallFails \/ RunLate \/ Crash

Spec == Init /\ [][Next]_vars

\* The threads run on; a client waits for its answer or tries again.  A call that was
\* given up need not be run.
Fairness ==
  /\ WF_vars(RequestSend) /\ WF_vars(ReplyLoads \/ ReplyAsserts) /\ WF_vars(CloseReply)
  /\ WF_vars(MainRecv) /\ WF_vars(MainTimer)
  /\ WF_vars(Scan)
  /\ \A c \in Clients : /\ WF_vars(Client(c))
                        /\ WF_vars(ClientSend(c) \/ ClientAbandon(c))
                        /\ WF_vars(\E a \in asked : a.client = c /\ (RequestSave(a) \/ Reply(a)
                                                      \/ ReplyExists(a) \/ CloseRequest(a)))

FairSpec == Spec /\ Fairness

-----------------------------------------------------------------------------
(* Properties                                                              *)

Phases == {"request", "reply", "close", "done", "failed", "aborted", "fatal"}

\* The types of the variables; the scan stays in the queue.
TypeOK ==
  /\ req \in [Uuids -> BOOLEAN] /\ rep \in [Uuids -> {"none", "empty", "full"}]
  /\ queue \in Seq([uuid : Uuids, mark : {"-", "+"}]) /\ used \in 0 .. MaxUuids
  /\ main.at \in {"poll", "scan", "call", "open", "save", "mark"}
  /\ main.pos \in 0 .. Len(queue) + 1
  /\ client \in [Clients -> [phase : Phases, uuid : 0 .. MaxUuids, try : 0 .. Retries]]
  /\ ran \in [Uuids -> Nat] /\ late \in [Uuids -> Nat] /\ closed \cup lost \subseteq Uuids

\* A stored request is on its way to the queue, or in it and not marked, until its
\* reply is stored, through crashes at any step and failed calls.  The one gap is a
\* crash before the main thread has appended the uuid to the file.
NothingForgotten ==
  \A u \in Uuids :
    req[u] /\ rep[u] # "full" /\ u \notin lost =>
      \/ \E x \in saving : x[2] = u
      \/ \E k \in DOMAIN pipe : pipe[k] = u
      \/ \E k \in DOMAIN queue : queue[k] = [uuid |-> u, mark |-> "-"]

\* A client that was given a uuid is never told 400, which makes it exit with "fatal
\* error": the request was on disk before the uuid left, and stays until the client
\* has its reply and closes it.
NeverUnknown == \A c \in Clients : client[c].phase # "fatal"

\* What titanic.c has stored, and what it has told its clients, is on the disk at every
\* step at which a crash may come.
DiskConsistent == TypeOK /\ NothingForgotten /\ NeverUnknown

\* Every run of a request but one is paid for by a fault: the scan comes by again and
\* again, but calls it again only after a crash or after a call that failed, and the
\* call that failed may run as well.
RunAgainByFault == \A u \in Uuids : ran[u] + late[u] <= 1 + faults

\* The main thread does not take up a closed request again: what of it still runs was
\* called before the close, and no reply of it comes back.  The request that the main
\* thread had in hand when it was closed is excepted, whose reply stays on disk for
\* ever, though titanic.c:142 says the task "removes any waiting replies".
ClosedStaysClosed ==
  [][\A u \in closed : /\ ~InHand(u)'
                       /\ ran'[u] + late'[u] = ran[u] + late[u]
                       /\ rep'[u] \in {rep[u], "none"}]_vars

\* After the last crash or failed call a client gets its reply, unless a crash lost
\* its request: it does not poll for ever.
Completes ==
  \A c \in Clients :
    <>(client[c].phase \in {"done", "failed", "aborted"} \/ client[c].uuid \in lost)
=============================================================================
