------------------------------ MODULE Freelance ------------------------------
(***************************************************************************)
(* The brokerless clients of the guide (src/zmq/C) and their servers:      *)
(* flclient1.c asks one server after another over a fresh socket           *)
(* ("serial"), flclient2.c asks all of them at once and takes the first    *)
(* answer ("blast"), and flcliapi.c has an agent thread that keeps a list  *)
(* of active servers and resends the request until one answers ("agent").  *)
(* A message carries the number of its call; the PING of the agent is 0.   *)
(***************************************************************************)
EXTENDS Naturals, Sequences, FiniteSets, SequencesExt

CONSTANTS
  Order,     \* the servers, in the order they are connected or tried
  MaxCalls,  \* calls a client makes
  Room       \* bound: messages that wait at a server, or from it, in the agent's sockets

\* There is a server.
ASSUME FreelanceAssumption ==
  /\ MaxCalls \in Nat \ {0} /\ Room \in Nat \ {0}
  /\ Order \in Seq(ToSet(Order)) /\ Order # <<>>

Servers == ToSet(Order)
Tries == Len(Order)
Failed == 0

\* flclient1.c tries a server again only when it is its only one: Order is <<s, s, s>> then
\* (MAX_RETRIES).  The other clients connect no server twice.
Kinds == IF \A i, j \in 1 .. Tries : Order[i] = Order[j] => i = j
         THEN {"serial", "blast", "agent"} ELSE {"serial"}

VARIABLES
  kind,
  up,       \* the servers that run
  net,      \* [Servers -> Seq([call, try])], requests that wait at a server
  back,     \* [Servers -> Seq([call, try])], its answers
  \* the client (in kind agent the application)
  call, try, results,
  served,   \* history: how often an attempt was served
  \* the two pipes between application and agent
  pipe,     \* Seq, the calls of the REQUEST commands
  answers,  \* Seq, the agent's OK with its call, or Failed
  \* the agent thread
  agent,    \* its actives, alive, request and sequence
  silent,   \* servers whose expires has passed
  overdue,  \* the expires of the request has passed
  aborted,  \* the assertion of a strict cycle failed and the process ended
  strays    \* history: OKs sent when no request was pending

netVars == <<up, net, back, served>>
callVars == <<call, try, results>>
agentVars == <<pipe, answers, agent, silent, overdue, aborted, strays>>
vars == <<kind, netVars, callVars, agentVars>>

Attempts == [client : {"c"}, call : 1 .. MaxCalls, try : 1 .. Tries]

Init ==
  /\ kind \in Kinds
  /\ up = Servers
  /\ net = [s \in Servers |-> <<>>] /\ back = [s \in Servers |-> <<>>]
  /\ call = 1 /\ try = 0 /\ results = <<>>
  /\ served = [a \in Attempts |-> 0]
  /\ pipe = <<>> /\ answers = <<>>
  /\ agent = [actives |-> IF kind = "agent" THEN Order ELSE <<>>, alive |-> {},
              request |-> 0, sequence |-> 0]
  /\ silent = {} /\ overdue = FALSE /\ aborted = FALSE /\ strays = 0

-----------------------------------------------------------------------------
(* The servers: flserver1.c, flserver2.c and flserver3.c answer what comes *)

Post(queues, s, m) ==
  IF Len(queues[s]) < Room THEN [queues EXCEPT ![s] = Append(@, m)] ELSE queues

\* An answer to a socket that was closed is dropped.
Hears(m) == kind # "serial" \/ (m.call = call /\ m.try = try)

\* Slip: the server keeps what it has answered.
ServerKeeping(s) ==
  /\ s \in up /\ net[s] # <<>>
  /\ LET m == Head(net[s]) IN
     /\ back' = IF Hears(m) THEN Post(back, s, m) ELSE back
     /\ served' = [a \in Attempts |->
                     IF a.call = m.call /\ a.try = m.try THEN served[a] + 1 ELSE served[a]]
  /\ UNCHANGED <<kind, up, net, callVars, agentVars>>

Server(s) ==
  /\ s \in up /\ net[s] # <<>>
  /\ LET m == Head(net[s]) IN
     /\ back' = IF Hears(m) THEN Post(back, s, m) ELSE back
     /\ served' = [a \in Attempts |->
                     IF a.call = m.call /\ a.try = m.try THEN served[a] + 1 ELSE served[a]]
  /\ net' = [net EXCEPT ![s] = Tail(@)]
  /\ UNCHANGED <<kind, up, callVars, agentVars>>

Kill(s) ==
  /\ s \in up
  /\ up' = up \ {s}
  /\ net' = [net EXCEPT ![s] = <<>>]
  /\ UNCHANGED <<kind, back, served, callVars, agentVars>>

StartAgain(s) ==
  /\ s \notin up
  /\ up' = up \cup {s}
  /\ UNCHANGED <<kind, net, back, served, callVars, agentVars>>

-----------------------------------------------------------------------------
(* flclient1.c and flclient2.c                                             *)

\* Whether the client sends next: the serial one after a timeout, the other goes through
\* all its servers before it waits.
Sends == IF kind = "serial" THEN try = 0 ELSE try < Tries

Request ==
  /\ kind # "agent" /\ call <= (IF kind = "serial" THEN 1 ELSE MaxCalls)
  /\ Sends
  /\ try' = try + 1
  /\ net' = [net EXCEPT ![Order[try + 1]] = Append(@, [call |-> call, try |-> try + 1])]
  /\ UNCHANGED <<kind, up, back, served, call, results, agentVars>>

Return(r) ==
  /\ results' = Append(results, r)
  /\ try' = 0

\* An answer to an earlier call is dropped.
Answer(s) ==
  /\ kind # "agent" /\ try # 0 /\ (kind = "serial" \/ try = Tries)
  /\ back[s] # <<>>
  /\ back' = [back EXCEPT ![s] = Tail(@)]
  /\ IF Head(back[s]).call = call
     THEN Return(Head(back[s]).call) /\ call' = call + 1
     ELSE UNCHANGED callVars
  /\ UNCHANGED <<kind, up, net, served, agentVars>>

\* The serial client closes its socket and tries the next server, or its only one again;
\* what a running server has got by then it serves.  After the last try, and after the
\* global timeout of the other, the client gives up and ends.
Timeout ==
  LET dead == IF kind = "serial" /\ Order[try] \notin up THEN {Order[try]} ELSE {}
      unsent == [net EXCEPT ![Order[try]] = IF dead # {} THEN <<>> ELSE @]
  IN /\ kind # "agent" /\ try # 0 /\ (kind = "serial" \/ try = Tries)
     /\ IF try < Tries
        THEN LET s == Order[try + 1] IN
             /\ try' = try + 1
             /\ net' = [unsent EXCEPT ![s] = Append(@, [call |-> call, try |-> try + 1])]
             /\ UNCHANGED <<results, call>>
        ELSE Return(Failed) /\ call' = MaxCalls + 1 /\ net' = unsent
     /\ back' = IF kind = "serial" THEN [s \in Servers |-> <<>>] ELSE back
     /\ UNCHANGED <<kind, up, served, agentVars>>

-----------------------------------------------------------------------------
(* The application of the agent: flcliapi_request                          *)

AppRequest ==
  /\ kind = "agent" /\ ~aborted /\ try = 0 /\ call <= MaxCalls
  /\ pipe' = Append(pipe, call)
  /\ try' = 1
  /\ UNCHANGED <<kind, netVars, call, results, answers, agent, silent, overdue, aborted,
                 strays>>

\* The application takes the next answer there is; it ends with the first failure.
AppReceive ==
  /\ ~aborted /\ try # 0 /\ answers # <<>>
  /\ Return(Head(answers))
  /\ call' = IF Head(answers) = Failed THEN MaxCalls + 1 ELSE call + 1
  /\ answers' = Tail(answers)
  /\ UNCHANGED <<kind, netVars, pipe, agent, silent, overdue, aborted, strays>>

-----------------------------------------------------------------------------
(* The agent.  It reads all it will read in one turn of its loop before it *)
(* sends anything, so a turn is one step.                                  *)

\* agent_control_message
Taken(a) == IF pipe = <<>> THEN a
            ELSE [a EXCEPT !.request = Head(pipe), !.sequence = Head(pipe)]

\* Slip: the request that was answered stays.
HeardFromKeeping(a, s, n) ==
  [a EXCEPT !.actives = IF s \in a.alive THEN @ ELSE Append(@, s),
            !.alive = @ \cup {s}]

\* agent_router_message.  The servers that were connected are on the list but not alive,
\* so the first sign of life puts each on it a second time.
HeardFrom(a, s, n) ==
  [a EXCEPT !.actives = IF s \in a.alive THEN @ ELSE Append(@, s),
            !.alive = @ \cup {s},
            !.request = IF n = a.sequence THEN 0 ELSE @]

\* The expired servers at the head of the list are taken off it.
Trimmed(a, late) ==
  LET n == CHOOSE i \in 0 .. Len(a.actives) :
             /\ \A j \in 1 .. i : a.actives[j] \in late
             /\ i < Len(a.actives) => a.actives[i + 1] \notin late
  IN [a EXCEPT !.actives = SubSeq(@, n + 1, Len(@)),
               !.alive = @ \ {a.actives[j] : j \in 1 .. n}]

\* A router drops what it cannot route.
Route(queues, s, m) == IF s \in up THEN Post(queues, s, m) ELSE queues

\* One turn: from is the server whose message is read, if any, and due are the servers
\* that get a PING.  A pending request is sent again in every turn.
Turn(from, due) ==
  LET a1 == Taken(agent)
      n == Head(back[CHOOSE s \in from : TRUE]).call
      a2 == IF from = {} THEN a1 ELSE HeardFrom(a1, CHOOSE s \in from : TRUE, n)
      ok == from # {} /\ n = a1.sequence
      late == silent \ from
      expired == a2.request # 0 /\ overdue /\ pipe = <<>>
      a3 == IF expired THEN [a2 EXCEPT !.request = 0]
            ELSE IF a2.request # 0 THEN Trimmed(a2, late) ELSE a2
      sent == IF a3.request # 0 /\ a3.actives # <<>>
              THEN Route(net, Head(a3.actives), [call |-> a3.request, try |-> 0]) ELSE net
  IN /\ agent' = a3
     /\ answers' = answers \o (IF ok THEN <<n>> ELSE <<>>) \o (IF expired THEN <<Failed>> ELSE <<>>)
     /\ strays' = IF ok /\ a1.request = 0 THEN strays + 1 ELSE strays
     /\ net' = [s \in Servers |-> IF s \in due THEN Route(sent, s, [call |-> 0, try |-> 0])[s]
                                  ELSE sent[s]]
     /\ back' = [s \in Servers |-> IF s \in from THEN Tail(back[s]) ELSE back[s]]
     /\ silent' = late
     /\ overdue' = (overdue /\ pipe = <<>> /\ a3.request # 0)
     /\ pipe' = SubSeq(pipe, 2, Len(pipe))

\* The first request comes within the interval of the first PING (flclient3.c).  Bound: all
\* servers get their PINGs in the same turn.
AgentTurn ==
  /\ kind = "agent" /\ ~aborted
  /\ \E due \in {{}, Servers}, from \in {{}} \cup {{s} : s \in Servers} :
       /\ \A s \in from : back[s] # <<>>
       /\ from = {} => \A s \in Servers : back[s] = <<>>
       /\ agent.sequence = 0 => due = {}
       /\ pipe # <<>> \/ from # {} \/ due # {} \/ (overdue /\ agent.request # 0)
       /\ IF pipe # <<>> /\ agent.request # 0
          THEN aborted' = TRUE /\ UNCHANGED <<net, back, pipe, answers, agent, silent,
                                              overdue, strays>>
          ELSE Turn(from, due) /\ UNCHANGED aborted
       /\ UNCHANGED <<kind, up, served, callVars>>

\* SERVER_TTL without a word from s, which would have answered three PINGs were it up.
Expire(s) ==
  /\ kind = "agent" /\ s \notin silent \cup up /\ back[s] = <<>>
  /\ silent' = silent \cup {s}
  /\ UNCHANGED <<kind, netVars, callVars, pipe, answers, agent, overdue, aborted, strays>>

\* Slip: the timer runs only while there is a server to ask.
RequestExpiresListed ==
  /\ agent.request # 0 /\ ~overdue /\ agent.actives # <<>>
  /\ overdue' = TRUE
  /\ UNCHANGED <<kind, netVars, callVars, pipe, answers, agent, silent, aborted, strays>>

\* GLOBAL_TIMEOUT
RequestExpires ==
  /\ agent.request # 0 /\ ~overdue
  /\ overdue' = TRUE
  /\ UNCHANGED <<kind, netVars, callVars, pipe, answers, agent, silent, aborted, strays>>

-----------------------------------------------------------------------------

Step ==
  \/ Request \/ Timeout \/ AppRequest \/ AppReceive \/ AgentTurn \/ RequestExpires
  \/ \E s \in Servers : Answer(s)

Next == Step \/ \E s \in Servers : Server(s) \/ Kill(s) \/ StartAgain(s) \/ Expire(s)

\* The client's own threads go on and its clock does; no server need answer.
Spec ==
  /\ Init /\ [][Next]_vars
  /\ WF_vars(Request) /\ WF_vars(Timeout) /\ WF_vars(AppRequest) /\ WF_vars(AppReceive)
  /\ WF_vars(AgentTurn) /\ WF_vars(RequestExpires)

-----------------------------------------------------------------------------
(* Properties *)

Count(s) == Cardinality({i \in DOMAIN agent.actives : agent.actives[i] = s})

\* Every variable keeps its type; the list of active servers holds a server at most once,
\* and once more while it is known to be alive, and every server known to be alive
\* is on it (flcliapi.c:236, 274, 337).
TypeOK ==
  /\ up \subseteq Servers /\ try \in 0 .. Tries /\ call \in 1 .. MaxCalls + 1
  /\ \A s \in Servers :
       /\ net[s] \in Seq([call : 0 .. MaxCalls, try : 0 .. Tries])
       /\ back[s] \in Seq([call : 0 .. MaxCalls, try : 0 .. Tries])
       /\ Count(s) <= (IF s \in agent.alive THEN 2 ELSE 1)
       /\ s \in agent.alive => Count(s) > 0
  /\ pipe \in Seq(1 .. MaxCalls) /\ agent.request \in 0 .. MaxCalls
  /\ agent.sequence \in 0 .. MaxCalls
  /\ silent \subseteq Servers /\ overdue \in BOOLEAN /\ aborted \in BOOLEAN

Bit(b) == IF b THEN 1 ELSE 0

\* Every request the application makes has exactly one answer coming: it is in a pipe or
\* with the agent, and what there is beyond that are the OKs the agent sent for late
\* copies of an answer (flcliapi.c:282).
OneAnswerEach ==
  kind = "agent" => Len(pipe) + Bit(agent.request # 0) + Len(answers) = Bit(try # 0) + strays

\* flcliapi.c:243, "Strict request-reply cycle": as long as the agent has sent no OK for a
\* late copy the assertion holds and each call gets its own answer; the sockets of the
\* other clients never hand one call the answer of another.
OwnAnswers ==
  strays = 0 => /\ ~aborted
                /\ \A i \in DOMAIN results : results[i] \in {i, Failed}

\* Commands and answers in the two pipes of flcliapi.c, its list of servers and what the
\* application waits for belong together.
AnswersConsistent == TypeOK /\ OneAnswerEach /\ OwnAnswers

\* flcliapi.c:6, "If no server replies within this time, abandon request": no call
\* hangs, whatever the servers do.
NoCallHangs == try # 0 ~> (try = 0 \/ aborted)

RR == INSTANCE RequestReply WITH
  Clients <- {"c"},
  Calls <- [c \in {"c"} |-> [i \in 1 .. MaxCalls |-> "name"]],
  Retries <- Tries,
  call <- [c \in {"c"} |-> IF kind = "agent" THEN 1 ELSE call],
  try <- [c \in {"c"} |-> IF kind = "agent" THEN 0 ELSE try],
  results <- [c \in {"c"} |-> IF kind = "agent" THEN <<>>
                               ELSE [i \in DOMAIN results |->
                                       IF results[i] = Failed THEN "none" ELSE "reply"]],
  served <- served

\* The serial and the blasting client keep the promise of RequestReply: an answer only
\* after a server took an attempt of that call, each attempt served once, and the end
\* after the last timeout (flclient1.c:31, flclient2.c:22).
ImplementsRequestReply == RR!Spec
=============================================================================
