---------------------------- MODULE FreelanceProofs ----------------------------
(***************************************************************************)
(* For every list of servers, every number of calls and every room: the    *)
(* serial and the blasting client implement RequestReply, and what the     *)
(* agent, its pipes and its list say of one another is true.               *)
(***************************************************************************)
EXTENDS Freelance, SequenceTheorems, FiniteSetTheorems, WellFoundedInduction, TLAPS

Messages == [call : 0 .. MaxCalls, try : 0 .. Tries]
Agents == [actives : Seq(Servers), alive : SUBSET Servers,
           request : 0 .. MaxCalls, sequence : 0 .. MaxCalls]

Types ==
  /\ kind \in {"serial", "blast", "agent"} /\ up \subseteq Servers
  /\ net \in [Servers -> Seq(Messages)] /\ back \in [Servers -> Seq(Messages)]
  /\ served \in [Attempts -> Nat]
  /\ call \in 1 .. MaxCalls + 1 /\ try \in 0 .. Tries /\ results \in Seq(0 .. MaxCalls)
  /\ pipe \in Seq(1 .. MaxCalls) /\ answers \in Seq(0 .. MaxCalls) /\ agent \in Agents
  /\ silent \subseteq Servers /\ overdue \in BOOLEAN /\ aborted \in BOOLEAN /\ strays \in Nat

\* A call that waits is one of those to be made, and the results are those of the calls
\* before it.
CallsOK ==
  /\ try # 0 => call <= MaxCalls
  /\ call <= MaxCalls => Len(results) = call - 1
  /\ strays = 0 => \A i \in 1 .. Len(results) : results[i] \in {i, Failed}

\* An attempt, and whether it was made.
Attempt(m) == [client |-> "c", call |-> m.call, try |-> m.try]
Made(m) == m.call < call \/ (m.call = call /\ m.try <= try)

\* What waits at a server was made and sent to it, once, and was not served.
WaitingOK(s) ==
  /\ \A i \in 1 .. Len(net[s]) :
       LET m == net[s][i] IN
       m.call # 0 /\ m.try # 0 /\ Order[m.try] = s /\ Made(m) /\ served[Attempt(m)] = 0
  /\ \A i, j \in 1 .. Len(net[s]) : net[s][i] = net[s][j] => i = j

ServedOK ==
  /\ \A a \in Attempts : served[a] > 0 => Made(a)
  /\ \A s \in Servers : \A i \in 1 .. Len(back[s]) :
       LET m == back[s][i] IN m.call # 0 /\ m.try # 0 /\ served[Attempt(m)] > 0

\* The clients without an agent.
TriesOK ==
  /\ pipe = <<>> /\ answers = <<>> /\ agent.request = 0 /\ strays = 0 /\ ~aborted
  /\ \A s \in Servers : WaitingOK(s)
  /\ ServedOK

\* No message of the agent is an attempt, and there is none before the first request.
NumbersOK ==
  \A s \in Servers :
    /\ \A i \in 1 .. Len(net[s]) : net[s][i].try = 0
    /\ \A i \in 1 .. Len(back[s]) : back[s][i].try = 0
    /\ agent.sequence = 0 => net[s] = <<>> /\ back[s] = <<>>

\* Without an OK for a late copy there is one request at a time, that of the call.
OwnOK ==
  strays = 0 =>
    /\ ~aborted /\ agent.request \in {0, call}
    /\ \A i \in 1 .. Len(pipe) : pipe[i] = call
    /\ \A i \in 1 .. Len(answers) : answers[i] \in {call, Failed}

AgentOK ==
  /\ NumbersOK /\ OneAnswerEach /\ OwnOK
  /\ agent.request # 0 => agent.request = agent.sequence

\* A server is on the list once, and twice at most when it is known to be alive.
ListOK(a) ==
  \A s \in Servers :
    LET at == {i \in 1 .. Len(a.actives) : a.actives[i] = s} IN
    /\ s \in a.alive => at # {}
    /\ s \notin a.alive => \A i, j \in at : i = j
    /\ \A i, j, k \in at : i = j \/ j = k \/ i = k

IInv ==
  /\ Types /\ CallsOK /\ ListOK(agent)
  /\ IF kind = "agent" THEN AgentOK ELSE TriesOK

-----------------------------------------------------------------------------
(* Facts about the constants and about queues                              *)

LEMMA OrderFacts ==
  /\ Tries \in Nat \ {0} /\ MaxCalls \in Nat \ {0}
  /\ \A i \in 1 .. Tries : Order[i] \in Servers
  /\ \A s \in Servers : \E i \in 1 .. Tries : Order[i] = s
  /\ Order \in Seq(Servers)
  <1>1. Order \in Seq(Servers) /\ Order # <<>>
    BY FreelanceAssumption DEF Servers
  <1>2. Tries \in Nat \ {0} /\ DOMAIN Order = 1 .. Tries
    BY <1>1 DEF Tries
  <1> QED
    BY <1>1, <1>2, FreelanceAssumption DEF Servers, ToSet

LEMMA AttemptType ==
  ASSUME NEW m \in Messages, m.call # 0, m.try # 0
  PROVE  Attempt(m) \in Attempts
  BY OrderFacts DEF Messages, Attempts, Attempt

\* An attempt is known by its call and its number.
LEMMA AttemptIs ==
  ASSUME NEW m \in Messages, NEW a \in Attempts
  PROVE  (a.call = m.call /\ a.try = m.try) <=> a = Attempt(m)
  BY DEF Attempts, Attempt

LEMMA MessageIs ==
  ASSUME NEW m \in Messages, NEW n \in Messages, Attempt(m) = Attempt(n)
  PROVE  m = n
  BY DEF Messages, Attempt

LEMMA Appended ==
  ASSUME NEW S, NEW q \in Seq(S), NEW x \in S
  PROVE  /\ Append(q, x) \in Seq(S) /\ Len(Append(q, x)) = Len(q) + 1 /\ Len(q) \in Nat
         /\ \A i \in 1 .. Len(q) : Append(q, x)[i] = q[i]
         /\ Append(q, x)[Len(q) + 1] = x
  OBVIOUS

LEMMA Headed ==
  ASSUME NEW S, NEW q \in Seq(S), q # <<>>
  PROVE  /\ Head(q) \in S /\ Head(q) = q[1] /\ Tail(q) \in Seq(S)
         /\ Len(q) \in Nat \ {0} /\ Len(Tail(q)) = Len(q) - 1
         /\ \A i \in 1 .. Len(Tail(q)) : Tail(q)[i] = q[i + 1] /\ i + 1 \in 1 .. Len(q)
  OBVIOUS

\* A queue with room for it gets the message, another one stays.
LEMMA Posted ==
  ASSUME NEW queues \in [Servers -> Seq(Messages)], NEW s \in Servers, NEW m \in Messages
  PROVE  /\ Post(queues, s, m) \in [Servers -> Seq(Messages)]
         /\ \A t \in Servers : t # s => Post(queues, s, m)[t] = queues[t]
         /\ \A i \in 1 .. Len(Post(queues, s, m)[s]) :
              Post(queues, s, m)[s][i] = m \/ (i \in 1 .. Len(queues[s]) /\ Post(queues, s, m)[s][i] = queues[s][i])
  <1>1. queues[s] \in Seq(Messages)
    OBVIOUS
  <1>2. PICK q : q = Append(queues[s], m)
    OBVIOUS
  <1>3. /\ q \in Seq(Messages) /\ Len(q) = Len(queues[s]) + 1 /\ Len(queues[s]) \in Nat
        /\ \A i \in 1 .. Len(queues[s]) : q[i] = queues[s][i]
        /\ q[Len(queues[s]) + 1] = m
    BY <1>1, <1>2, Appended
  <1>4. Post(queues, s, m) = queues \/ Post(queues, s, m) = [queues EXCEPT ![s] = q]
    BY <1>2 DEF Post
  <1>5. CASE Post(queues, s, m) = queues
    BY <1>5
  <1>6. CASE Post(queues, s, m) = [queues EXCEPT ![s] = q]
    <2>1. Post(queues, s, m)[s] = q
      BY <1>6
    <2> QED
      BY <1>3, <1>6, <2>1
  <1> QED
    BY <1>4, <1>5, <1>6

LEMMA Initially == Init => IInv
  <1> SUFFICES ASSUME Init PROVE IInv
    OBVIOUS
  <1> USE OrderFacts DEF Init
  <1>1. Types
    <2>1. <<>> \in Seq(Messages) /\ <<>> \in Seq(0 .. MaxCalls) /\ <<>> \in Seq(1 .. MaxCalls)
      OBVIOUS
    <2>2. agent \in Agents
      BY DEF Agents
    <2>3. net \in [Servers -> Seq(Messages)] /\ back \in [Servers -> Seq(Messages)]
      BY <2>1
    <2>4. served \in [Attempts -> Nat]
      OBVIOUS
    <2>5. call \in 1 .. MaxCalls + 1 /\ try \in 0 .. Tries
      OBVIOUS
    <2>6. kind \in {"serial", "blast", "agent"}
      BY DEF Kinds
    <2> QED
      BY <2>1, <2>2, <2>3, <2>4, <2>5, <2>6 DEF Types
  <1>2. CallsOK
    BY DEF CallsOK
  <1>3. ListOK(agent)
    <2>1. /\ agent.actives = (IF kind = "agent" THEN Order ELSE <<>>) /\ agent.alive = {}
          /\ kind \in Kinds
      OBVIOUS
    <2>2. kind = "agent" => \A i, j \in 1 .. Tries : Order[i] = Order[j] => i = j
      BY <2>1 DEF Kinds
    <2> HIDE DEF Init
    <2>3. CASE kind = "agent"
      BY <2>1, <2>2, <2>3 DEF ListOK, Tries
    <2>4. CASE kind # "agent"
      BY <2>1, <2>4 DEF ListOK
    <2> QED
      BY <2>3, <2>4
  <1>4. TriesOK
    BY DEF TriesOK, WaitingOK, ServedOK
  <1>5. AgentOK
    BY DEF AgentOK, NumbersOK, OneAnswerEach, OwnOK, Bit
  <1> QED
    BY <1>1, <1>2, <1>3, <1>4, <1>5 DEF IInv

\* The abstract client sees nothing of the agent.
LEMMA AgentHidden ==
  ASSUME kind = "agent", UNCHANGED <<kind, served>>
  PROVE  UNCHANGED RR!vars
  BY DEF RR!vars

LEMMA RRCalls == Len([c \in {"c"} |-> [i \in 1 .. MaxCalls |-> "name"]]["c"]) = MaxCalls
  <1>1. PICK names : names = [i \in 1 .. MaxCalls |-> "name"]
    OBVIOUS
  <1>2. names \in Seq({"name"}) /\ Len(names) = MaxCalls
    <2>1. MaxCalls \in Nat
      BY OrderFacts
    <2>2. names \in [1 .. MaxCalls -> {"name"}]
      BY <1>1
    <2> QED
      BY <2>1, <2>2
  <1> QED
    BY <1>1, <1>2

LEMMA RRAttempts == RR!Attempts = Attempts
  <1>1. UNION {DOMAIN ([d \in {"c"} |-> [i \in 1 .. MaxCalls |-> "name"]])[c] : c \in {"c"}} = 1 .. MaxCalls
    OBVIOUS
  <1> QED
    BY <1>1 DEF RR!Attempts, Attempts

-----------------------------------------------------------------------------
(* The servers                                                             *)

LEMMA ServerKeeps ==
  ASSUME IInv, NEW s \in Servers, Server(s)
  PROVE  IInv' /\ [RR!Next]_(RR!vars)
  <1> PICK m : m = Head(net[s])
    OBVIOUS
  <1>1. /\ Types /\ CallsOK /\ ListOK(agent)
        /\ kind # "agent" => TriesOK
        /\ kind = "agent" => AgentOK
    BY DEF IInv
  <1>2. /\ net[s] \in Seq(Messages) /\ net[s] # <<>>
        /\ net \in [Servers -> Seq(Messages)] /\ back \in [Servers -> Seq(Messages)]
        /\ served \in [Attempts -> Nat] /\ call \in Nat /\ try \in Nat
    BY <1>1 DEF Server, Types
  <1>3. /\ back' = (IF Hears(m) THEN Post(back, s, m) ELSE back)
        /\ served' = [a \in Attempts |->
                        IF a.call = m.call /\ a.try = m.try THEN served[a] + 1 ELSE served[a]]
        /\ net' = [net EXCEPT ![s] = Tail(net[s])]
        /\ UNCHANGED <<kind, up, callVars, agentVars>>
    BY <1>2 DEF Server
  <1>4. /\ m \in Messages /\ m = net[s][1] /\ 1 \in 1 .. Len(net[s])
        /\ Tail(net[s]) \in Seq(Messages) /\ Len(net[s]) \in Nat
        /\ \A i \in 1 .. Len(Tail(net[s])) :
             Tail(net[s])[i] = net[s][i + 1] /\ i + 1 \in 1 .. Len(net[s]) /\ i \in Nat /\ i + 1 # 1
    BY <1>2, Headed
  <1>5. /\ \A t \in Servers : t # s => net'[t] = net[t]
        /\ net'[s] = Tail(net[s])
    BY <1>2, <1>3
  <1>6. /\ back' \in [Servers -> Seq(Messages)]
        /\ \A t \in Servers : \A i \in 1 .. Len(back'[t]) :
             (t = s /\ back'[t][i] = m) \/ (i \in 1 .. Len(back[t]) /\ back'[t][i] = back[t][i])
    <2>1. CASE Hears(m)
      <3>1. /\ Post(back, s, m) \in [Servers -> Seq(Messages)]
            /\ \A t \in Servers : t # s => Post(back, s, m)[t] = back[t]
            /\ \A i \in 1 .. Len(Post(back, s, m)[s]) :
                 Post(back, s, m)[s][i] = m \/ (i \in 1 .. Len(back[s]) /\ Post(back, s, m)[s][i] = back[s][i])
        BY <1>2, <1>4, Posted
      <3>2. back' = Post(back, s, m)
        BY <1>3, <2>1
      <3> QED
        BY <3>1, <3>2
    <2>2. CASE ~Hears(m)
      BY <1>2, <1>3, <2>2
    <2> QED
      BY <2>1, <2>2
  <1>7. Types'
    <2>1. net' \in [Servers -> Seq(Messages)]
      BY <1>2, <1>3, <1>4
    <2>2. served' \in [Attempts -> Nat]
      BY <1>2, <1>3
    <2> QED
      BY <1>1, <1>3, <1>6, <2>1, <2>2 DEF Types, callVars, agentVars
  <1>8. CallsOK' /\ ListOK(agent)'
    BY <1>1, <1>3 DEF CallsOK, ListOK, callVars, agentVars
  <1>9. CASE kind = "agent"
    <2>1. m.try = 0 /\ NumbersOK /\ AgentOK
      BY <1>1, <1>4, <1>9 DEF AgentOK, NumbersOK
    <2>2. served' = served
      <3>1. \A a \in Attempts : a.try # 0
        BY OrderFacts DEF Attempts
      <3> QED
        BY <1>2, <1>3, <2>1, <3>1
    <2>3. NumbersOK'
      <3>1. agent.sequence # 0
        BY <1>2, <2>1 DEF NumbersOK
      <3> QED
        BY <1>3, <1>4, <1>5, <1>6, <2>1, <3>1 DEF NumbersOK, agentVars
    <2>4. AgentOK'
      BY <1>3, <2>1, <2>3 DEF AgentOK, OneAnswerEach, OwnOK, callVars, agentVars
    <2>5. UNCHANGED RR!vars
      BY <1>3, <1>9, <2>2, AgentHidden
    <2> QED
      BY <1>3, <1>7, <1>8, <1>9, <2>4, <2>5 DEF IInv
  <1>10. CASE kind # "agent"
    <2>1. /\ TriesOK /\ WaitingOK(s) /\ ServedOK
          /\ m.call # 0 /\ m.try # 0 /\ Order[m.try] = s /\ Made(m) /\ served[Attempt(m)] = 0
      BY <1>1, <1>4, <1>10 DEF TriesOK, WaitingOK
    <2>2. PICK b \in Attempts : b = Attempt(m)
      BY <1>4, <2>1, AttemptType
    <2>3. served[b] = 0 /\ b.client = "c" /\ b.call = m.call /\ b.try = m.try
      BY <2>1, <2>2 DEF Attempt
    <2>4. served' = [served EXCEPT ![b] = 1]
      <3>1. \A a \in Attempts : (a.call = m.call /\ a.try = m.try) <=> a = b
        BY <1>4, <2>2, AttemptIs
      <3>2. \A a \in Attempts : served'[a] = IF a = b THEN 1 ELSE served[a]
        BY <1>3, <2>3, <3>1
      <3> QED
        BY <1>2, <1>3, <3>2
    <2>5. ASSUME NEW t \in Servers PROVE WaitingOK(t)'
      <3>1. WaitingOK(t) /\ net[t] \in Seq(Messages) /\ Len(net[t]) \in Nat
        BY <1>2, <2>1 DEF TriesOK
      <3>2. ASSUME NEW i \in 1 .. Len(net[t]), t # s \/ i # 1
            PROVE  LET n == net[t][i] IN
                   /\ n.call # 0 /\ n.try # 0 /\ Order[n.try] = t /\ Made(n)
                   /\ served'[Attempt(n)] = 0
        <4>1. net[t][i] \in Messages
          BY <3>1
        <4>2. net[t][i] # m
          BY <1>4, <2>1, <3>1, <3>2 DEF WaitingOK
        <4>3. Attempt(net[t][i]) # b
          BY <1>4, <2>2, <4>1, <4>2, MessageIs
        <4>4. Attempt(net[t][i]) \in Attempts
          BY <3>1, <4>1, AttemptType DEF WaitingOK
        <4> QED
          BY <1>2, <2>4, <3>1, <4>3, <4>4 DEF WaitingOK
      <3>3. UNCHANGED <<call, try>>
        BY <1>3 DEF callVars
      <3>4. CASE t = s
        <4>1. \A i, j \in 1 .. Len(net'[t]) : net'[t][i] = net'[t][j] => i = j
          <5> SUFFICES ASSUME NEW i \in 1 .. Len(net'[t]), NEW j \in 1 .. Len(net'[t]),
                              net'[t][i] = net'[t][j]
                       PROVE  i = j
            OBVIOUS
          <5>1. i + 1 \in 1 .. Len(net[s]) /\ j + 1 \in 1 .. Len(net[s])
                /\ net[s][i + 1] = net[s][j + 1] /\ i \in Nat /\ j \in Nat
            BY <1>4, <1>5, <3>4
          <5>2. i + 1 = j + 1
            BY <2>1, <5>1 DEF WaitingOK
          <5> QED
            BY <5>1, <5>2
        <4>2. \A i \in 1 .. Len(net'[t]) : \E k \in 1 .. Len(net[t]) : k # 1 /\ net'[t][i] = net[t][k]
          BY <1>4, <1>5, <3>4
        <4> QED
          BY <3>2, <3>3, <4>1, <4>2 DEF WaitingOK, Made
      <3>5. CASE t # s
        BY <1>5, <3>1, <3>2, <3>3, <3>5 DEF WaitingOK, Made
      <3> QED
        BY <3>4, <3>5
    <2>6. ServedOK'
      <3>1. \A a \in Attempts : served'[a] > 0 => Made(a)'
        <4> SUFFICES ASSUME NEW a \in Attempts, served'[a] > 0 PROVE Made(a)'
          OBVIOUS
        <4>1. Made(a)
          <5>1. CASE a = b
            BY <2>1, <2>3, <5>1 DEF Made
          <5>2. CASE a # b
            BY <1>2, <2>1, <2>4, <5>2 DEF ServedOK
          <5> QED
            BY <5>1, <5>2
        <4> QED
          BY <1>3, <4>1 DEF Made, callVars
      <3>2. ASSUME NEW t \in Servers, NEW i \in 1 .. Len(back'[t])
            PROVE  LET n == back'[t][i] IN n.call # 0 /\ n.try # 0 /\ served'[Attempt(n)] > 0
        <4>1. CASE back'[t][i] = m
          BY <1>2, <2>1, <2>2, <2>4, <4>1
        <4>2. CASE i \in 1 .. Len(back[t]) /\ back'[t][i] = back[t][i]
          <5>1. back[t][i] \in Messages
            BY <1>2, <4>2
          <5>2. back[t][i].call # 0 /\ back[t][i].try # 0 /\ served[Attempt(back[t][i])] > 0
            BY <2>1, <4>2 DEF ServedOK
          <5>3. Attempt(back[t][i]) \in Attempts
            BY <5>1, <5>2, AttemptType
          <5> QED
            BY <1>2, <2>4, <4>2, <5>2, <5>3
        <4> QED
          BY <1>6, <4>1, <4>2
      <3> QED
        BY <3>1, <3>2 DEF ServedOK
    <2>7. TriesOK'
      BY <1>3, <2>1, <2>5, <2>6 DEF TriesOK, agentVars
    <2>8. RR!Next
      <3>1. /\ RR!Attempts = Attempts
            /\ b.client = "c" /\ b \in Attempts
        BY <2>3, RRAttempts
      <3>2. RR!Made(b)
        BY <1>10, <2>1, <2>3 DEF RR!Made, Made
      <3>3. RR!Serve(b)
        BY <1>3, <2>3, <2>4, <3>2 DEF RR!Serve, callVars
      <3> QED
        BY <3>1, <3>3 DEF RR!Next
    <2> QED
      BY <1>3, <1>7, <1>8, <1>10, <2>7, <2>8 DEF IInv
  <1> QED
    BY <1>9, <1>10

\* A step that only loses messages.
Loses ==
  /\ UNCHANGED <<kind, served, callVars, agentVars>> /\ up' \subseteq Servers
  /\ net' \in [Servers -> Seq(Messages)] /\ \A t \in Servers : net'[t] \in {net[t], <<>>}
  /\ back' \in [Servers -> Seq(Messages)] /\ \A t \in Servers : back'[t] \in {back[t], <<>>}

LEMMA LossKeeps ==
  ASSUME IInv, Loses
  PROVE  IInv' /\ UNCHANGED RR!vars
  <1>0. UNCHANGED <<kind, served, call, try, results, pipe, answers, agent, silent, overdue,
                    aborted, strays>>
    BY DEF Loses, callVars, agentVars
  <1>1. /\ \A t \in Servers : \A i \in 1 .. Len(net'[t]) :
             i \in 1 .. Len(net[t]) /\ net'[t][i] = net[t][i]
        /\ \A t \in Servers : net[t] = <<>> => net'[t] = <<>>
    BY DEF Loses
  <1>2. /\ \A t \in Servers : \A i \in 1 .. Len(back'[t]) :
             i \in 1 .. Len(back[t]) /\ back'[t][i] = back[t][i]
        /\ \A t \in Servers : back[t] = <<>> => back'[t] = <<>>
    BY DEF Loses
  <1>3. Types' /\ CallsOK' /\ ListOK(agent)'
    BY <1>0 DEF Loses, IInv, Types, CallsOK, ListOK
  <1>6. UNCHANGED RR!vars
    BY <1>0 DEF RR!vars
  <1>4. CASE kind = "agent"
    <2>1. NumbersOK /\ AgentOK /\ kind' = "agent"
      BY <1>0, <1>4 DEF IInv, AgentOK
    <2>2. NumbersOK'
      <3>1. ASSUME NEW t \in Servers
            PROVE  /\ \A i \in 1 .. Len(net'[t]) : net'[t][i].try = 0
                   /\ \A i \in 1 .. Len(back'[t]) : back'[t][i].try = 0
        BY <1>1, <1>2, <2>1 DEF NumbersOK
      <3>2. ASSUME NEW t \in Servers
            PROVE  agent'.sequence = 0 => net'[t] = <<>> /\ back'[t] = <<>>
        BY <1>0, <1>1, <1>2, <2>1 DEF NumbersOK
      <3> QED
        BY <3>1, <3>2 DEF NumbersOK
    <2>3. AgentOK'
      BY <1>0, <2>1, <2>2 DEF AgentOK, OneAnswerEach, OwnOK
    <2> QED
      BY <1>3, <1>6, <2>1, <2>3 DEF IInv
  <1>5. CASE kind # "agent"
    <2>1. TriesOK /\ ServedOK /\ kind' # "agent"
      BY <1>0, <1>5 DEF IInv, TriesOK
    <2>2. ASSUME NEW t \in Servers PROVE WaitingOK(t)'
      <3>1. WaitingOK(t)
        BY <2>1 DEF TriesOK
      <3> QED
        BY <1>0, <1>1, <3>1 DEF WaitingOK, Made
    <2>3. ServedOK'
      BY <1>0, <1>2, <2>1 DEF ServedOK, Made
    <2>4. TriesOK'
      BY <1>0, <2>1, <2>2, <2>3 DEF TriesOK
    <2> QED
      BY <1>3, <1>6, <2>1, <2>4 DEF IInv
  <1> QED
    BY <1>4, <1>5

LEMMA KillKeeps ==
  ASSUME IInv, NEW s \in Servers, Kill(s) \/ StartAgain(s)
  PROVE  IInv' /\ [RR!Next]_(RR!vars)
  <1>1. /\ net \in [Servers -> Seq(Messages)] /\ back \in [Servers -> Seq(Messages)]
        /\ up \subseteq Servers
    BY DEF IInv, Types
  <1>2. /\ UNCHANGED <<kind, served, callVars, agentVars, back>> /\ up' \subseteq Servers
        /\ net' = net \/ net' = [net EXCEPT ![s] = <<>>]
    BY <1>1 DEF Kill, StartAgain
  <1>3. net' \in [Servers -> Seq(Messages)] /\ \A t \in Servers : net'[t] \in {net[t], <<>>}
    <2>1. <<>> \in Seq(Messages)
      OBVIOUS
    <2> QED
      BY <1>1, <1>2, <2>1
  <1> QED
    BY <1>1, <1>2, <1>3, LossKeeps DEF Loses

\* A deadline passes.
LEMMA ExpireKeeps ==
  ASSUME IInv, RequestExpires \/ \E s \in Servers : Expire(s)
  PROVE  IInv' /\ [RR!Next]_(RR!vars)
  <1>1. /\ UNCHANGED <<kind, netVars, callVars, pipe, answers, agent, aborted, strays>>
        /\ silent' \subseteq Servers /\ overdue' \in BOOLEAN
    BY DEF RequestExpires, Expire, IInv, Types
  <1>2. Types' /\ CallsOK' /\ ListOK(agent)'
    BY <1>1 DEF IInv, Types, CallsOK, ListOK, callVars, netVars
  <1>3. AgentOK => AgentOK'
    BY <1>1 DEF AgentOK, NumbersOK, OneAnswerEach, OwnOK, callVars, netVars
  <1>4. TriesOK => TriesOK'
    BY <1>1 DEF TriesOK, WaitingOK, ServedOK, Made, callVars, netVars
  <1>5. IInv'
    BY <1>1, <1>2, <1>3, <1>4 DEF IInv
  <1>6. UNCHANGED RR!vars
    BY <1>1 DEF RR!vars, callVars, netVars
  <1> QED
    BY <1>5, <1>6

-----------------------------------------------------------------------------
(* The clients without an agent                                            *)

\* One attempt more; some queues may be lost with the old socket.
OneMore(left) ==
  /\ kind # "agent" /\ call <= MaxCalls /\ try < Tries
  /\ left \in [Servers -> Seq(Messages)] /\ \A t \in Servers : left[t] \in {net[t], <<>>}
  /\ net' = [left EXCEPT ![Order[try + 1]] = Append(@, [call |-> call, try |-> try + 1])]
  /\ back' \in [Servers -> Seq(Messages)] /\ \A t \in Servers : back'[t] \in {back[t], <<>>}
  /\ try' = try + 1 /\ UNCHANGED <<kind, up, served, call, results, agentVars>>

LEMMA TryKeeps ==
  ASSUME IInv, NEW left, OneMore(left)
  PROVE  IInv' /\ RR!Next
  <1> PICK m : m = [call |-> call, try |-> try + 1]
    OBVIOUS
  <1> PICK s : s = Order[try + 1]
    OBVIOUS
  <1>0. /\ Types /\ CallsOK /\ ListOK(agent) /\ TriesOK /\ ServedOK
        /\ Tries \in Nat /\ MaxCalls \in Nat
        /\ kind # "agent" /\ call <= MaxCalls /\ try < Tries
        /\ left \in [Servers -> Seq(Messages)]
        /\ back' \in [Servers -> Seq(Messages)]
        /\ try' = try + 1 /\ UNCHANGED <<kind, up, served, call, results>>
        /\ UNCHANGED <<pipe, answers, agent, silent, overdue, aborted, strays>>
    BY OrderFacts DEF IInv, TriesOK, OneMore, agentVars
  <1>1. /\ call \in 1 .. MaxCalls /\ try \in 0 .. Tries /\ try + 1 \in 1 .. Tries
        /\ served \in [Attempts -> Nat] /\ back \in [Servers -> Seq(Messages)]
        /\ net \in [Servers -> Seq(Messages)]
    BY <1>0 DEF Types
  <1>2. /\ m \in Messages /\ m.call = call /\ m.try = try + 1 /\ m.call # 0 /\ m.try # 0
        /\ s \in Servers
    BY SMTT(40), <1>0, <1>1, OrderFacts DEF Messages
  <1>3. left[s] \in Seq(Messages) /\ net' = [left EXCEPT ![s] = Append(left[s], m)]
    BY <1>0, <1>2 DEF OneMore
  <1>4. /\ Append(left[s], m) \in Seq(Messages)
        /\ Len(Append(left[s], m)) = Len(left[s]) + 1 /\ Len(left[s]) \in Nat
        /\ \A i \in 1 .. Len(left[s]) : Append(left[s], m)[i] = left[s][i]
        /\ Append(left[s], m)[Len(left[s]) + 1] = m
    BY <1>2, <1>3, Appended
  <1>5. net' \in [Servers -> Seq(Messages)] /\ net'[s] = Append(left[s], m)
        /\ \A t \in Servers : t # s => net'[t] = left[t]
    BY <1>0, <1>2, <1>3, <1>4
  <1>6. Types'
    BY <1>0, <1>1, <1>5 DEF Types
  <1>7. CallsOK' /\ ListOK(agent)'
    BY <1>0, <1>1 DEF CallsOK, ListOK
  <1>8. Attempt(m) \in Attempts /\ served[Attempt(m)] = 0
    <2>1. Attempt(m) \in Attempts /\ Attempt(m).call = call /\ Attempt(m).try = try + 1
      BY <1>2, AttemptType DEF Attempt
    <2>2. ~Made(Attempt(m))
      BY <1>1, <2>1 DEF Made
    <2>3. served[Attempt(m)] \in Nat
      BY <1>1, <2>1
    <2> QED
      BY <1>0, <2>1, <2>2, <2>3 DEF ServedOK
  <1> DEFINE Later(n) == n.call < call' \/ (n.call = call' /\ n.try <= try')
  <1>9. \A n \in Messages \cup Attempts : Made(n) => Later(n)
    BY <1>0, <1>1 DEF Made, Messages, Attempts
  <1>10. ASSUME NEW t \in Servers PROVE WaitingOK(t)'
    <2>0. WaitingOK(t) /\ Len(net[t]) \in Nat /\ net[t] \in Seq(Messages) /\ left[t] \in {net[t], <<>>}
      BY <1>0, <1>1 DEF TriesOK, OneMore
    <2>1. \A i \in 1 .. Len(left[t]) :
            LET n == left[t][i] IN
            /\ n.call # 0 /\ n.try # 0 /\ Order[n.try] = t /\ Made(n) /\ served[Attempt(n)] = 0
            /\ n # m /\ n \in Messages /\ Later(n)
      <3> SUFFICES ASSUME NEW i \in 1 .. Len(left[t])
                   PROVE  LET n == left[t][i] IN
                          /\ n.call # 0 /\ n.try # 0 /\ Order[n.try] = t /\ Made(n)
                          /\ served[Attempt(n)] = 0 /\ n # m
                          /\ n \in Messages /\ Later(n)
        OBVIOUS
      <3>1. left[t] = net[t] /\ i \in 1 .. Len(net[t])
        BY <2>0
      <3>2. ~Made(m)
        BY <1>1, <1>2 DEF Made
      <3>3. left[t][i] \in Messages /\ Made(left[t][i])
        BY <2>0, <3>1 DEF WaitingOK
      <3>4. Later(left[t][i])
        BY <1>9, <3>3
      <3> HIDE DEF Later
      <3> QED
        BY <2>0, <3>1, <3>2, <3>3, <3>4 DEF WaitingOK
    <2>2. \A i, j \in 1 .. Len(left[t]) : left[t][i] = left[t][j] => i = j
      BY <2>0 DEF WaitingOK
    <2>3. CASE t # s
      BY <1>0, <1>5, <2>1, <2>2, <2>3 DEF WaitingOK, Made
    <2>4. CASE t = s
      <3>1. Later(m)
        BY <1>0, <1>1, <1>2 DEF Made
      <3>2. Order[m.try] = s
        BY <1>2
      <3>3. \A i \in 1 .. Len(net'[s]) :
              (i \in 1 .. Len(left[s]) /\ net'[s][i] = left[s][i])
              \/ (i = Len(left[s]) + 1 /\ net'[s][i] = m)
        BY <1>4, <1>5
      <3>4. \A i, j \in 1 .. Len(net'[s]) : net'[s][i] = net'[s][j] => i = j
        BY <2>1, <2>2, <2>4, <3>3
      <3>5. ASSUME NEW i \in 1 .. Len(net'[s])
            PROVE  LET n == net'[s][i] IN
                   /\ n.call # 0 /\ n.try # 0 /\ Order[n.try] = s /\ Later(n)
                   /\ served[Attempt(n)] = 0
        <4>1. CASE net'[s][i] = m
          BY <1>2, <1>8, <3>1, <3>2, <4>1
        <4>2. CASE i \in 1 .. Len(left[s]) /\ net'[s][i] = left[s][i]
          BY <2>1, <2>4, <4>2
        <4> QED
          BY <3>3, <4>1, <4>2
      <3> QED
        BY <1>0, <2>4, <3>4, <3>5 DEF WaitingOK, Made
    <2> QED
      BY <2>3, <2>4
  <1>11. ServedOK'
    <2>1. \A t \in Servers : \A i \in 1 .. Len(back'[t]) :
            i \in 1 .. Len(back[t]) /\ back'[t][i] = back[t][i]
      BY DEF OneMore
    <2>2. \A a \in Attempts : Made(a) => Made(a)'
      BY <1>9 DEF Made
    <2> QED
      BY ZenonT(60), <1>0, <2>1, <2>2 DEF ServedOK
  <1>12. IInv'
    BY <1>0, <1>6, <1>7, <1>10, <1>11 DEF IInv, TriesOK
  <1>13. RR!Try("c")
    BY <1>0, <1>1 DEF RR!Try
  <1> QED
    BY <1>12, <1>13 DEF RR!Next, RR!Client

LEMMA RequestKeeps ==
  ASSUME IInv, Request
  PROVE  IInv' /\ [RR!Next]_(RR!vars)
  <1>1. /\ net \in [Servers -> Seq(Messages)] /\ back \in [Servers -> Seq(Messages)]
        /\ try \in Nat /\ Tries \in Nat \ {0} /\ MaxCalls \in Nat \ {0} /\ call \in Nat
    BY OrderFacts DEF IInv, Types
  <1>2. kind # "agent" /\ call <= MaxCalls /\ try < Tries
    BY <1>1 DEF Request, Sends
  <1>3. OneMore(net)
    BY <1>1, <1>2 DEF Request, OneMore
  <1> QED
    BY <1>3, TryKeeps

\* The client takes a reply, or gives up.
Returns(r) ==
  /\ kind # "agent" /\ try # 0 /\ r \in {call, Failed}
  /\ Return(r) /\ call' = IF r = Failed THEN MaxCalls + 1 ELSE call + 1
  /\ UNCHANGED <<kind, up, served, agentVars>>
  /\ net' \in [Servers -> Seq(Messages)] /\ \A t \in Servers : net'[t] \in {net[t], <<>>}
  /\ back' \in [Servers -> Seq(Messages)]
  /\ \A t \in Servers : \A i \in 1 .. Len(back'[t]) :
       \E j \in 1 .. Len(back[t]) : back'[t][i] = back[t][j]

LEMMA ReturnKeeps ==
  ASSUME IInv, NEW r, Returns(r)
  PROVE  IInv'
  <1>0. /\ Types /\ CallsOK /\ ListOK(agent) /\ TriesOK /\ ServedOK
        /\ MaxCalls \in Nat \ {0}
        /\ kind # "agent" /\ try # 0 /\ r \in {call, Failed}
        /\ results' = Append(results, r) /\ try' = 0
        /\ call' = IF r = Failed THEN MaxCalls + 1 ELSE call + 1
        /\ UNCHANGED <<kind, up, served>>
        /\ UNCHANGED <<pipe, answers, agent, silent, overdue, aborted, strays>>
        /\ net' \in [Servers -> Seq(Messages)] /\ back' \in [Servers -> Seq(Messages)]
    BY OrderFacts DEF Returns, Return, IInv, TriesOK, agentVars
  <1>1. /\ call \in 1 .. MaxCalls /\ results \in Seq(0 .. MaxCalls)
        /\ Len(results) = call - 1 /\ r \in 0 .. MaxCalls
        /\ try \in 0 .. Tries /\ Tries \in Nat /\ call' \in call + 1 .. MaxCalls + 1
    BY <1>0, OrderFacts DEF Types, CallsOK, Failed
  <1>2. /\ results' \in Seq(0 .. MaxCalls) /\ Len(results') = call
        /\ \A i \in 1 .. Len(results) : results'[i] = results[i]
        /\ results'[call] = r
    BY <1>0, <1>1, Appended
  <1>3. Types'
    BY <1>0, <1>1, <1>2 DEF Types
  <1>4. CallsOK'
    <2>1. call' <= MaxCalls => Len(results') = call' - 1
      BY <1>0, <1>1, <1>2
    <2>2. ASSUME NEW i \in 1 .. Len(results') PROVE results'[i] \in {i, Failed}
      <3>1. strays = 0 /\ \A j \in 1 .. Len(results) : results[j] \in {j, Failed}
        BY <1>0 DEF TriesOK, CallsOK
      <3>2. CASE i = call
        BY <1>0, <1>2, <3>2
      <3>3. CASE i # call
        <4>1. i \in 1 .. Len(results)
          BY <1>1, <1>2, <3>3
        <4> QED
          BY <1>2, <3>1, <4>1
      <3> QED
        BY <3>2, <3>3
    <2> QED
      BY <1>0, <2>1, <2>2 DEF CallsOK
  <1>5. ListOK(agent)'
    <2>1. agent' = agent /\ ListOK(agent)
      BY <1>0
    <2> QED
      BY <2>1 DEF ListOK
  <1>6. \A n \in Messages \cup Attempts : Made(n) => n.call < call'
    BY <1>1 DEF Made, Messages, Attempts
  <1>7. ASSUME NEW t \in Servers PROVE WaitingOK(t)'
    <2>1. WaitingOK(t) /\ net[t] \in Seq(Messages) /\ net'[t] \in {net[t], <<>>}
      BY <1>0 DEF TriesOK, Types, Returns
    <2>2. \A i \in 1 .. Len(net[t]) : net[t][i].call < call'
      BY <1>6, <2>1 DEF WaitingOK
    <2>3. CASE net'[t] = <<>>
      BY <2>3 DEF WaitingOK
    <2>4. CASE net'[t] = net[t]
      BY <1>0, <2>1, <2>2, <2>4 DEF WaitingOK, Made
    <2> QED
      BY <2>1, <2>3, <2>4
  <1>8. ServedOK'
    <2>1. \A a \in Attempts : Made(a) => Made(a)'
      BY <1>6 DEF Made
    <2>2. ASSUME NEW t \in Servers, NEW i \in 1 .. Len(back'[t])
          PROVE  LET m == back'[t][i] IN m.call # 0 /\ m.try # 0 /\ served[Attempt(m)] > 0
      <3>1. PICK j \in 1 .. Len(back[t]) : back'[t][i] = back[t][j]
        BY DEF Returns
      <3> QED
        BY <1>0, <3>1 DEF ServedOK
    <2> QED
      BY <1>0, <2>1, <2>2 DEF ServedOK
  <1>9. TriesOK'
    BY <1>0, <1>7, <1>8 DEF TriesOK
  <1> QED
    BY <1>0, <1>3, <1>4, <1>5, <1>9 DEF IInv

\* The results as the abstract client sees them.
Seen == [i \in DOMAIN results |-> IF results[i] = Failed THEN "none" ELSE "reply"]

LEMMA SeenGrows ==
  ASSUME results \in Seq(0 .. MaxCalls), NEW r \in 0 .. MaxCalls, results' = Append(results, r)
  PROVE  Seen' = Append(Seen, IF r = Failed THEN "none" ELSE "reply")
  <1>1. /\ results' \in Seq(0 .. MaxCalls) /\ Len(results') = Len(results) + 1
        /\ Len(results) \in Nat
        /\ \A i \in 1 .. Len(results) : results'[i] = results[i]
        /\ results'[Len(results) + 1] = r
    BY Appended
  <1>2. DOMAIN results = 1 .. Len(results) /\ DOMAIN results' = 1 .. Len(results) + 1
    BY <1>1
  <1>3. Seen \in Seq({"none", "reply"}) /\ Len(Seen) = Len(results)
    BY <1>1, <1>2 DEF Seen
  <1>4. PICK word \in {"none", "reply"} : word = IF r = Failed THEN "none" ELSE "reply"
    OBVIOUS
  <1>5. /\ Append(Seen, word) \in Seq({"none", "reply"})
        /\ Len(Append(Seen, word)) = Len(results) + 1
        /\ \A i \in 1 .. Len(results) : Append(Seen, word)[i] = Seen[i]
        /\ Append(Seen, word)[Len(results) + 1] = word
    BY <1>3, Appended
  <1>6. Seen' \in [1 .. Len(results) + 1 -> {"none", "reply"}]
        /\ Append(Seen, word) \in [1 .. Len(results) + 1 -> {"none", "reply"}]
    <2>1. Seen' \in [1 .. Len(results) + 1 -> {"none", "reply"}]
      BY <1>2 DEF Seen
    <2>2. ASSUME NEW q \in Seq({"none", "reply"}) PROVE q \in [1 .. Len(q) -> {"none", "reply"}]
      OBVIOUS
    <2> QED
      BY <1>5, <2>1, <2>2
  <1>7. \A i \in 1 .. Len(results) + 1 : Seen'[i] = Append(Seen, word)[i]
    <2> SUFFICES ASSUME NEW i \in 1 .. Len(results) + 1 PROVE Seen'[i] = Append(Seen, word)[i]
      OBVIOUS
    <2>1. CASE i \in 1 .. Len(results)
      BY <1>1, <1>2, <1>5, <2>1 DEF Seen
    <2>2. CASE i = Len(results) + 1
      BY <1>1, <1>2, <1>4, <1>5, <2>2 DEF Seen
    <2>3. Len(results) \in Nat
      BY <1>1
    <2>4. i \in 1 .. Len(results) \/ i = Len(results) + 1
      BY <2>3
    <2> QED
      BY <2>1, <2>2, <2>4
  <1> QED
    BY <1>4, <1>6, <1>7

LEMMA AnswerKeeps ==
  ASSUME IInv, NEW s \in Servers, Answer(s)
  PROVE  IInv' /\ [RR!Next]_(RR!vars)
  <1> PICK m : m = Head(back[s])
    OBVIOUS
  <1>1. /\ Types /\ CallsOK /\ ListOK(agent) /\ TriesOK /\ ServedOK /\ kind # "agent"
        /\ net \in [Servers -> Seq(Messages)] /\ back \in [Servers -> Seq(Messages)]
        /\ back[s] \in Seq(Messages) /\ back[s] # <<>> /\ try # 0
    BY DEF IInv, Types, TriesOK, Answer
  <1>2. /\ m \in Messages /\ m = back[s][1] /\ 1 \in 1 .. Len(back[s])
        /\ Tail(back[s]) \in Seq(Messages)
        /\ \A i \in 1 .. Len(Tail(back[s])) :
             Tail(back[s])[i] = back[s][i + 1] /\ i + 1 \in 1 .. Len(back[s])
    BY <1>1, Headed
  <1>3. /\ back' = [back EXCEPT ![s] = Tail(back[s])]
        /\ UNCHANGED <<kind, up, net, served, agentVars>>
        /\ IF m.call = call THEN Return(m.call) /\ call' = call + 1 ELSE UNCHANGED callVars
    BY DEF Answer
  <1>4. /\ back' \in [Servers -> Seq(Messages)]
        /\ \A t \in Servers : \A i \in 1 .. Len(back'[t]) :
             \E j \in 1 .. Len(back[t]) : back'[t][i] = back[t][j]
    BY <1>1, <1>2, <1>3
  <1>5. CASE m.call = call
    <2>1. Returns(call) /\ call # Failed /\ call \in 0 .. MaxCalls
      <3>1. call # Failed /\ call \in 0 .. MaxCalls
        BY <1>1, OrderFacts DEF Types, CallsOK, Failed
      <3> QED
        BY <1>1, <1>3, <1>4, <1>5, <3>1 DEF Returns
    <2>2. IInv'
      BY <2>1, ReturnKeeps
    <2>3. RR!Return("c", "reply")
      <3>1. Seen' = Append(Seen, "reply")
        BY <1>1, <2>1, SeenGrows DEF Returns, Return, Types
      <3>2. m.call # 0 /\ m.try # 0 /\ served[Attempt(m)] > 0
        BY <1>1, <1>2 DEF ServedOK
      <3>3. Attempt(m) \in RR!Attempts /\ Attempt(m).client = "c" /\ Attempt(m).call = call
        BY <1>2, <1>5, <3>2, AttemptType, RRAttempts DEF Attempt
      <3>4. RR!Answered("c")
        BY <1>1, <3>2, <3>3 DEF RR!Answered
      <3> QED
        BY <1>1, <1>3, <1>5, <3>1, <3>4 DEF RR!Return, Return, Seen
    <2> QED
      BY <2>2, <2>3 DEF RR!Next, RR!Client
  <1>6. CASE m.call # call
    <2>1. UNCHANGED <<call, try, results, pipe, answers, agent, silent, overdue, aborted, strays>>
      BY <1>3, <1>6 DEF callVars, agentVars
    <2>2. Types' /\ CallsOK' /\ ListOK(agent)'
      BY SMTT(40), <1>1, <1>3, <1>4, <2>1 DEF Types, CallsOK, ListOK
    <2>3. \A t \in Servers : WaitingOK(t)'
      BY <1>1, <1>3, <2>1 DEF TriesOK, WaitingOK, Made
    <2>4. ServedOK'
      <3>1. \A a \in Attempts : served'[a] > 0 => Made(a)'
        BY <1>1, <1>3, <2>1 DEF ServedOK, Made
      <3>2. ASSUME NEW t \in Servers, NEW i \in 1 .. Len(back'[t])
            PROVE  LET n == back'[t][i] IN n.call # 0 /\ n.try # 0 /\ served[Attempt(n)] > 0
        <4>1. PICK j \in 1 .. Len(back[t]) : back'[t][i] = back[t][j]
          BY <1>4
        <4> QED
          BY <1>1, <4>1 DEF ServedOK
      <3> QED
        BY <1>3, <3>1, <3>2 DEF ServedOK
    <2>5. TriesOK'
      BY <1>1, <2>1, <2>3, <2>4 DEF TriesOK
    <2>6. UNCHANGED RR!vars
      BY <1>3, <2>1 DEF RR!vars
    <2> QED
      BY <1>1, <1>3, <2>2, <2>5, <2>6 DEF IInv
  <1> QED
    BY <1>5, <1>6

LEMMA TimeoutKeeps ==
  ASSUME IInv, Timeout
  PROVE  IInv' /\ [RR!Next]_(RR!vars)
  <1>1. /\ Types /\ CallsOK /\ kind # "agent" /\ try # 0
        /\ net \in [Servers -> Seq(Messages)] /\ back \in [Servers -> Seq(Messages)]
        /\ try \in 0 .. Tries /\ Tries \in Nat /\ call \in 1 .. MaxCalls
        /\ <<>> \in Seq(Messages) /\ results \in Seq(0 .. MaxCalls) /\ MaxCalls \in Nat
    <2>1. Types /\ CallsOK /\ kind # "agent" /\ try # 0
      BY DEF IInv, Timeout
    <2>2. call <= MaxCalls
      BY <2>1 DEF CallsOK
    <2> QED
      BY <2>1, <2>2, OrderFacts DEF Types
  <1> DEFINE s == Order[try]
             dead == IF kind = "serial" /\ Order[try] \notin up THEN {Order[try]} ELSE {}
             left == [net EXCEPT ![Order[try]] = IF dead # {} THEN <<>> ELSE @]
  <1>2. left \in [Servers -> Seq(Messages)] /\ \A t \in Servers : left[t] \in {net[t], <<>>}
    BY <1>1
  <1>3. back' \in [Servers -> Seq(Messages)] /\ \A t \in Servers : back'[t] \in {back[t], <<>>}
    BY <1>1 DEF Timeout
  <1>4. CASE try < Tries
    <2>1. /\ net' = [left EXCEPT ![Order[try + 1]] = Append(@, [call |-> call, try |-> try + 1])]
          /\ try' = try + 1 /\ UNCHANGED <<kind, up, served, call, results, agentVars>>
      BY <1>4 DEF Timeout
    <2>2. OneMore(left)
      <3> HIDE DEF left
      <3> QED
        BY <1>1, <1>2, <1>3, <1>4, <2>1 DEF OneMore
    <2> QED
      BY <2>2, TryKeeps
  <1>5. CASE ~(try < Tries)
    <2>1. /\ Return(Failed) /\ call' = MaxCalls + 1 /\ net' = left
          /\ UNCHANGED <<kind, up, served, agentVars>>
      BY <1>5 DEF Timeout
    <2>2. Returns(Failed)
      <3>1. \A t \in Servers : \A i \in 1 .. Len(back'[t]) :
              \E j \in 1 .. Len(back[t]) : back'[t][i] = back[t][j]
        BY <1>3
      <3> HIDE DEF left
      <3> QED
        BY <1>1, <1>2, <1>3, <2>1, <3>1 DEF Returns
    <2>3. IInv'
      BY <2>2, ReturnKeeps
    <2>4. RR!Abandon("c")
      <3>1. Seen' = Append(Seen, "none")
        BY <1>1, <2>1, SeenGrows DEF Return, Failed
      <3>2. try = Tries
        BY <1>1, <1>5
      <3>3. UNCHANGED <<kind, served>> /\ try' = 0 /\ call' = MaxCalls + 1
        BY <2>1 DEF Return
      <3> QED
        BY <1>1, <3>1, <3>2, <3>3, RRCalls DEF RR!Abandon, Seen
    <2> QED
      BY <2>3, <2>4 DEF RR!Next, RR!Client
  <1> QED
    BY <1>4, <1>5

-----------------------------------------------------------------------------
(* The application of the agent                                            *)

\* At most one request is with the agent, or its answer with the application, as long as
\* the agent has sent no OK too many.
LEMMA OneAtATime ==
  ASSUME IInv, kind = "agent", strays = 0
  PROVE  /\ try = 0 => pipe = <<>> /\ agent.request = 0 /\ answers = <<>>
         /\ pipe # <<>> => agent.request = 0 /\ answers = <<>>
         /\ answers # <<>> => pipe = <<>> /\ agent.request = 0 /\ Len(answers) = 1
  <1>1. /\ Len(pipe) + Bit(agent.request # 0) + Len(answers) = Bit(try # 0)
        /\ pipe \in Seq(1 .. MaxCalls) /\ answers \in Seq(0 .. MaxCalls)
    <2>1. AgentOK /\ Types
      BY DEF IInv
    <2>2. Bit(try # 0) \in Nat
      BY DEF Bit
    <2> QED
      BY <2>1, <2>2 DEF AgentOK, OneAnswerEach, Types
  <1>2. /\ Len(pipe) \in Nat /\ Len(answers) \in Nat
        /\ (pipe = <<>> <=> Len(pipe) = 0) /\ (answers = <<>> <=> Len(answers) = 0)
    BY <1>1
  <1>3. Bit(agent.request # 0) \in {0, 1} /\ Bit(try # 0) \in {0, 1}
        /\ (agent.request = 0 <=> Bit(agent.request # 0) = 0)
        /\ (try = 0 <=> Bit(try # 0) = 0)
    BY DEF Bit
  <1>4. PICK p, r, q, t \in Nat :
          p = Len(pipe) /\ r = Bit(agent.request # 0) /\ q = Len(answers) /\ t = Bit(try # 0)
    BY <1>2, <1>3
  <1>5. p + r + q = t /\ t <= 1
    BY <1>1, <1>3, <1>4
  <1>6. (t = 0 => p = 0 /\ r = 0 /\ q = 0) /\ (p # 0 => r = 0 /\ q = 0)
        /\ (q # 0 => p = 0 /\ r = 0 /\ q = 1)
    BY <1>5
  <1> QED
    BY <1>2, <1>3, <1>4, <1>6

LEMMA AppRequestKeeps ==
  ASSUME IInv, AppRequest
  PROVE  IInv' /\ [RR!Next]_(RR!vars)
  <1>1. /\ Types /\ CallsOK /\ ListOK(agent) /\ AgentOK /\ kind = "agent" /\ kind' = "agent"
        /\ try = 0 /\ call \in 1 .. MaxCalls /\ try' = 1 /\ pipe' = Append(pipe, call)
        /\ UNCHANGED <<up, net, back, served, call, results, answers, agent, silent, overdue,
                       aborted, strays>>
        /\ Tries \in Nat \ {0} /\ MaxCalls \in Nat \ {0}
    BY OrderFacts DEF AppRequest, IInv, Types, netVars
  <1>2. /\ pipe' \in Seq(1 .. MaxCalls) /\ Len(pipe') = Len(pipe) + 1 /\ Len(pipe) \in Nat
        /\ \A i \in 1 .. Len(pipe) : pipe'[i] = pipe[i]
        /\ pipe'[Len(pipe) + 1] = call
    BY <1>1, Appended DEF Types
  <1>3. Types'
    BY <1>1, <1>2 DEF Types
  <1>4. CallsOK' /\ ListOK(agent)'
    BY <1>1 DEF CallsOK, ListOK
  <1>5. NumbersOK'
    BY <1>1 DEF AgentOK, NumbersOK
  <1>6. OneAnswerEach'
    <2>1. Len(pipe) + Bit(agent.request # 0) + Len(answers) = strays
      BY <1>1 DEF AgentOK, OneAnswerEach, Bit, Types
    <2>2. Len(answers) \in Nat /\ Bit(agent.request # 0) \in {0, 1} /\ strays \in Nat
      BY <1>1 DEF Types, Bit
    <2>3. Bit(try' # 0) = 1
      BY <1>1 DEF Bit
    <2>4. PICK r \in Nat : r = Bit(agent.request # 0)
      BY <2>2
    <2>5. Len(pipe') + r + Len(answers) = 1 + strays
      BY SMTT(40), <1>2, <2>1, <2>2, <2>4
    <2>6. agent' = agent /\ answers' = answers /\ strays' = strays
      BY <1>1
    <2>7. Bit(agent'.request # 0) = r
      BY <2>4, <2>6
    <2> QED
      BY <2>3, <2>5, <2>6, <2>7 DEF OneAnswerEach
  <1>7. OwnOK'
    <2>1. strays = 0 => \A i \in 1 .. Len(pipe') : pipe'[i] = call
      BY <1>1, <1>2 DEF AgentOK, OwnOK
    <2> QED
      BY <1>1, <2>1 DEF AgentOK, OwnOK
  <1>8. AgentOK'
    BY <1>1, <1>5, <1>6, <1>7 DEF AgentOK
  <1>9. UNCHANGED RR!vars
    BY <1>1, AgentHidden
  <1> QED
    BY <1>1, <1>3, <1>4, <1>8, <1>9 DEF IInv

LEMMA AppReceiveKeeps ==
  ASSUME IInv, AppReceive
  PROVE  IInv' /\ [RR!Next]_(RR!vars)
  <1> PICK r : r = Head(answers)
    OBVIOUS
  <1>0. kind = "agent" /\ answers # <<>> /\ try # 0
    BY DEF AppReceive, IInv, TriesOK
  <1>1. /\ Types /\ CallsOK /\ ListOK(agent) /\ AgentOK /\ kind' = "agent"
        /\ results' = Append(results, r) /\ try' = 0
        /\ call' = (IF r = Failed THEN MaxCalls + 1 ELSE call + 1)
        /\ answers' = Tail(answers)
        /\ UNCHANGED <<kind, up, net, back, served, pipe, agent, silent, overdue, aborted, strays>>
        /\ Tries \in Nat \ {0} /\ MaxCalls \in Nat \ {0}
    BY <1>0, OrderFacts DEF AppReceive, Return, IInv, netVars
  <1>2. /\ call \in 1 .. MaxCalls /\ Len(results) = call - 1 /\ try \in 0 .. Tries
        /\ results \in Seq(0 .. MaxCalls)
    BY <1>0, <1>1 DEF Types, CallsOK
  <1>3. /\ r \in 0 .. MaxCalls /\ r = answers[1] /\ answers' \in Seq(0 .. MaxCalls)
        /\ Len(answers) \in Nat \ {0} /\ Len(answers') = Len(answers) - 1
    BY <1>0, <1>1, Headed DEF Types
  <1>4. /\ results' \in Seq(0 .. MaxCalls) /\ Len(results') = call
        /\ \A i \in 1 .. Len(results) : results'[i] = results[i]
        /\ results'[call] = r
    BY <1>1, <1>2, <1>3, Appended
  <1>5. Types'
    BY <1>1, <1>2, <1>3, <1>4 DEF Types
  <1>6. CallsOK'
    <2>1. call' <= MaxCalls => Len(results') = call' - 1
      BY <1>1, <1>2, <1>4
    <2>2. ASSUME strays = 0, NEW i \in 1 .. Len(results') PROVE results'[i] \in {i, Failed}
      <3>1. r \in {call, Failed} /\ \A j \in 1 .. Len(results) : results[j] \in {j, Failed}
        BY <1>1, <1>3, <2>2 DEF AgentOK, OwnOK, CallsOK
      <3>2. CASE i = call
        BY <1>4, <3>1, <3>2
      <3>3. CASE i # call
        <4>1. i \in 1 .. Len(results)
          BY <1>2, <1>4, <3>3
        <4> QED
          BY <1>4, <3>1, <4>1
      <3> QED
        BY <3>2, <3>3
    <2> QED
      BY <1>1, <2>1, <2>2 DEF CallsOK
  <1>7. ListOK(agent)' /\ NumbersOK'
    <2>1. agent' = agent /\ net' = net /\ back' = back /\ NumbersOK
      BY <1>1 DEF AgentOK
    <2> QED
      BY <1>1, <2>1 DEF ListOK, NumbersOK
  <1>8. OneAnswerEach'
    <2>1. Len(pipe) + Bit(agent.request # 0) + Len(answers) = 1 + strays
      BY <1>0, <1>1 DEF AgentOK, OneAnswerEach, Bit
    <2>2. Len(pipe) \in Nat /\ Bit(agent.request # 0) \in {0, 1} /\ strays \in Nat
      BY <1>1 DEF Types, Bit
    <2>3. Bit(try' # 0) = 0
      BY <1>1 DEF Bit
    <2> QED
      BY <1>1, <1>3, <2>1, <2>2, <2>3 DEF OneAnswerEach, Bit
  <1>9. OwnOK'
    <2>1. ASSUME strays = 0 PROVE pipe = <<>> /\ agent.request = 0 /\ Len(answers') = 0 /\ ~aborted
      BY <1>0, <1>1, <1>3, <2>1, OneAtATime DEF AgentOK, OwnOK
    <2> QED
      BY <1>1, <2>1 DEF OwnOK
  <1>10. AgentOK'
    BY <1>1, <1>7, <1>8, <1>9 DEF AgentOK
  <1>11. UNCHANGED RR!vars
    BY <1>0, <1>1, AgentHidden
  <1> QED
    BY <1>1, <1>5, <1>6, <1>7, <1>10, <1>11 DEF IInv

-----------------------------------------------------------------------------
(* The agent                                                               *)

NatBelow == OpToRel(<, Nat)

LEMMA LeastOfNaturals ==
  ASSUME NEW S \in SUBSET Nat, S # {}
  PROVE  \E x \in S : \A y \in S : x <= y
  <1>1. IsWellFoundedOn(NatBelow, Nat)
    BY NatLessThanWellFounded DEF NatBelow
  <1>2. PICK x \in S : \A y \in S : ~ (<<y, x>> \in NatBelow)
    BY <1>1, WFMin
  <1>3. \A y \in S : ~ (y < x)
    BY <1>2 DEF NatBelow, OpToRel
  <1> QED
    BY <1>3

LEMMA TakenFacts ==
  ASSUME agent \in Agents, pipe \in Seq(1 .. MaxCalls)
  PROVE  /\ Taken(agent) \in Agents
         /\ Taken(agent).actives = agent.actives /\ Taken(agent).alive = agent.alive
         /\ pipe = <<>> => Taken(agent) = agent
         /\ pipe # <<>> => /\ Taken(agent).request = pipe[1] /\ Taken(agent).sequence = pipe[1]
                           /\ pipe[1] \in 1 .. MaxCalls /\ Len(pipe) \in Nat \ {0}
  <1>1. CASE pipe = <<>>
    BY <1>1 DEF Taken
  <1>2. CASE pipe # <<>>
    <2>1. Head(pipe) = pipe[1] /\ pipe[1] \in 1 .. MaxCalls /\ Len(pipe) \in Nat \ {0}
      BY <1>2, Headed
    <2>2. pipe[1] \in 0 .. MaxCalls
      BY <2>1
    <2> QED
      BY <1>2, <2>1, <2>2 DEF Taken, Agents
  <1> QED
    BY <1>1, <1>2

\* A server that gives a sign of life is put on the list, if it was not known to be alive.
LEMMA HeardFacts ==
  ASSUME NEW a \in Agents, ListOK(a), NEW s \in Servers, NEW n \in Nat
  PROVE  /\ HeardFrom(a, s, n) \in Agents /\ ListOK(HeardFrom(a, s, n))
         /\ HeardFrom(a, s, n).sequence = a.sequence
         /\ HeardFrom(a, s, n).request = IF n = a.sequence THEN 0 ELSE a.request
  <1> PICK q : q = IF s \in a.alive THEN a.actives ELSE Append(a.actives, s)
    OBVIOUS
  <1> PICK b : b = HeardFrom(a, s, n)
    OBVIOUS
  <1>1. a.actives \in Seq(Servers) /\ a.alive \subseteq Servers /\ a.request \in 0 .. MaxCalls
    BY DEF Agents
  <1>2. q \in Seq(Servers) /\ 0 \in 0 .. MaxCalls
    BY <1>1, OrderFacts
  <1>3. /\ b.actives = q /\ b.alive = a.alive \cup {s} /\ b.sequence = a.sequence
        /\ b.request = (IF n = a.sequence THEN 0 ELSE a.request) /\ b \in Agents
    BY <1>1, <1>2 DEF HeardFrom, Agents
  <1>4. ListOK(b)
    <2>1. CASE s \in a.alive
      <3>1. b.actives = a.actives /\ b.alive = a.alive
        BY <1>3, <2>1
      <3> QED
        BY <3>1 DEF ListOK
    <2>2. CASE s \notin a.alive
      <3>1. /\ Len(q) = Len(a.actives) + 1 /\ Len(a.actives) \in Nat
            /\ \A i \in 1 .. Len(a.actives) : q[i] = a.actives[i]
            /\ q[Len(a.actives) + 1] = s
        BY <1>1, <2>2, Appended
      <3> SUFFICES ASSUME NEW t \in Servers
                   PROVE  LET at == {i \in 1 .. Len(q) : q[i] = t} IN
                          /\ t \in b.alive => at # {}
                          /\ t \notin b.alive => \A i, j \in at : i = j
                          /\ \A i, j, k \in at : i = j \/ j = k \/ i = k
        BY <1>3 DEF ListOK
      <3> DEFINE old == {i \in 1 .. Len(a.actives) : a.actives[i] = t}
                 at == {i \in 1 .. Len(q) : q[i] = t}
      <3>2. /\ t \in a.alive => old # {}
            /\ t \notin a.alive => \A i, j \in old : i = j
            /\ \A i, j, k \in old : i = j \/ j = k \/ i = k
        BY DEF ListOK
      <3>3. CASE t = s
        <4>1. at = old \cup {Len(a.actives) + 1}
          BY <3>1, <3>3
        <4>2. \A i, j \in old : i = j
          BY <2>2, <3>2, <3>3
        <4>3. \A i, j, k \in at : i = j \/ j = k \/ i = k
          <5> HIDE DEF old, at
          <5> QED
            BY <4>1, <4>2
        <4>4. t \in b.alive /\ at # {}
          BY <1>3, <3>3, <4>1
        <4> QED
          BY <4>3, <4>4
      <3>4. CASE t # s
        <4>1. at = old
          BY <3>1, <3>4
        <4>2. t \in b.alive <=> t \in a.alive
          BY <1>3, <3>4
        <4> QED
          BY <3>2, <4>1, <4>2
      <3> QED
        BY <3>3, <3>4
    <2> QED
      BY <2>1, <2>2
  <1> QED
    BY <1>3, <1>4

LEMMA Suffix ==
  ASSUME NEW S, NEW q \in Seq(S), NEW k \in 0 .. Len(q)
  PROVE  /\ SubSeq(q, k + 1, Len(q)) \in Seq(S) /\ Len(SubSeq(q, k + 1, Len(q))) = Len(q) - k
         /\ Len(q) \in Nat
         /\ \A i \in 1 .. Len(q) - k : SubSeq(q, k + 1, Len(q))[i] = q[k + i] /\ k + i \in 1 .. Len(q)
  <1>1. Len(q) \in Nat /\ k \in Nat /\ k <= Len(q) /\ \A i \in 1 .. Len(q) : q[i] \in S
    OBVIOUS
  <1>2. k + 1 \in Int /\ Len(q) \in Int /\ \A i \in k + 1 .. Len(q) : q[i] \in S
    BY <1>1
  <1>3. /\ SubSeq(q, k + 1, Len(q)) \in Seq(S)
        /\ Len(SubSeq(q, k + 1, Len(q))) = (IF k + 1 <= Len(q) THEN Len(q) - (k + 1) + 1 ELSE 0)
        /\ \A i \in 1 .. Len(q) - (k + 1) + 1 : SubSeq(q, k + 1, Len(q))[i] = q[k + 1 + i - 1]
    BY <1>2, SubSeqProperties
  <1>4. Len(SubSeq(q, k + 1, Len(q))) = Len(q) - k /\ Len(q) - (k + 1) + 1 = Len(q) - k
    BY <1>1, <1>3
  <1>5. \A i \in 1 .. Len(q) - k : k + 1 + i - 1 = k + i /\ k + i \in 1 .. Len(q)
    BY <1>1
  <1> QED
    BY <1>1, <1>3, <1>4, <1>5

\* There is a longest part of a list that is overdue.
LEMMA OverduePart ==
  ASSUME NEW q \in Seq(Servers), NEW late
  PROVE  \E i \in 0 .. Len(q) : /\ \A j \in 1 .. i : q[j] \in late
                                /\ i < Len(q) => q[i + 1] \notin late
  <1> DEFINE S == {i \in 0 .. Len(q) : i < Len(q) => q[i + 1] \notin late}
  <1>0. Len(q) \in Nat
    OBVIOUS
  <1>1. S \in SUBSET Nat /\ Len(q) \in S
    BY <1>0
  <1>2. PICK m \in S : \A i \in S : m <= i
    BY <1>1, LeastOfNaturals
  <1>3. ASSUME NEW j \in 1 .. m PROVE q[j] \in late
    <2>1. j - 1 \in 0 .. Len(q) /\ j - 1 < m /\ j - 1 < Len(q) /\ (j - 1) + 1 = j /\ m \in Nat
      BY <1>0, <1>2
    <2>2. j - 1 \notin S
      BY <1>2, <2>1
    <2> QED
      BY <2>1, <2>2
  <1> QED
    BY <1>2, <1>3

\* The servers taken off the head of the list are no longer known to be alive.
LEMMA CutList ==
  ASSUME NEW a \in Agents, ListOK(a), NEW b \in Agents, NEW k \in 0 .. Len(a.actives),
         b.actives = SubSeq(a.actives, k + 1, Len(a.actives)),
         b.alive = a.alive \ {a.actives[j] : j \in 1 .. k}
  PROVE  ListOK(b)
  <1> SUFFICES ASSUME NEW t \in Servers
               PROVE  LET at == {i \in 1 .. Len(b.actives) : b.actives[i] = t} IN
                      /\ t \in b.alive => at # {}
                      /\ t \notin b.alive => \A i, j \in at : i = j
                      /\ \A i, j, m \in at : i = j \/ j = m \/ i = m
    BY DEF ListOK
  <1> DEFINE old == {i \in 1 .. Len(a.actives) : a.actives[i] = t}
             at == {i \in 1 .. Len(b.actives) : b.actives[i] = t}
  <1>0. /\ t \in a.alive => old # {}
        /\ t \notin a.alive => \A i, j \in old : i = j
        /\ \A i, j, m \in old : i = j \/ j = m \/ i = m
    BY DEF ListOK
  <1>1. a.actives \in Seq(Servers) /\ k \in Nat
    BY DEF Agents
  <1>2. /\ Len(b.actives) = Len(a.actives) - k /\ Len(a.actives) \in Nat
        /\ \A i \in 1 .. Len(a.actives) - k :
             b.actives[i] = a.actives[k + i] /\ k + i \in 1 .. Len(a.actives)
    BY <1>1, Suffix
  <1>3. \A i \in at : k + i \in old /\ i \in Nat \ {0}
    BY <1>1, <1>2
  <1>4. \A i \in old : i \in Nat \ {0} /\ (i > k => i - k \in at)
    <2> SUFFICES ASSUME NEW i \in old PROVE i \in Nat \ {0} /\ (i > k => i - k \in at)
      OBVIOUS
    <2>1. i \in 1 .. Len(a.actives) /\ a.actives[i] = t
      OBVIOUS
    <2>2. i > k => i - k \in 1 .. Len(a.actives) - k /\ k + (i - k) = i
      BY <1>1, <1>2, <2>1
    <2> QED
      BY SMTT(40), <1>2, <2>1, <2>2
  <1>5. t \in b.alive => t \in a.alive /\ \A i \in old : i > k
    <2>1. \A i \in old : i \notin 1 .. k => i > k
      BY <1>1, <1>4
    <2> QED
      BY <2>1
  <1>6. t \notin b.alive => t \notin a.alive \/ \E m \in old : m <= k
    <2>1. \A m \in 1 .. k : a.actives[m] = t => m \in old /\ m <= k
      BY <1>1, <1>2
    <2> QED
      BY <2>1
  <1> HIDE DEF old, at
  <1>7. t \in b.alive => at # {}
    BY <1>0, <1>4, <1>5
  <1>8. ASSUME t \notin b.alive, NEW i \in at, NEW j \in at PROVE i = j
    <2>1. k + i \in old /\ k + j \in old /\ i \in Nat \ {0} /\ j \in Nat \ {0}
      BY <1>3, <1>8
    <2>2. k + i = k + j
      <3>1. CASE t \notin a.alive
        BY <1>0, <2>1, <3>1
      <3>2. ASSUME NEW m \in old, m <= k PROVE k + i = k + j
        <4>1. k + i # m /\ k + j # m
          BY <1>1, <1>4, <2>1, <3>2
        <4> QED
          BY <1>0, <2>1, <3>2, <4>1
      <3> QED
        BY <1>6, <1>8, <3>1, <3>2
    <2> QED
      BY <1>1, <2>1, <2>2
  <1>9. ASSUME NEW i \in at, NEW j \in at, NEW m \in at PROVE i = j \/ j = m \/ i = m
    <2>1. /\ k + i \in old /\ k + j \in old /\ k + m \in old
          /\ i \in Nat /\ j \in Nat /\ m \in Nat
      BY <1>3, <1>9
    <2>2. k + i = k + j \/ k + j = k + m \/ k + i = k + m
      BY <1>0, <2>1
    <2> QED
      BY <1>1, <2>1, <2>2
  <1> QED
    BY <1>7, <1>8, <1>9 DEF at

LEMMA TrimFacts ==
  ASSUME NEW a \in Agents, ListOK(a), NEW late
  PROVE  /\ Trimmed(a, late) \in Agents /\ ListOK(Trimmed(a, late))
         /\ Trimmed(a, late).sequence = a.sequence /\ Trimmed(a, late).request = a.request
  <1>1. a.actives \in Seq(Servers) /\ a.alive \subseteq Servers
    BY DEF Agents
  <1> DEFINE Cut(i) == /\ \A j \in 1 .. i : a.actives[j] \in late
                       /\ i < Len(a.actives) => a.actives[i + 1] \notin late
             k == CHOOSE i \in 0 .. Len(a.actives) : Cut(i)
  <1>2. \E i \in 0 .. Len(a.actives) : Cut(i)
    BY <1>1, OverduePart
  <1>3. k \in 0 .. Len(a.actives)
    <2> HIDE DEF Cut
    <2> QED
      BY <1>2
  <1>4. Trimmed(a, late) =
          [a EXCEPT !.actives = SubSeq(a.actives, k + 1, Len(a.actives)),
                    !.alive = a.alive \ {a.actives[j] : j \in 1 .. k}]
    BY DEF Trimmed
  <1> HIDE DEF k
  <1>5. SubSeq(a.actives, k + 1, Len(a.actives)) \in Seq(Servers)
    BY <1>1, <1>3, Suffix
  <1> PICK b : b = Trimmed(a, late)
    OBVIOUS
  <1>6. /\ b \in Agents /\ b.sequence = a.sequence /\ b.request = a.request
        /\ b.actives = SubSeq(a.actives, k + 1, Len(a.actives))
        /\ b.alive = a.alive \ {a.actives[j] : j \in 1 .. k}
    BY <1>1, <1>4, <1>5 DEF Agents
  <1>7. ListOK(b)
    BY <1>3, <1>6, CutList
  <1> QED
    BY <1>6, <1>7

\* A turn reads nothing, or a message of one server.
Reads(from) == from = {} \/ \E s \in Servers : from = {s} /\ back[s] # <<>>

\* What a turn makes of the agent: it says OK to an answer to the last request, gives up
\* a request that is too old, or neither.
Turned(ok, ended, a1) ==
  /\ a1 = Taken(agent)
  /\ agent' \in Agents /\ ListOK(agent') /\ agent'.sequence = a1.sequence
  /\ agent'.request = IF ok \/ ended THEN 0 ELSE a1.request
  /\ ended => ~ok /\ a1.request # 0
  /\ answers' = answers \o (IF ok THEN <<a1.sequence>> ELSE <<>>) \o (IF ended THEN <<Failed>> ELSE <<>>)
  /\ strays' = IF ok /\ a1.request = 0 THEN strays + 1 ELSE strays

LEMMA TurnAgent ==
  ASSUME Types, ListOK(agent), NEW due, NEW from, Reads(from), Turn(from, due)
  PROVE  \E ok, ended \in BOOLEAN : Turned(ok, ended, Taken(agent))
  <1> DEFINE a1 == Taken(agent)
             n == Head(back[CHOOSE s \in from : TRUE]).call
             a2 == IF from = {} THEN a1 ELSE HeardFrom(a1, CHOOSE s \in from : TRUE, n)
             ok == from # {} /\ n = a1.sequence
             late == silent \ from
             ended == a2.request # 0 /\ overdue /\ pipe = <<>>
             a3 == IF ended THEN [a2 EXCEPT !.request = 0]
                   ELSE IF a2.request # 0 THEN Trimmed(a2, late) ELSE a2
  <1>1. /\ agent' = a3
        /\ answers' = answers \o (IF ok THEN <<n>> ELSE <<>>) \o (IF ended THEN <<Failed>> ELSE <<>>)
        /\ strays' = IF ok /\ a1.request = 0 THEN strays + 1 ELSE strays
    BY DEF Turn
  <1>2. a1 \in Agents /\ ListOK(a1)
    <2>1. agent \in Agents /\ pipe \in Seq(1 .. MaxCalls)
      BY DEF Types
    <2>2. a1 \in Agents /\ a1.actives = agent.actives /\ a1.alive = agent.alive
      BY <2>1, TakenFacts
    <2> HIDE DEF a1
    <2> QED
      BY <2>2 DEF ListOK
  <1> HIDE DEF a1
  <1>3. /\ a2 \in Agents /\ ListOK(a2) /\ a2.sequence = a1.sequence
        /\ a2.request = IF ok THEN 0 ELSE a1.request
    <2>1. CASE from = {}
      BY <1>2, <2>1
    <2>2. ASSUME NEW s \in Servers, from = {s}, back[s] # <<>>
          PROVE  /\ a2 \in Agents /\ ListOK(a2) /\ a2.sequence = a1.sequence
                 /\ a2.request = IF ok THEN 0 ELSE a1.request
      <3>1. (CHOOSE x \in from : TRUE) = s
        BY <2>2
      <3>2. Head(back[s]) \in Messages
        <4>1. back[s] \in Seq(Messages)
          BY DEF Types
        <4> QED
          BY <2>2, <4>1, Headed
      <3>3. n = Head(back[s]).call
        BY <3>1
      <3>4. n \in Nat
        <4> PICK m \in Messages : m = Head(back[s])
          BY <3>2
        <4>1. m.call \in Nat
          BY OrderFacts DEF Messages
        <4> QED
          BY <3>3, <4>1
      <3> HIDE DEF n
      <3>5. a2 = HeardFrom(a1, s, n) /\ (ok <=> n = a1.sequence)
        BY <2>2, <3>1
      <3> HIDE DEF a2, ok
      <3> QED
        BY <1>2, <3>4, <3>5, HeardFacts
    <2> QED
      BY <2>1, <2>2 DEF Reads
  <1>4. /\ ok \in BOOLEAN /\ ended \in BOOLEAN /\ (ok => n = a1.sequence)
        /\ (ended => a2.request # 0)
    BY DEF Types
  <1> HIDE DEF ok, n, a2, ended
  <1>5. /\ a3 \in Agents /\ ListOK(a3) /\ a3.sequence = a2.sequence
        /\ a3.request = IF ended THEN 0 ELSE a2.request
    <2>1. CASE ended
      <3> PICK b : b = [a2 EXCEPT !.request = 0]
        OBVIOUS
      <3>0. a2 \in Agents /\ 0 \in 0 .. MaxCalls
        BY <1>3, OrderFacts
      <3>1. /\ b \in Agents /\ b.sequence = a2.sequence /\ b.request = 0
            /\ b.actives = a2.actives /\ b.alive = a2.alive
        BY <3>0 DEF Agents
      <3>2. ListOK(b)
        BY <1>3, <3>1 DEF ListOK
      <3>3. a3 = b
        BY <2>1
      <3> QED
        BY <2>1, <3>1, <3>2, <3>3
    <2>2. CASE ~ended
      <3>1. CASE a2.request # 0
        <4>1. a3 = Trimmed(a2, late)
          BY <2>2, <3>1
        <4> HIDE DEF a3, late
        <4> QED
          BY <1>3, <2>2, <4>1, TrimFacts
      <3>2. CASE a2.request = 0
        BY <1>3, <2>2, <3>2
      <3> QED
        BY <3>1, <3>2
    <2> QED
      BY <2>1, <2>2
  <1> HIDE DEF a3
  <1>6. /\ agent' \in Agents /\ ListOK(agent') /\ agent'.sequence = a1.sequence
        /\ agent'.request = IF ok \/ ended THEN 0 ELSE a1.request
        /\ ended => ~ok /\ a1.request # 0
    BY <1>1, <1>3, <1>4, <1>5
  <1>7. answers' = answers \o (IF ok THEN <<a1.sequence>> ELSE <<>>) \o (IF ended THEN <<Failed>> ELSE <<>>)
    BY <1>1, <1>4
  <1>8. Turned(ok, ended, a1)
    BY <1>1, <1>6, <1>7 DEF Turned, a1
  <1> QED
    BY <1>4, <1>8 DEF a1

\* The messages of a turn are no attempts, and those before the first request are none.
Ours(c) == [call |-> c, try |-> 0]

LEMMA RouteFacts ==
  ASSUME NEW queues \in [Servers -> Seq(Messages)], NEW s \in Servers, NEW c \in 0 .. MaxCalls
  PROVE  /\ Route(queues, s, Ours(c)) \in [Servers -> Seq(Messages)]
         /\ \A t \in Servers : \A i \in 1 .. Len(Route(queues, s, Ours(c))[t]) :
              \/ Route(queues, s, Ours(c))[t][i].try = 0
              \/ i \in 1 .. Len(queues[t]) /\ Route(queues, s, Ours(c))[t][i] = queues[t][i]
  <1> PICK m : m = Ours(c)
    OBVIOUS
  <1>1. m \in Messages /\ m.try = 0
    BY OrderFacts DEF Messages, Ours
  <1>2. /\ Post(queues, s, m) \in [Servers -> Seq(Messages)]
        /\ \A t \in Servers : t # s => Post(queues, s, m)[t] = queues[t]
        /\ \A i \in 1 .. Len(Post(queues, s, m)[s]) :
             Post(queues, s, m)[s][i] = m \/ (i \in 1 .. Len(queues[s]) /\ Post(queues, s, m)[s][i] = queues[s][i])
    BY <1>1, Posted
  <1>3. CASE s \in up
    BY <1>1, <1>2, <1>3 DEF Route
  <1>4. CASE s \notin up
    BY <1>1, <1>4 DEF Route
  <1> QED
    BY <1>3, <1>4

LEMMA TurnNet ==
  ASSUME Types, NumbersOK, NEW due, due = {} \/ due = Servers, NEW from, Reads(from),
         Turn(from, due), agent' \in Agents, ListOK(agent'),
         agent'.sequence = 0 => agent'.request = 0 /\ agent.sequence = 0 /\ due = {}
  PROVE  /\ net' \in [Servers -> Seq(Messages)] /\ back' \in [Servers -> Seq(Messages)]
         /\ NumbersOK'
  <1> DEFINE sent == IF agent'.request # 0 /\ agent'.actives # <<>>
                     THEN Route(net, Head(agent'.actives), Ours(agent'.request))
                     ELSE net
  <1>1. /\ net' = [s \in Servers |-> IF s \in due THEN Route(sent, s, Ours(0))[s]
                                     ELSE sent[s]]
        /\ back' = [s \in Servers |-> IF s \in from THEN Tail(back[s]) ELSE back[s]]
    <2> DEFINE a1 == Taken(agent)
               n == Head(back[CHOOSE s \in from : TRUE]).call
               a2 == IF from = {} THEN a1 ELSE HeardFrom(a1, CHOOSE s \in from : TRUE, n)
               late == silent \ from
               ended == a2.request # 0 /\ overdue /\ pipe = <<>>
               a3 == IF ended THEN [a2 EXCEPT !.request = 0]
                     ELSE IF a2.request # 0 THEN Trimmed(a2, late) ELSE a2
               posted == IF a3.request # 0 /\ a3.actives # <<>>
                         THEN Route(net, Head(a3.actives), [call |-> a3.request, try |-> 0]) ELSE net
    <2>1. /\ agent' = a3
          /\ net' = [s \in Servers |-> IF s \in due THEN Route(posted, s, [call |-> 0, try |-> 0])[s]
                                       ELSE posted[s]]
          /\ back' = [s \in Servers |-> IF s \in from THEN Tail(back[s]) ELSE back[s]]
      BY DEF Turn
    <2> HIDE DEF a3
    <2>2. posted = sent
      BY <2>1 DEF Ours
    <2> HIDE DEF posted, sent
    <2> QED
      BY <2>1, <2>2 DEF Ours
  <1>2. net \in [Servers -> Seq(Messages)] /\ back \in [Servers -> Seq(Messages)]
    BY DEF Types
  <1>3. /\ sent \in [Servers -> Seq(Messages)]
        /\ \A t \in Servers : \A i \in 1 .. Len(sent[t]) : sent[t][i].try = 0
        /\ agent'.request = 0 => sent = net
    <2>1. CASE agent'.request # 0 /\ agent'.actives # <<>>
      <3>1. Head(agent'.actives) \in Servers /\ agent'.request \in 0 .. MaxCalls
        BY <2>1, Headed DEF Agents
      <3>2. /\ sent \in [Servers -> Seq(Messages)]
            /\ \A t \in Servers : \A i \in 1 .. Len(sent[t]) :
                 sent[t][i].try = 0 \/ (i \in 1 .. Len(net[t]) /\ sent[t][i] = net[t][i])
        BY <1>2, <2>1, <3>1, RouteFacts
      <3> QED
        BY <2>1, <3>2 DEF NumbersOK
    <2>2. CASE ~(agent'.request # 0 /\ agent'.actives # <<>>)
      BY <1>2, <2>2 DEF NumbersOK
    <2> QED
      BY <2>1, <2>2
  <1> HIDE DEF sent
  <1>4. ASSUME NEW t \in Servers
        PROVE  net'[t] \in Seq(Messages) /\ \A i \in 1 .. Len(net'[t]) : net'[t][i].try = 0
    <2>1. CASE t \in due
      <3> PICK q : q = Route(sent, t, Ours(0))
        OBVIOUS
      <3>1. /\ q \in [Servers -> Seq(Messages)]
            /\ \A i \in 1 .. Len(q[t]) :
                 q[t][i].try = 0 \/ (i \in 1 .. Len(sent[t]) /\ q[t][i] = sent[t][i])
        <4>1. 0 \in 0 .. MaxCalls
          BY OrderFacts
        <4>2. PICK z \in 0 .. MaxCalls : z = 0
          BY <4>1
        <4>3. /\ Route(sent, t, Ours(z)) \in [Servers -> Seq(Messages)]
              /\ \A i \in 1 .. Len(Route(sent, t, Ours(z))[t]) :
                   \/ Route(sent, t, Ours(z))[t][i].try = 0
                   \/ i \in 1 .. Len(sent[t]) /\ Route(sent, t, Ours(z))[t][i] = sent[t][i]
          BY <1>3, RouteFacts
        <4> QED
          BY <4>2, <4>3
      <3>2. net'[t] = q[t]
        BY <1>1, <2>1
      <3> QED
        BY <1>3, <3>1, <3>2
    <2>2. CASE t \notin due
      BY <1>1, <1>3, <2>2
    <2> QED
      BY <2>1, <2>2
  <1>5. ASSUME NEW t \in Servers
        PROVE  back'[t] \in Seq(Messages) /\ \A i \in 1 .. Len(back'[t]) : back'[t][i].try = 0
    <2>1. CASE t \in from
      <3>1. back[t] # <<>> /\ back[t] \in Seq(Messages) /\ back'[t] = Tail(back[t])
        BY <1>1, <1>2, <2>1 DEF Reads
      <3>2. /\ Tail(back[t]) \in Seq(Messages)
            /\ \A i \in 1 .. Len(Tail(back[t])) :
                 Tail(back[t])[i] = back[t][i + 1] /\ i + 1 \in 1 .. Len(back[t])
        BY <3>1, Headed
      <3> QED
        BY <3>1, <3>2 DEF NumbersOK
    <2>2. CASE t \notin from
      BY <1>1, <1>2, <2>2 DEF NumbersOK
    <2> QED
      BY <2>1, <2>2
  <1>6. ASSUME agent'.sequence = 0, NEW t \in Servers PROVE net'[t] = <<>> /\ back'[t] = <<>>
    <2>1. net[t] = <<>> /\ \A s \in Servers : back[s] = <<>>
      BY <1>6 DEF NumbersOK
    <2>2. from = {} /\ due = {} /\ sent = net
      BY <1>3, <1>6, <2>1 DEF Reads
    <2> QED
      BY <1>1, <2>1, <2>2
  <1> QED
    BY <1>1, <1>4, <1>5, <1>6 DEF NumbersOK

\* What a turn puts in the pipe of the answers: one of them, or none.
LEMMA OneAnswer ==
  ASSUME NEW S, NEW q \in Seq(S), NEW x \in S, NEW r,
         r = (q \o <<x>>) \o <<>> \/ r = (q \o <<>>) \o <<x>>
  PROVE  /\ r \in Seq(S) /\ Len(q) \in Nat /\ Len(r) = Len(q) + 1
         /\ \A i \in 1 .. Len(q) : r[i] = q[i]
         /\ r[Len(q) + 1] = x
  <1>1. Append(q, x) = q \o <<x>> /\ q \o <<>> = q
    BY AppendIsConcat, ConcatEmptySeq
  <1>2. Append(q, x) \in Seq(S) /\ Append(q, x) \o <<>> = Append(q, x)
    BY Appended, ConcatEmptySeq
  <1>3. r = Append(q, x)
    BY <1>1, <1>2
  <1> QED
    BY <1>3, Appended

LEMMA NoAnswer ==
  ASSUME NEW S, NEW q \in Seq(S)
  PROVE  (q \o <<>>) \o <<>> = q
  BY ConcatEmptySeq

LEMMA PipeFacts ==
  ASSUME pipe \in Seq(1 .. MaxCalls), pipe' = SubSeq(pipe, 2, Len(pipe))
  PROVE  /\ pipe' \in Seq(1 .. MaxCalls) /\ Len(pipe) \in Nat
         /\ pipe = <<>> => Len(pipe) = 0 /\ Len(pipe') = 0
         /\ pipe # <<>> => Len(pipe') = Len(pipe) - 1 /\ 1 \in 1 .. Len(pipe)
         /\ \A i \in 1 .. Len(pipe') : \E j \in 1 .. Len(pipe) : pipe'[i] = pipe[j]
  <1>1. CASE pipe = <<>>
    BY <1>1
  <1>2. CASE pipe # <<>>
    <2>1. 1 \in 0 .. Len(pipe) /\ 1 + 1 = 2 /\ 1 \in 1 .. Len(pipe)
      BY <1>2
    <2>2. /\ SubSeq(pipe, 1 + 1, Len(pipe)) \in Seq(1 .. MaxCalls)
          /\ Len(SubSeq(pipe, 1 + 1, Len(pipe))) = Len(pipe) - 1 /\ Len(pipe) \in Nat
          /\ \A i \in 1 .. Len(pipe) - 1 :
               SubSeq(pipe, 1 + 1, Len(pipe))[i] = pipe[1 + i] /\ 1 + i \in 1 .. Len(pipe)
      <3> PICK k \in 0 .. Len(pipe) : k = 1
        BY <2>1
      <3>1. /\ SubSeq(pipe, k + 1, Len(pipe)) \in Seq(1 .. MaxCalls)
            /\ Len(SubSeq(pipe, k + 1, Len(pipe))) = Len(pipe) - k /\ Len(pipe) \in Nat
            /\ \A i \in 1 .. Len(pipe) - k :
                 SubSeq(pipe, k + 1, Len(pipe))[i] = pipe[k + i] /\ k + i \in 1 .. Len(pipe)
        BY Suffix
      <3> QED
        BY <3>1
    <2> QED
      BY <1>2, <2>1, <2>2
  <1> QED
    BY <1>1, <1>2

LEMMA TurnKeeps ==
  ASSUME IInv, kind = "agent", NEW due, due = {} \/ due = Servers, NEW from, Reads(from),
         agent.sequence = 0 => due = {}, pipe # <<>> => agent.request = 0,
         Turn(from, due), UNCHANGED <<kind, up, served, callVars, aborted>>
  PROVE  IInv'
  <1>1. /\ Types /\ CallsOK /\ ListOK(agent) /\ NumbersOK /\ OneAnswerEach /\ OwnOK
        /\ agent.request # 0 => agent.request = agent.sequence
        /\ pipe \in Seq(1 .. MaxCalls) /\ answers \in Seq(0 .. MaxCalls) /\ agent \in Agents
        /\ strays \in Nat
    BY DEF IInv, AgentOK, Types
  <1>2. PICK ok \in BOOLEAN, ended \in BOOLEAN : Turned(ok, ended, Taken(agent))
    BY <1>1, TurnAgent
  <1> PICK a1 : a1 = Taken(agent)
    OBVIOUS
  <1>3. /\ agent' \in Agents /\ ListOK(agent') /\ agent'.sequence = a1.sequence
        /\ agent'.request = (IF ok \/ ended THEN 0 ELSE a1.request)
        /\ ended => ~ok /\ a1.request # 0
        /\ answers' = answers \o (IF ok THEN <<a1.sequence>> ELSE <<>>)
                              \o (IF ended THEN <<Failed>> ELSE <<>>)
        /\ strays' = IF ok /\ a1.request = 0 THEN strays + 1 ELSE strays
    BY <1>2 DEF Turned
  <1>4. /\ a1 \in Agents /\ a1.sequence \in 0 .. MaxCalls /\ a1.request \in 0 .. MaxCalls
        /\ pipe = <<>> => a1 = agent
        /\ pipe # <<>> => a1.request = pipe[1] /\ a1.sequence = pipe[1] /\ pipe[1] \in 1 .. MaxCalls
    BY <1>1, TakenFacts DEF Agents
  <1>5. a1.request # 0 => a1.request = a1.sequence
    BY <1>1, <1>4
  <1>6. /\ pipe' = SubSeq(pipe, 2, Len(pipe)) /\ silent' = silent \ from
        /\ overdue' \in BOOLEAN
    BY DEF Turn
  <1>7. /\ pipe' \in Seq(1 .. MaxCalls) /\ Len(pipe) \in Nat
        /\ pipe = <<>> => Len(pipe) = 0 /\ Len(pipe') = 0
        /\ pipe # <<>> => Len(pipe') = Len(pipe) - 1 /\ 1 \in 1 .. Len(pipe)
        /\ \A i \in 1 .. Len(pipe') : \E j \in 1 .. Len(pipe) : pipe'[i] = pipe[j]
    BY <1>1, <1>6, PipeFacts
  <1>8. /\ answers' \in Seq(0 .. MaxCalls) /\ Len(answers) \in Nat
        /\ Len(answers') = (IF ok \/ ended THEN Len(answers) + 1 ELSE Len(answers))
        /\ \A i \in 1 .. Len(answers) : answers'[i] = answers[i]
        /\ ok => answers'[Len(answers) + 1] = a1.sequence
        /\ ended => answers'[Len(answers) + 1] = Failed
    <2>1. Failed \in 0 .. MaxCalls
      BY OrderFacts DEF Failed
    <2>2. PICK x \in 0 .. MaxCalls : x = a1.sequence
      BY <1>4
    <2>3. CASE ok
      <3>1. ~ended /\ answers' = (answers \o <<x>>) \o <<>>
        BY <1>3, <2>2, <2>3
      <3>2. /\ answers' \in Seq(0 .. MaxCalls) /\ Len(answers) \in Nat
            /\ Len(answers') = Len(answers) + 1
            /\ \A i \in 1 .. Len(answers) : answers'[i] = answers[i]
            /\ answers'[Len(answers) + 1] = x
        BY <1>1, <3>1, OneAnswer
      <3> QED
        BY <2>2, <2>3, <3>1, <3>2
    <2>4. CASE ended
      <3>1. ~ok /\ answers' = (answers \o <<>>) \o <<Failed>>
        BY <1>3, <2>4
      <3>2. /\ answers' \in Seq(0 .. MaxCalls) /\ Len(answers) \in Nat
            /\ Len(answers') = Len(answers) + 1
            /\ \A i \in 1 .. Len(answers) : answers'[i] = answers[i]
            /\ answers'[Len(answers) + 1] = Failed
        BY <1>1, <2>1, <3>1, OneAnswer
      <3> QED
        BY <2>4, <3>1, <3>2
    <2>5. CASE ~ok /\ ~ended
      <3>1. answers' = (answers \o <<>>) \o <<>>
        BY <1>3, <2>5
      <3>2. answers' = answers
        BY <1>1, <3>1, NoAnswer
      <3>3. Len(answers) \in Nat
        BY <1>1
      <3> QED
        BY <1>1, <2>5, <3>2, <3>3
    <2> QED
      BY <2>3, <2>4, <2>5
  <1>9. /\ net' \in [Servers -> Seq(Messages)] /\ back' \in [Servers -> Seq(Messages)]
        /\ NumbersOK'
    <2>1. agent'.sequence = 0 => agent'.request = 0 /\ agent.sequence = 0 /\ due = {}
      <3> SUFFICES ASSUME agent'.sequence = 0
                   PROVE  agent'.request = 0 /\ agent.sequence = 0 /\ due = {}
        OBVIOUS
      <3>1. a1.sequence = 0 /\ a1.request = 0
        BY <1>3, <1>5
      <3>2. agent'.request = 0
        BY <1>3, <3>1
      <3>3. pipe = <<>>
        <4>1. 0 \notin 1 .. MaxCalls
          BY OrderFacts
        <4> QED
          BY <1>4, <3>1, <4>1
      <3> QED
        BY <1>4, <3>1, <3>2, <3>3
    <2> QED
      BY <1>1, <1>3, <2>1, TurnNet
  <1>10. UNCHANGED <<kind, up, served, call, try, results, aborted>>
    BY DEF callVars
  <1>11. strays' \in Nat /\ (strays' = 0 => strays = 0)
    BY <1>1, <1>3
  <1>12. Types'
    BY <1>1, <1>3, <1>6, <1>7, <1>8, <1>9, <1>10, <1>11 DEF Types
  <1>13. CallsOK'
    BY <1>1, <1>10, <1>11 DEF CallsOK
  <1>14. OneAnswerEach'
    <2>1. (IF try # 0 THEN 1 ELSE 0) \in Nat
      OBVIOUS
    <2>2. PICK t \in Nat, p \in Nat, q \in Nat, s \in Nat :
            t = (IF try # 0 THEN 1 ELSE 0) /\ p = Len(pipe) /\ q = Len(answers) /\ s = strays
      BY <1>1, <1>7, <1>8, <2>1
    <2>3. /\ p + (IF agent.request # 0 THEN 1 ELSE 0) + q = t + s
          /\ Len(pipe') + (IF agent'.request # 0 THEN 1 ELSE 0) + Len(answers') = t + strays'
             => OneAnswerEach'
      BY <1>1, <1>10, <2>2 DEF OneAnswerEach, Bit
    <2>4. CASE pipe # <<>>
      <3>1. agent.request = 0
        BY <2>4
      <3>2. a1.request # 0 /\ strays' = s
        <4>1. 0 \notin 1 .. MaxCalls
          BY OrderFacts
        <4>2. a1.request # 0
          BY <1>4, <2>4, <4>1
        <4> QED
          BY <1>3, <2>2, <4>2
      <3>3. p + q = t + s
        BY <2>2, <2>3, <3>1
      <3>4. Len(pipe') = p - 1
        BY <1>7, <2>2, <2>4
      <3>5. CASE ok \/ ended
        <4>1. Len(answers') = q + 1 /\ agent'.request = 0
          BY <1>3, <1>8, <2>2, <3>5
        <4> QED
          BY <2>3, <3>2, <3>3, <3>4, <4>1
      <3>6. CASE ~ok /\ ~ended
        <4>1. Len(answers') = q /\ agent'.request # 0
          BY <1>3, <1>8, <2>2, <3>2, <3>6
        <4> QED
          BY <2>3, <3>2, <3>3, <3>4, <4>1
      <3> QED
        BY <3>5, <3>6
    <2>5. CASE pipe = <<>>
      <3>1. a1 = agent /\ p = 0 /\ Len(pipe') = 0
        BY <1>4, <1>7, <2>2, <2>5
      <3>2. PICK b \in Nat : b = (IF agent.request # 0 THEN 1 ELSE 0)
        OBVIOUS
      <3>3. b + q = t + s
        BY <2>2, <2>3, <3>1, <3>2
      <3>4. CASE ok
        <4>1. Len(answers') = q + 1 /\ agent'.request = 0
          BY <1>3, <1>8, <2>2, <3>4
        <4>2. strays' = s + 1 - b
          BY <1>3, <2>2, <3>1, <3>2, <3>4
        <4> QED
          BY <2>2, <2>3, <3>1, <3>3, <4>1, <4>2
      <3>5. CASE ended
        <4>1. Len(answers') = q + 1 /\ agent'.request = 0
          BY <1>3, <1>8, <2>2, <3>5
        <4>2. strays' = s /\ b = 1
          BY <1>3, <2>2, <3>1, <3>2, <3>5
        <4> QED
          BY <2>2, <2>3, <3>1, <3>3, <4>1, <4>2
      <3>6. CASE ~ok /\ ~ended
        <4>1. Len(answers') = q /\ agent'.request = agent.request /\ strays' = s
          BY <1>3, <1>8, <2>2, <3>1, <3>6
        <4> QED
          BY <2>2, <2>3, <3>1, <3>2, <3>3, <4>1
      <3> QED
        BY <3>4, <3>5, <3>6
    <2> QED
      BY <2>4, <2>5
  <1>15. OwnOK'
    <2> SUFFICES ASSUME strays' = 0
                 PROVE  /\ ~aborted /\ agent'.request \in {0, call}
                        /\ \A i \in 1 .. Len(pipe') : pipe'[i] = call
                        /\ \A i \in 1 .. Len(answers') : answers'[i] \in {call, Failed}
      BY <1>10 DEF OwnOK
    <2>1. /\ ~aborted /\ agent.request \in {0, call}
          /\ \A i \in 1 .. Len(pipe) : pipe[i] = call
          /\ \A i \in 1 .. Len(answers) : answers[i] \in {call, Failed}
      BY <1>1, <1>11 DEF OwnOK
    <2>2. a1.request \in {0, call}
      BY <1>4, <1>7, <2>1
    <2>3. ok => a1.sequence = call
      <3>1. ok => a1.request # 0
        BY <1>1, <1>3
      <3> QED
        BY <1>5, <2>2, <3>1
    <2>4. ASSUME NEW i \in 1 .. Len(answers') PROVE answers'[i] \in {call, Failed}
      <3>1. CASE i \in 1 .. Len(answers)
        BY <1>8, <2>1, <3>1
      <3>2. CASE i \notin 1 .. Len(answers)
        <4>1. i = Len(answers) + 1 /\ (ok \/ ended)
          BY <1>8, <3>2
        <4> QED
          BY <1>8, <2>3, <4>1
      <3> QED
        BY <3>1, <3>2
    <2>5. agent'.request \in {0, call}
      BY <1>3, <2>2
    <2>6. \A i \in 1 .. Len(pipe') : pipe'[i] = call
      BY <1>7, <2>1
    <2> QED
      BY <2>1, <2>4, <2>5, <2>6
  <1>16. AgentOK'
    <2>1. agent'.request # 0 => agent'.request = agent'.sequence
      BY <1>3, <1>5
    <2> QED
      BY <1>9, <1>14, <1>15, <2>1 DEF AgentOK
  <1> QED
    BY <1>3, <1>10, <1>12, <1>13, <1>16 DEF IInv

LEMMA AgentTurnKeeps ==
  ASSUME IInv, AgentTurn
  PROVE  IInv' /\ [RR!Next]_(RR!vars)
  <1>1. /\ kind = "agent" /\ UNCHANGED <<kind, up, served, callVars>>
    BY DEF AgentTurn
  <1>2. PICK due \in {{}, Servers}, from \in {{}} \cup {{s} : s \in Servers} :
          /\ \A s \in from : back[s] # <<>>
          /\ agent.sequence = 0 => due = {}
          /\ IF pipe # <<>> /\ agent.request # 0
             THEN aborted' = TRUE /\ UNCHANGED <<net, back, pipe, answers, agent, silent,
                                                 overdue, strays>>
             ELSE Turn(from, due) /\ UNCHANGED aborted
    BY DEF AgentTurn
  <1>3. Reads(from)
    BY <1>2 DEF Reads
  <1>4. UNCHANGED RR!vars
    BY <1>1, AgentHidden
  <1>5. CASE pipe # <<>> /\ agent.request # 0
    <2>1. /\ Types /\ CallsOK /\ ListOK(agent) /\ AgentOK
          /\ aborted' = TRUE
          /\ UNCHANGED <<kind, up, served, call, try, results, net, back, pipe, answers, agent,
                         silent, overdue, strays>>
      BY <1>1, <1>2, <1>5 DEF IInv, callVars
    <2>2. strays # 0
      BY <1>1, <1>5, OneAtATime
    <2>3. Types'
      BY <2>1 DEF Types
    <2>4. CallsOK' /\ ListOK(agent)'
      BY <2>1 DEF CallsOK, ListOK
    <2>5. AgentOK'
      BY <2>1, <2>2 DEF AgentOK, NumbersOK, OneAnswerEach, OwnOK
    <2> QED
      BY <1>1, <1>4, <2>3, <2>4, <2>5 DEF IInv
  <1>6. CASE ~(pipe # <<>> /\ agent.request # 0)
    <2>1. Turn(from, due) /\ UNCHANGED aborted
      BY <1>2, <1>6
    <2>2. IInv'
      BY <1>1, <1>2, <1>3, <1>6, <2>1, TurnKeeps
    <2> QED
      BY <1>4, <2>2
  <1> QED
    BY <1>5, <1>6

-----------------------------------------------------------------------------
(* All steps together                                                      *)

LEMMA NextKeeps ==
  ASSUME IInv, [Next]_vars
  PROVE  IInv' /\ [RR!Next]_(RR!vars)
  <1>1. CASE UNCHANGED vars
    <2>1. UNCHANGED <<kind, up, net, back, served, call, try, results, pipe, answers, agent,
                      silent, overdue, aborted, strays>>
      BY <1>1 DEF vars, netVars, callVars, agentVars
    <2>2. /\ Types' /\ CallsOK' /\ ListOK(agent)'
          /\ AgentOK => AgentOK'
      BY <2>1 DEF IInv, Types, CallsOK, ListOK, AgentOK, NumbersOK, OneAnswerEach, OwnOK
    <2>3. TriesOK => TriesOK'
      BY <2>1 DEF TriesOK, WaitingOK, ServedOK, Made
    <2>4. IInv'
      BY <2>1, <2>2, <2>3 DEF IInv
    <2>5. UNCHANGED RR!vars
      BY <2>1 DEF RR!vars
    <2> QED
      BY <2>4, <2>5
  <1>2. CASE Request
    BY <1>2, RequestKeeps
  <1>3. CASE Timeout
    BY <1>3, TimeoutKeeps
  <1>4. CASE AppRequest
    BY <1>4, AppRequestKeeps
  <1>5. CASE AppReceive
    BY <1>5, AppReceiveKeeps
  <1>6. CASE AgentTurn
    BY <1>6, AgentTurnKeeps
  <1>7. CASE RequestExpires
    BY <1>7, ExpireKeeps
  <1>8. ASSUME NEW s \in Servers, Answer(s) PROVE IInv' /\ [RR!Next]_(RR!vars)
    BY <1>8, AnswerKeeps
  <1>9. ASSUME NEW s \in Servers, Server(s) PROVE IInv' /\ [RR!Next]_(RR!vars)
    BY <1>9, ServerKeeps
  <1>10. ASSUME NEW s \in Servers, Kill(s) \/ StartAgain(s)
         PROVE  IInv' /\ [RR!Next]_(RR!vars)
    BY <1>10, KillKeeps
  <1>11. ASSUME NEW s \in Servers, Expire(s) PROVE IInv' /\ [RR!Next]_(RR!vars)
    BY <1>11, ExpireKeeps
  <1> QED
    BY <1>1, <1>2, <1>3, <1>4, <1>5, <1>6, <1>7, <1>8, <1>9, <1>10, <1>11 DEF Next, Step

LEMMA InitiallyHidden == Init => RR!Init
  <1> SUFFICES ASSUME Init PROVE RR!Init
    OBVIOUS
  <1>1. call = 1 /\ try = 0 /\ results = <<>> /\ served = [a \in Attempts |-> 0]
    BY DEF Init
  <1>2. [i \in DOMAIN results |-> IF results[i] = Failed THEN "none" ELSE "reply"] = <<>>
    BY <1>1
  <1> QED
    BY <1>1, <1>2, RRAttempts DEF RR!Init

\* How often a server is on the list.
LEMMA OnTheList ==
  ASSUME Types, ListOK(agent), NEW s \in Servers
  PROVE  /\ Count(s) <= (IF s \in agent.alive THEN 2 ELSE 1)
         /\ s \in agent.alive => Count(s) > 0
  <1> DEFINE at == {i \in 1 .. Len(agent.actives) : agent.actives[i] = s}
  <1>1. Len(agent.actives) \in Nat /\ DOMAIN agent.actives = 1 .. Len(agent.actives)
    BY DEF Types, Agents
  <1>2. Count(s) = Cardinality(at)
    BY <1>1 DEF Count
  <1>3. IsFiniteSet(at) /\ Cardinality(at) \in Nat
    <2>1. IsFiniteSet(1 .. Len(agent.actives))
      BY <1>1, FS_Interval
    <2> QED
      BY <2>1, FS_Subset, FS_CardinalityType
  <1>4. /\ s \in agent.alive => at # {}
        /\ s \notin agent.alive => \A i, j \in at : i = j
        /\ \A i, j, k \in at : i = j \/ j = k \/ i = k
    BY DEF ListOK
  <1> HIDE DEF at
  <1>5. at # {} => Cardinality(at) > 0
    BY <1>3, FS_EmptySet
  <1>6. (\A i, j \in at : i = j) => Cardinality(at) <= 1
    <2> SUFFICES ASSUME \A i, j \in at : i = j PROVE Cardinality(at) <= 1
      OBVIOUS
    <2>1. CASE at = {}
      BY <2>1, FS_EmptySet
    <2>2. ASSUME NEW i \in at PROVE Cardinality(at) <= 1
      <3>1. at = {i}
        OBVIOUS
      <3>2. Cardinality({i}) = 1
        BY FS_Singleton
      <3> QED
        BY <3>1, <3>2
    <2> QED
      BY <2>1, <2>2
  <1>7. Cardinality(at) <= 2
    <2>1. CASE \A i, j \in at : i = j
      BY <1>3, <1>6, <2>1
    <2>2. ASSUME NEW i \in at, NEW j \in at, i # j PROVE Cardinality(at) <= 2
      <3>1. at = {i} \cup {j}
        BY <1>4, <2>2
      <3>2. IsFiniteSet({i}) /\ Cardinality({i}) = 1
        BY FS_Singleton
      <3>3. Cardinality({i} \cup {j}) = 2
        BY <2>2, <3>2, FS_AddElement
      <3> QED
        BY <3>1, <3>3
    <2> QED
      BY <2>1, <2>2
  <1> QED
    BY <1>2, <1>3, <1>4, <1>5, <1>6, <1>7

LEMMA AnswersAreConsistent == IInv => AnswersConsistent
  <1> SUFFICES ASSUME IInv PROVE AnswersConsistent
    OBVIOUS
  <1>1. Types /\ CallsOK /\ ListOK(agent) /\ (kind # "agent" => TriesOK)
        /\ (kind = "agent" => AgentOK)
    BY DEF IInv
  <1>2. TypeOK
    <2>1. ASSUME NEW s \in Servers
          PROVE  /\ net[s] \in Seq([call : 0 .. MaxCalls, try : 0 .. Tries])
                 /\ back[s] \in Seq([call : 0 .. MaxCalls, try : 0 .. Tries])
      BY <1>1 DEF Types, Messages
    <2>2. ASSUME NEW s \in Servers
          PROVE  /\ Count(s) <= (IF s \in agent.alive THEN 2 ELSE 1)
                 /\ s \in agent.alive => Count(s) > 0
      BY <1>1, OnTheList
    <2>3. agent.request \in 0 .. MaxCalls /\ agent.sequence \in 0 .. MaxCalls
      BY <1>1 DEF Types, Agents
    <2> QED
      BY <1>1, <2>1, <2>2, <2>3 DEF TypeOK, Types
  <1>3. OneAnswerEach
    BY <1>1 DEF AgentOK, OneAnswerEach
  <1>4. OwnAnswers
    <2>1. strays = 0 => ~aborted
      BY <1>1 DEF AgentOK, OwnOK, TriesOK
    <2>2. DOMAIN results = 1 .. Len(results)
      BY <1>1 DEF Types
    <2> QED
      BY <1>1, <2>1, <2>2 DEF OwnAnswers, CallsOK
  <1> QED
    BY <1>2, <1>3, <1>4 DEF AnswersConsistent

\* flcliapi.c:236, 243, 274, 282 and 337: every request has one answer coming, besides the
\* OKs for late copies; without those the strict cycle holds and each call gets its own
\* answer, and the list holds a server twice at most.
THEOREM AnswersAlwaysConsistent == Spec => []AnswersConsistent
  <1>1. Init => IInv
    BY Initially
  <1>2. IInv /\ [Next]_vars => IInv'
    BY NextKeeps
  <1>3. IInv => AnswersConsistent
    BY AnswersAreConsistent
  <1> QED
    BY <1>1, <1>2, <1>3, PTL DEF Spec

\* flclient1.c:31 and flclient2.c:22: an answer is returned only to a call of which a
\* server took an attempt, every attempt is served once at most, and a client ends only
\* after its last timeout.  Servers may be killed and started again at any time.
THEOREM FreelanceImplementsRequestReply == Spec => ImplementsRequestReply
  <1>1. Init => IInv /\ RR!Init
    BY Initially, InitiallyHidden
  <1>2. IInv /\ [Next]_vars => IInv' /\ [RR!Next]_(RR!vars)
    BY NextKeeps
  <1> QED
    BY <1>1, <1>2, PTL DEF Spec, ImplementsRequestReply, RR!Spec
=============================================================================
