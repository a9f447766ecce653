---------------------------- MODULE RequestReply ----------------------------
(***************************************************************************)
(* What the request-reply patterns of src/zmq/C promise their clients: a   *)
(* client makes its calls one by one, tries each a few times, and gets     *)
(* either a reply to that very call or, when all tries failed, nothing,    *)
(* and then it stops.  Each try is served at most once; a call may be      *)
(* served by several tries.  Majordomo, Pirate and Freelance implement it. *)
(***************************************************************************)
EXTENDS Naturals, Sequences

CONSTANTS
  Clients,
  Calls,    \* [Clients -> Seq(any)], what each client calls
  Retries   \* attempts before a client gives up

VARIABLES
  call,     \* [Clients -> Nat], the call a client is in
  try,      \* [Clients -> Nat], its attempt, 0 between calls
  results,  \* [Clients -> Seq of what was returned]
  served    \* [Attempts -> Nat], how often an attempt was served

vars == <<call, try, results, served>>

Attempts ==
  [client : Clients, call : UNION {DOMAIN Calls[c] : c \in Clients}, try : 1 .. Retries]

\* Attempt a was made; of an earlier call it is not known how many there were.
Made(a) ==
  \/ a.call < call[a.client]
  \/ a.call = call[a.client] /\ a.try <= try[a.client]

Init ==
  /\ call = [c \in Clients |-> 1]
  /\ try = [c \in Clients |-> 0]
  /\ results = [c \in Clients |-> <<>>]
  /\ served = [a \in Attempts |-> 0]

Try(c) ==
  /\ call[c] <= Len(Calls[c]) /\ try[c] < Retries
  /\ try' = [try EXCEPT ![c] = @ + 1]
  /\ UNCHANGED <<call, results, served>>

Serve(a) ==
  /\ Made(a) /\ served[a] = 0
  /\ served' = [served EXCEPT ![a] = 1]
  /\ UNCHANGED <<call, try, results>>

Answered(c) == \E a \in Attempts : a.client = c /\ a.call = call[c] /\ served[a] > 0

Return(c, r) ==
  /\ try[c] # 0 /\ Answered(c)
  /\ results' = [results EXCEPT ![c] = Append(@, r)]
  /\ call' = [call EXCEPT ![c] = @ + 1]
  /\ try' = [try EXCEPT ![c] = 0]
  /\ UNCHANGED served

Abandon(c) ==
  /\ try[c] = Retries
  /\ results' = [results EXCEPT ![c] = Append(@, "none")]
  /\ call' = [call EXCEPT ![c] = Len(Calls[c]) + 1]
  /\ try' = [try EXCEPT ![c] = 0]
  /\ UNCHANGED served

Client(c) == Try(c) \/ Abandon(c) \/ \E r \in {"200", "404", "reply"} : Return(c, r)

Next == (\E c \in Clients : Client(c)) \/ (\E a \in Attempts : Serve(a))

Spec == Init /\ [][Next]_vars

\* A client does not hang: it goes on until its calls are made.
FairSpec == Spec /\ \A c \in Clients : WF_vars(Client(c))
=============================================================================
