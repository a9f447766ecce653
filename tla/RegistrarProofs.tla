--------------------------- MODULE RegistrarProofs ---------------------------
(* Proofs about registration, for every number of publishers and clients,   *)
(* every hash and every list of paths.                                      *)
EXTENDS Registrar, FiniteSetTheorems, WellFoundedInduction, TLAPS

-----------------------------------------------------------------------------
(* What a lookup in the ring returns, for every set of publishers and      *)
(* every hash                                                              *)

NatBelow == OpToRel(<, Nat)

\* A non-empty set of hashes has a least one, and Least picks it.
LEMMA LeastOfNaturals ==
  ASSUME NEW S \in SUBSET Nat, S # {}
  PROVE  Least(S) \in S /\ \A y \in S : Least(S) <= y
<1>1. IsWellFoundedOn(NatBelow, Nat)
  BY NatLessThanWellFounded DEF NatBelow
<1>2. PICK x \in S : \A y \in S : ~ (<<y, x>> \in NatBelow)
  BY <1>1, WFMin
<1>3. \A a, b \in Nat : a < b => <<a, b>> \in NatBelow
  BY DEF NatBelow, OpToRel
<1>4. \A y \in S : x <= y
  <2>1. TAKE y \in S
  <2>2. x \in Nat /\ y \in Nat
    OBVIOUS
  <2>3. ~(y < x)
    BY <1>2, <1>3, <2>2
  <2> QED
    BY <2>2, <2>3
<1> QED
  BY <1>4 DEF Least

\* The item a lookup stops at is an item of the ring.
LEMMA NextItemInRing ==
  ASSUME NEW R \in SUBSET Publishers, R # {}, NEW point \in Nat
  PROVE  /\ Items(R) \in SUBSET Nat
         /\ NextItem(R, point) \in Items(R)
<1>1. Items(R) \in SUBSET Nat /\ Items(R) # {}
  BY HashRingAssumption DEF Items
<1> DEFINE higher == {x \in Items(R) : x > point}
<1>2. CASE higher # {}
  <2>1. higher \in SUBSET Nat
    BY <1>1
  <2>2. Least(higher) \in higher
    BY <1>2, <2>1, LeastOfNaturals
  <2> QED
    BY <1>1, <1>2, <2>2 DEF NextItem
<1>3. CASE higher = {}
  <2>1. Least(Items(R)) \in Items(R)
    BY <1>1, LeastOfNaturals
  <2> QED
    BY <1>1, <1>3, <2>1 DEF NextItem
<1> QED
  BY <1>2, <1>3

\* hash_ring_find_node on a ring that holds a publisher returns one of its
\* publishers, so node->name (registrar.c:48, dispatcher.c:118) exists.
THEOREM FindNodeInRing ==
  ASSUME NEW R \in SUBSET Publishers, R # {}, NEW key \in Keys
  PROVE  FindNode(R, key) \in R
<1>1. KeyPoint[key] \in Nat
  BY HashRingAssumption
<1>2. NextItem(R, KeyPoint[key]) \in Items(R)
  BY <1>1, NextItemInRing
<1>3. \E p \in R : NextItem(R, KeyPoint[key]) \in ItemsOf[p]
  BY <1>2 DEF Items
<1> QED
  BY <1>3 DEF FindNode

\* The node found owns the item the lookup stopped at, and is the only one.
LEMMA FindNodeOwner ==
  ASSUME NEW R \in SUBSET Publishers, R # {}, NEW key \in Keys,
         NEW p \in R, NextItem(R, KeyPoint[key]) \in ItemsOf[p]
  PROVE  FindNode(R, key) = p
<1>1. /\ FindNode(R, key) \in R
      /\ NextItem(R, KeyPoint[key]) \in ItemsOf[FindNode(R, key)]
  BY DEF FindNode
<1> QED
  BY <1>1, HashRingAssumption

\* Consistent hashing: when the ring grows from R to S, a key that is still
\* owned by a publisher of R is owned by the same one as before.
THEOREM GrowthKeepsOwners ==
  ASSUME NEW S \in SUBSET Publishers, NEW R \in SUBSET S, R # {},
         NEW key \in Keys, FindNode(S, key) \in R
  PROVE  FindNode(S, key) = FindNode(R, key)
<1> DEFINE h == KeyPoint[key]
           n == NextItem(S, h)
           p == FindNode(S, key)
           hS == {x \in Items(S) : x > h}
           hR == {x \in Items(R) : x > h}
<1>1. h \in Nat
  BY HashRingAssumption
<1>2. n \in Items(S) /\ Items(S) \in SUBSET Nat /\ Items(S) # {}
  BY <1>1, NextItemInRing
<1>3. Items(R) \in SUBSET Nat /\ Items(R) # {} /\ Items(R) \subseteq Items(S)
  BY <1>1, NextItemInRing DEF Items
<1>4. n \in ItemsOf[p]
  BY <1>2 DEF Items, FindNode
<1>5. n \in Items(R)
  BY <1>4 DEF Items
<1>6. hS \in SUBSET Nat /\ hR \in SUBSET Nat /\ hR \subseteq hS
  BY <1>2, <1>3
<1>7. NextItem(R, h) = n
  <2>1. CASE hS # {}
    <3>1. n = Least(hS)
      BY <2>1 DEF NextItem
    <3>2. n \in hS /\ \A y \in hS : n <= y
      BY <1>6, <2>1, <3>1, LeastOfNaturals
    <3>3. n \in hR /\ hR # {}
      BY <1>5, <3>2
    <3>4. Least(hR) \in hR /\ \A y \in hR : Least(hR) <= y
      BY <1>6, <3>3, LeastOfNaturals
    <3>5. Least(hR) = n
      BY SMTT(40), <1>6, <3>2, <3>3, <3>4
    <3> QED
      BY <3>3, <3>5 DEF NextItem
  <2>2. CASE hS = {}
    <3>1. n = Least(Items(S)) /\ hR = {}
      BY <1>6, <2>2 DEF NextItem
    <3>2. \A y \in Items(S) : n <= y
      BY <1>2, <3>1, LeastOfNaturals
    <3>3. Least(Items(R)) \in Items(R) /\ \A y \in Items(R) : Least(Items(R)) <= y
      BY <1>3, LeastOfNaturals
    <3>4. Least(Items(R)) = n
      BY <1>2, <1>3, <1>5, <3>2, <3>3
    <3> QED
      BY <3>1, <3>4 DEF NextItem
  <2> QED
    BY <2>1, <2>2
<1> QED
  BY <1>4, <1>7, FindNodeOwner

-----------------------------------------------------------------------------
(* Registration                                                            *)

Watched == {f \in Names : watches[f] # NoAnswer}

\* The request and reply sockets in lockstep: a client in the queue of the
\* registrar or being served is blocked in its call, and is in one place.
LockstepInv ==
  /\ \A c \in Clients : c \in requests => cpc[c] = "wait" /\ peer # c
  /\ \A c \in Clients : peer = c => cpc[c] = "wait"
  /\ \A c \in Clients : cpc[c] # "idle" => Calling(c)
  /\ rpc \in {"reply_publisher", "notify", "add"} => peer \in Publishers
  /\ rpc \in {"ask", "await", "reply_client"} => peer \in Clients
  /\ rpc = "recv" => peer = Nobody

TypeInv == TypeOK /\ LockstepInv /\ IsFiniteSet(Watched)

\* A path a client is asking for.
LEMMA PathIsName ==
  ASSUME TypeInv, NEW c \in Clients, cpc[c] # "idle"
  PROVE  Path(c) \in Names
<1>1. next[c] \in 1 .. Len(Wanted[c])
  BY RegistrarAssumption DEF TypeInv, TypeOK, LockstepInv, Calling
<1> QED
  BY <1>1, RegistrarAssumption DEF Path

\* A listing of publishers that are in the table came from a ring that holds
\* some, and lists publishers of that ring.
LEMMA ChoicesInRing ==
  ASSUME NEW R \in SUBSET Publishers, NEW f \in Names
  PROVE  /\ R # {} => Choices(R, f) \subseteq R
         /\ Choices(R, f) \subseteq Publishers => R # {}
<1>1. ASSUME R # {} PROVE Choices(R, f) \subseteq R
  <2>1. \A i \in Instances : Key(f, i, TRUE) \in Keys
    BY DEF Key, Keys
  <2> QED
    BY <1>1, <2>1, FindNodeInRing DEF Choices
<1>2. ASSUME R = {} PROVE ~(Choices(R, f) \subseteq Publishers)
  <2>1. 1 \in Instances
    BY HashRingAssumption DEF Instances
  <2>2. FindNode(R, Key(f, 1, TRUE)) = NoPublisher
    BY <1>2 DEF FindNode
  <2> QED
    BY <2>1, <2>2, HashRingAssumption DEF Choices
<1> QED
  BY <1>1, <1>2

LEMMA InitTypeInv == Init => TypeInv
<1> SUFFICES ASSUME Init PROVE TypeInv
  OBVIOUS
<1>1. TypeOK
  BY DEF Init, TypeOK, RegistrarLabels, PublisherLabels, ClientLabels, Ids, NoAnswer,
     Nobody
<1>2. LockstepInv
  BY RegistrarAssumption DEF Init, LockstepInv, Nobody
<1>3. Watched = {}
  BY DEF Init, Watched
<1> QED
  BY <1>1, <1>2, <1>3, FS_EmptySet DEF TypeInv

\* A new watch leaves finitely many.
LEMMA AddWatchType ==
  ASSUME TypeInv, AddWatch
  PROVE  /\ answer' \in Ids
         /\ watches' \in [Names -> Nat]
         /\ IsFiniteSet(Watched')
<1>1. /\ asked \in Names
      /\ watches \in [Names -> Nat]
      /\ IsFiniteSet(Watched)
  BY DEF AddWatch, TypeInv, TypeOK
<1>2. CASE asked \in Missing
  <2>1. answer' = WatchFailed /\ watches' = watches
    BY <1>2 DEF AddWatch
  <2> QED
    BY <1>1, <2>1 DEF Watched, Ids
<1>3. CASE asked \notin Missing
  <2>1. Cardinality(Watched) \in Nat
    BY <1>1, FS_CardinalityType
  <2>2. FreshWd \in Nat
    BY <2>1 DEF FreshWd, Watched
  <2>3. PICK wd \in Nat : answer' = wd /\ watches' = [watches EXCEPT ![asked] = wd]
    BY <1>1, <1>3, <2>2 DEF AddWatch
  <2>4. Watched' \subseteq Watched \cup {asked}
    BY <1>1, <2>3 DEF Watched
  <2>5. IsFiniteSet(Watched \cup {asked})
    BY <1>1, FS_AddElement
  <2>6. IsFiniteSet(Watched')
    BY <2>4, <2>5, FS_Subset
  <2> QED
    BY <1>1, <2>3, <2>6 DEF Ids
<1> QED
  BY <1>2, <1>3

LEMMA StepTypeInv == TypeInv /\ [Next]_vars => TypeInv'
<1> SUFFICES ASSUME TypeInv, [Next]_vars PROVE TypeInv'
  OBVIOUS
<1> USE RegistrarAssumption, HashRingAssumption
        DEF TypeInv, TypeOK, LockstepInv, Watched, RegistrarLabels, PublisherLabels,
        ClientLabels, RegistrarGoto, registrarVars, proxyVars, clientVars, Peers,
        Calling, Nobody
<1>1. ASSUME NEW x \in Peers, RecvRegistration(x) PROVE TypeInv'
  BY <1>1 DEF RecvRegistration
<1>2. CASE ReplyPublisher
  BY <1>2 DEF ReplyPublisher
<1>3. CASE NotifyDispatchers
  BY <1>3 DEF NotifyDispatchers
<1>4. CASE AddPublisher
  BY <1>4 DEF AddPublisher
<1>5. CASE AskProxy
  <2>1. asked' \in Names
    BY <1>5, PathIsName DEF AskProxy
  <2> QED
    BY <1>5, <2>1 DEF AskProxy
<1>6. CASE RecvId
  BY <1>6 DEF RecvId
<1>7. CASE ReplyClient
  <2>1. peer \in Clients /\ cpc[peer] = "wait" /\ Path(peer) \in Names
    BY <1>7, PathIsName DEF ReplyClient
  <2> DEFINE found == Choices(ring, Path(peer))
  <2>2. found \in SUBSET Publishers
    BY <1>7 DEF ReplyClient
  <2>3. [path |-> Path(peer), id |-> answer, publishers |-> found, ring |-> ring]
          \in Grants
    BY <2>1, <2>2 DEF Grants
  <2> HIDE DEF found
  <2>4. granted' \in [Clients -> SUBSET Grants] /\ todo' \in [Clients -> SUBSET Publishers]
    BY <1>7, <2>1, <2>2, <2>3 DEF ReplyClient, found
  <2> QED
    BY <1>7, <2>1, <2>4 DEF ReplyClient, Ids, NoAnswer
<1>8. CASE ReplyCrash
  BY <1>8 DEF ReplyCrash
<1>9. CASE AddWatch
  <2>1. /\ answer' \in Ids
        /\ watches' \in [Names -> Nat]
        /\ IsFiniteSet(Watched')
    BY <1>9, AddWatchType
  <2> QED
    BY <1>9, <2>1 DEF AddWatch
<1>10. CASE ProxyDies
  BY <1>10 DEF ProxyDies
<1>11. ASSUME NEW p \in Publishers, RegisterPublisher(p) PROVE TypeInv'
  BY <1>11 DEF RegisterPublisher
<1>12. ASSUME NEW c \in Clients, CallSubscribe(c) PROVE TypeInv'
  BY <1>12 DEF CallSubscribe
<1>13. ASSUME NEW c \in Clients, ReturnFromSubscribe(c) PROVE TypeInv'
  BY <1>13 DEF ReturnFromSubscribe
<1>14. ASSUME NEW c \in Clients, NEW q \in Publishers, SubscribeAt(c, q) PROVE TypeInv'
  BY <1>14 DEF SubscribeAt
<1>15. ASSUME NEW c \in Clients, NEW f \in filters[c], RouteFilter(c, f[1], f[2])
      PROVE  TypeInv'
  BY <1>15 DEF RouteFilter
<1>16. CASE UNCHANGED vars
  BY <1>16 DEF vars
<1> QED
  BY <1>1, <1>2, <1>3, <1>4, <1>5, <1>6, <1>7, <1>8, <1>9, <1>10, <1>11, <1>12, <1>13, <1>14, <1>15, <1>16
     DEF Next, RegistrarThread, Client, Network

\* Every variable of registration stays in its type.
THEOREM TypeCorrect == Spec => []TypeOK
<1>1. TypeInv => TypeOK
  BY DEF TypeInv
<1> QED
  BY <1>1, InitTypeInv, StepTypeInv, PTL DEF Spec

-----------------------------------------------------------------------------
(* What a client is subscribed to, as the ring grows                        *)

\* What the registrar answered stays true of the ring it was computed from, and
\* rsubscribe has set, or still has to set, every filter of an answer.
GrantInv ==
  \A c \in Clients : \A g \in granted[c] :
    /\ g.ring \subseteq ring
    /\ g.ring # {}
    /\ g.publishers = Choices(g.ring, g.path)

FilterInv ==
  \A c \in Clients : \A g \in granted[c] : \A p \in g.publishers :
    \/ <<p, g.id>> \in filters[c]
    \/ cpc[c] = "subscribe" /\ id[c] = g.id /\ p \in todo[c]

CoverInv == TypeInv /\ GrantInv /\ FilterInv

LEMMA InitCoverInv == Init => CoverInv
  BY InitTypeInv DEF Init, CoverInv, GrantInv, FilterInv

\* The answer of this step, for the client being served.
Reply == [path |-> Path(peer), id |-> answer,
          publishers |-> Choices(ring, Path(peer)), ring |-> ring]

LEMMA ReplyKeepsCover ==
  ASSUME CoverInv, ReplyClient
  PROVE  GrantInv' /\ FilterInv'
<1> USE DEF CoverInv, TypeInv, TypeOK
<1>1. peer \in Clients /\ cpc[peer] = "wait" /\ Path(peer) \in Names
  BY PathIsName DEF ReplyClient, RegistrarGoto, LockstepInv
<1>2. Choices(ring, Path(peer)) \subseteq Publishers
  BY DEF ReplyClient
<1>3. ring # {}
  BY <1>1, <1>2, ChoicesInRing
<1>4. /\ granted' = [granted EXCEPT ![peer] = @ \cup {Reply}]
      /\ todo' = [todo EXCEPT ![peer] = Choices(ring, Path(peer))]
      /\ id' = [id EXCEPT ![peer] = answer]
      /\ cpc' = [cpc EXCEPT ![peer] = "subscribe"]
      /\ UNCHANGED <<ring, filters>>
  BY DEF ReplyClient, Reply
<1>5. /\ Reply.ring = ring
      /\ Reply.publishers = Choices(ring, Path(peer))
      /\ Reply.path = Path(peer)
      /\ Reply.id = answer
  BY DEF Reply
<1>6. ASSUME NEW c \in Clients, NEW g \in granted'[c]
      PROVE  g \in granted[c] \/ (c = peer /\ g = Reply)
  BY <1>1, <1>4, <1>6
<1>7. GrantInv'
  <2>1. SUFFICES ASSUME NEW c \in Clients, NEW g \in granted'[c]
                 PROVE  /\ g.ring \subseteq ring
                        /\ g.ring # {}
                        /\ g.publishers = Choices(g.ring, g.path)
    BY <1>4 DEF GrantInv, Choices
  <2> QED
    BY <1>3, <1>5, <1>6 DEF GrantInv
<1>8. FilterInv'
  <2>1. SUFFICES ASSUME NEW c \in Clients, NEW g \in granted'[c],
                        NEW p \in g.publishers
                 PROVE  \/ <<p, g.id>> \in filters[c]
                        \/ cpc'[c] = "subscribe" /\ id'[c] = g.id /\ p \in todo'[c]
    BY <1>4 DEF FilterInv
  <2>2. CASE c = peer /\ g = Reply
    BY <1>1, <1>4, <1>5, <2>2
  <2>3. CASE g \in granted[c] /\ c = peer
    BY <1>1, <2>3 DEF FilterInv
  <2>4. CASE g \in granted[c] /\ c # peer
    BY <1>1, <1>4, <2>4 DEF FilterInv
  <2> QED
    BY <1>6, <2>2, <2>3, <2>4
<1> QED
  BY <1>7, <1>8

\* A step that answers nobody: the ring may grow and filters may be added.
LEMMA QuietStepKeepsGrants ==
  ASSUME CoverInv, UNCHANGED granted, ring \subseteq ring'
  PROVE  GrantInv'
  BY DEF CoverInv, GrantInv, Choices

LEMMA StepCoverInv == CoverInv /\ [Next]_vars => CoverInv'
<1> SUFFICES ASSUME CoverInv, [Next]_vars PROVE CoverInv'
  OBVIOUS
<1>1. TypeInv'
  BY StepTypeInv DEF CoverInv
<1>2. CASE ReplyClient
  BY <1>1, <1>2, ReplyKeepsCover DEF CoverInv
<1>3. CASE /\ ~ReplyClient
           /\ UNCHANGED <<granted, todo, id, filters, cpc>>
           /\ ring \subseteq ring'
  BY <1>1, <1>3, QuietStepKeepsGrants DEF CoverInv, FilterInv
<1>4. ASSUME NEW c \in Clients, NEW q \in Publishers, SubscribeAt(c, q) PROVE CoverInv'
  <2>1. UNCHANGED granted /\ ring \subseteq ring'
    BY <1>4 DEF SubscribeAt, registrarVars
  <2>2. FilterInv'
    <3>1. SUFFICES ASSUME NEW e \in Clients, NEW g \in granted[e], NEW p \in g.publishers
                   PROVE  \/ <<p, g.id>> \in filters'[e]
                          \/ cpc'[e] = "subscribe" /\ id'[e] = g.id /\ p \in todo'[e]
      BY <2>1 DEF FilterInv
    <3>2. \/ <<p, g.id>> \in filters[e]
          \/ cpc[e] = "subscribe" /\ id[e] = g.id /\ p \in todo[e]
      BY DEF CoverInv, FilterInv
    <3>3. UNCHANGED <<id, cpc>> /\ filters' = [filters EXCEPT ![c] = @ \cup {<<q, id[c]>>}]
             /\ todo' = [todo EXCEPT ![c] = @ \ {q}]
      BY <1>4 DEF SubscribeAt
    <3>4. CASE e = c
      BY <3>2, <3>3, <3>4 DEF CoverInv, TypeInv, TypeOK
    <3>5. CASE e # c
      BY <3>2, <3>3, <3>5 DEF CoverInv, TypeInv, TypeOK
    <3> QED
      BY <3>4, <3>5
  <2> QED
    BY <1>1, <2>1, <2>2, QuietStepKeepsGrants DEF CoverInv
<1>5. ASSUME NEW c \in Clients, ReturnFromSubscribe(c) PROVE CoverInv'
  <2>1. UNCHANGED granted /\ ring \subseteq ring'
    BY <1>5 DEF ReturnFromSubscribe, registrarVars
  <2>2. FilterInv'
    <3>1. SUFFICES ASSUME NEW e \in Clients, NEW g \in granted[e], NEW p \in g.publishers
                   PROVE  \/ <<p, g.id>> \in filters'[e]
                          \/ cpc'[e] = "subscribe" /\ id'[e] = g.id /\ p \in todo'[e]
      BY <2>1 DEF FilterInv
    <3>2. \/ <<p, g.id>> \in filters[e]
          \/ cpc[e] = "subscribe" /\ id[e] = g.id /\ p \in todo[e]
      BY DEF CoverInv, FilterInv
    <3>3. UNCHANGED <<id, filters, todo>> /\ cpc' = [cpc EXCEPT ![c] = "idle"]
             /\ todo[c] = {}
      BY <1>5 DEF ReturnFromSubscribe
    <3>4. CASE e = c
      BY <3>2, <3>3, <3>4
    <3>5. CASE e # c
      BY <3>2, <3>3, <3>5 DEF CoverInv, TypeInv, TypeOK
    <3> QED
      BY <3>4, <3>5
  <2> QED
    BY <1>1, <2>1, <2>2, QuietStepKeepsGrants DEF CoverInv
<1>6. ASSUME NEW c \in Clients, CallSubscribe(c) PROVE CoverInv'
  <2>1. UNCHANGED granted /\ ring \subseteq ring'
    BY <1>6 DEF CallSubscribe, registrarVars
  <2>2. FilterInv'
    <3>1. SUFFICES ASSUME NEW e \in Clients, NEW g \in granted[e], NEW p \in g.publishers
                   PROVE  \/ <<p, g.id>> \in filters'[e]
                          \/ cpc'[e] = "subscribe" /\ id'[e] = g.id /\ p \in todo'[e]
      BY <2>1 DEF FilterInv
    <3>2. \/ <<p, g.id>> \in filters[e]
          \/ cpc[e] = "subscribe" /\ id[e] = g.id /\ p \in todo[e]
      BY DEF CoverInv, FilterInv
    <3>3. UNCHANGED <<id, filters, todo>> /\ cpc' = [cpc EXCEPT ![c] = "wait"]
             /\ cpc[c] = "idle"
      BY <1>6 DEF CallSubscribe
    <3>4. CASE e = c
      BY <3>2, <3>3, <3>4
    <3>5. CASE e # c
      BY <3>2, <3>3, <3>5 DEF CoverInv, TypeInv, TypeOK
    <3> QED
      BY <3>4, <3>5
  <2> QED
    BY <1>1, <2>1, <2>2, QuietStepKeepsGrants DEF CoverInv
<1>7. ASSUME RegistrarThread \/ AddWatch \/ ProxyDies \/ UNCHANGED vars \/ Network
             \/ \E p \in Publishers : RegisterPublisher(p),
             ~ReplyClient
      PROVE  UNCHANGED <<granted, todo, id, filters, cpc>> /\ ring \subseteq ring'
  BY <1>7 DEF RegistrarThread, RecvRegistration, ReplyPublisher, NotifyDispatchers,
     AddPublisher, AskProxy, RecvId, ReplyCrash, AddWatch, ProxyDies,
     RegisterPublisher, Network, RouteFilter, vars, registrarVars, clientVars
<1> QED
  BY <1>2, <1>3, <1>4, <1>5, <1>6, <1>7 DEF Next, Client

\* Consistent hashing is what keeps clients subscribed: when publishers join,
\* an instance of a path moves to one that joined or stays where it was, so a
\* client between calls has a filter at every publisher that may carry its
\* events, except at those that registered after it was answered.
THEOREM SubscriptionsOutliveJoins == Spec => []OnlyJoinersUnheard
<1>1. CoverInv => OnlyJoinersUnheard
  <2> SUFFICES ASSUME CoverInv, NEW c \in Clients, cpc[c] = "idle",
                      NEW g \in granted[c], NEW p \in Choices(ring, g.path) \cap g.ring
               PROVE  <<p, g.id>> \in filters[c]
    BY DEF OnlyJoinersUnheard
  <2>1. g \in Grants
    BY DEF CoverInv, TypeInv, TypeOK
  <2>2. g.path \in Names /\ g.ring \in SUBSET ring /\ g.ring # {}
    BY <2>1 DEF CoverInv, GrantInv, Grants
  <2>3. PICK i \in Instances : p = FindNode(ring, Key(g.path, i, TRUE))
    BY DEF Choices
  <2>4. Key(g.path, i, TRUE) \in Keys
    BY <2>2 DEF Key, Keys
  <2>5. p = FindNode(g.ring, Key(g.path, i, TRUE))
    BY <2>2, <2>3, <2>4, GrowthKeepsOwners DEF CoverInv, TypeInv, TypeOK
  <2>6. p \in g.publishers
    BY <2>5 DEF Choices, CoverInv, GrantInv
  <2> QED
    BY <2>6 DEF CoverInv, FilterInv
<1> QED
  BY <1>1, InitCoverInv, StepCoverInv, PTL DEF Spec

-----------------------------------------------------------------------------
(* The registrar's lookups                                                  *)

Serving == \E p \in Publishers : ppc[p] = "serving"

\* A publisher that has been answered is in both tables, but for the moments
\* in which the registrar serves nobody else.
AcceptedInv ==
  /\ ring = table
  /\ \A p \in Publishers : ppc[p] = "serving" =>
       p \in ring \/ (peer = p /\ rpc \in {"notify", "add"})
  /\ \A c \in Clients : cpc[c] # "idle" => Serving

StaysUp == rpc # "crashed"

ServedInv == TypeInv /\ AcceptedInv /\ StaysUp

LEMMA InitServedInv == Init => ServedInv
  BY InitTypeInv DEF Init, ServedInv, AcceptedInv, StaysUp

\* Whoever is listed for a client is in the table.
LEMMA NoReplyCrash ==
  ASSUME ServedInv PROVE ~ReplyCrash
<1> SUFFICES ASSUME ReplyCrash PROVE FALSE
  OBVIOUS
<1>1. /\ peer \in Clients
      /\ cpc[peer] = "wait"
      /\ rpc = "reply_client"
  BY DEF ReplyCrash, RegistrarGoto, ServedInv, TypeInv, LockstepInv
<1>2. PICK p \in Publishers : ppc[p] = "serving"
  BY <1>1 DEF ServedInv, AcceptedInv, Serving
<1>3. p \in ring /\ ring \in SUBSET Publishers /\ ring = table
  BY <1>1, <1>2 DEF ServedInv, AcceptedInv, TypeInv, TypeOK
<1>4. Path(peer) \in Names
  BY <1>1, PathIsName DEF ServedInv
<1> QED
  BY <1>3, <1>4, ChoicesInRing DEF ReplyCrash

LEMMA StepServedInv ==
  ASSUME PublishersFirst PROVE ServedInv /\ [Next]_vars => ServedInv'
<1> SUFFICES ASSUME ServedInv, [Next]_vars PROVE ServedInv'
  OBVIOUS
<1>1. TypeInv'
  BY StepTypeInv DEF ServedInv
<1> USE DEF ServedInv, AcceptedInv, StaysUp, Serving, TypeInv, TypeOK,
        RegistrarGoto, registrarVars, proxyVars, clientVars
<1>2. ASSUME NEW x \in Peers, RecvRegistration(x) PROVE ServedInv'
  BY <1>1, <1>2 DEF RecvRegistration
<1>3. CASE ReplyPublisher
  <2>1. peer \in Publishers
    BY <1>3 DEF ReplyPublisher, LockstepInv
  <2> QED
    BY <1>1, <1>3, <2>1 DEF ReplyPublisher
<1>4. CASE NotifyDispatchers
  BY <1>1, <1>4 DEF NotifyDispatchers
<1>5. CASE AddPublisher
  BY <1>1, <1>5 DEF AddPublisher
<1>6. CASE AskProxy \/ RecvId
  BY <1>1, <1>6 DEF AskProxy, RecvId
<1>7. CASE ReplyClient
  <2>1. peer \in Clients /\ cpc[peer] = "wait"
    BY <1>7 DEF ReplyClient, LockstepInv
  <2>2. Serving
    BY <2>1
  <2> QED
    BY <1>1, <1>7, <2>2 DEF ReplyClient
<1>8. CASE ReplyCrash
  BY <1>8, NoReplyCrash
<1>9. CASE AddWatch \/ ProxyDies \/ Network
  BY <1>1, <1>9 DEF AddWatch, ProxyDies, Network, RouteFilter
<1>10. ASSUME NEW p \in Publishers, RegisterPublisher(p) PROVE ServedInv'
  BY <1>1, <1>10 DEF RegisterPublisher
<1>11. ASSUME NEW c \in Clients, CallSubscribe(c) PROVE ServedInv'
  BY <1>1, <1>11 DEF CallSubscribe
<1>12. ASSUME NEW c \in Clients, ReturnFromSubscribe(c) PROVE ServedInv'
  BY <1>1, <1>12 DEF ReturnFromSubscribe
<1>13. ASSUME NEW c \in Clients, NEW p \in Publishers, SubscribeAt(c, p) PROVE ServedInv'
  BY <1>1, <1>13 DEF SubscribeAt
<1>14. CASE UNCHANGED vars
  BY <1>1, <1>14 DEF vars
<1> QED
  BY <1>2, <1>3, <1>4, <1>5, <1>6, <1>7, <1>8, <1>9, <1>10, <1>11, <1>12, <1>13,
     <1>14 DEF Next, RegistrarThread, Client

\* When clients start after a publisher was accepted, the registrar never
\* follows a NULL node (registrar.c:48), although a publisher is answered before
\* it is added.
THEOREM RegistrarStaysUp ==
  ASSUME PublishersFirst PROVE Spec => []StaysUp
<1>1. ServedInv /\ [Next]_vars => ServedInv'
  BY StepServedInv
<1>2. ServedInv => StaysUp
  BY DEF ServedInv
<1> QED
  BY <1>1, <1>2, InitServedInv, PTL DEF Spec

\* Without the premise: the two tables always name the same publishers, and the
\* registrar is the only one to change them.
TablesInv == TypeInv /\ ring = table /\ RegistrarNeverCrashes

LEMMA InitTablesInv == Init => TablesInv
  BY InitTypeInv DEF Init, TablesInv, RegistrarNeverCrashes

LEMMA ReplyCrashNeedsEmptyRing ==
  ASSUME TablesInv, ReplyCrash PROVE ring = {}
<1>1. /\ peer \in Clients
      /\ cpc[peer] = "wait"
      /\ rpc = "reply_client"
  BY DEF ReplyCrash, RegistrarGoto, TablesInv, TypeInv, LockstepInv
<1>2. ring \in SUBSET Publishers /\ ring = table
  BY DEF TablesInv, TypeInv, TypeOK
<1>3. Path(peer) \in Names
  BY <1>1, PathIsName DEF TablesInv
<1> QED
  BY <1>2, <1>3, ChoicesInRing DEF ReplyCrash

LEMMA StepTablesInv == TablesInv /\ [Next]_vars => TablesInv'
<1> SUFFICES ASSUME TablesInv, [Next]_vars PROVE TablesInv'
  OBVIOUS
<1>1. TypeInv'
  BY StepTypeInv DEF TablesInv
<1> USE DEF TablesInv, RegistrarNeverCrashes, RegistrarGoto, registrarVars,
        proxyVars, clientVars
<1>2. ASSUME NEW x \in Peers, RecvRegistration(x) PROVE TablesInv'
  BY <1>1, <1>2 DEF RecvRegistration
<1>3. CASE ReplyPublisher \/ NotifyDispatchers \/ AddPublisher
  BY <1>1, <1>3 DEF ReplyPublisher, NotifyDispatchers, AddPublisher
<1>4. CASE AskProxy \/ RecvId \/ ReplyClient
  BY <1>1, <1>4 DEF AskProxy, RecvId, ReplyClient
<1>5. CASE ReplyCrash
  BY <1>1, <1>5, ReplyCrashNeedsEmptyRing DEF ReplyCrash
<1>6. CASE AddWatch \/ ProxyDies \/ Network
  BY <1>1, <1>6 DEF AddWatch, ProxyDies, Network, RouteFilter
<1>7. ASSUME NEW p \in Publishers, RegisterPublisher(p) PROVE TablesInv'
  BY <1>1, <1>7 DEF RegisterPublisher
<1>8. ASSUME NEW c \in Clients, Client(c) PROVE TablesInv'
  BY <1>1, <1>8 DEF Client, CallSubscribe, ReturnFromSubscribe, SubscribeAt
<1>9. CASE UNCHANGED vars
  BY <1>1, <1>9 DEF vars
<1> QED
  BY <1>2, <1>3, <1>4, <1>5, <1>6, <1>7, <1>8, <1>9 DEF Next, RegistrarThread

\* In whatever order publishers and clients start, the registrar follows a NULL
\* node (registrar.c:48, 127) only while no publisher was ever added.
THEOREM CrashesOnlyOnEmptyRing == Spec => []RegistrarNeverCrashes
<1>1. TablesInv => RegistrarNeverCrashes
  BY DEF TablesInv
<1> QED
  BY <1>1, InitTablesInv, StepTablesInv, PTL DEF Spec


-----------------------------------------------------------------------------
(* Ids name paths: the registrar serves one client at a time, so the answer *)
(* it waits for is that for the client's own path, and the kernel gives a   *)
(* path the same watch again and a new path a new one.                      *)

\* The id that a path has, once it was asked for.
IdOf(f, i) ==
  IF f \in Missing THEN i = WatchFailed ELSE i = watches[f] /\ i # NoAnswer

\* Watches are numbered one after the other.
WatchesInv ==
  /\ \A f \in Names : watches[f] <= Cardinality(Watched)
  /\ \A f, g \in Watched : watches[f] = watches[g] => f = g

\* The proxy knows of the client that is served, and of no other.
AnswerInv ==
  /\ rpc = "await" => \/ asked = Path(peer) /\ answer = NoAnswer
                      \/ asked = NoPath /\ IdOf(Path(peer), answer)
  /\ rpc = "reply_client" => IdOf(Path(peer), answer)
  /\ rpc # "await" => asked = NoPath
  /\ rpc \notin {"await", "reply_client", "crashed"} => answer = NoAnswer

GrantsInv == \A c \in Clients : \A g \in granted[c] : IdOf(g.path, g.id)

IdsInv == TypeInv /\ WatchesInv /\ AnswerInv /\ GrantsInv

LEMMA InitIdsInv == Init => IdsInv
<1> SUFFICES ASSUME Init PROVE IdsInv
  OBVIOUS
<1>1. TypeInv
  BY InitTypeInv
<1>2. Watched = {} /\ Cardinality(Watched) = 0
  BY FS_EmptySet DEF Init, Watched
<1>3. WatchesInv
  BY <1>2 DEF Init, WatchesInv, NoAnswer
<1>4. AnswerInv /\ GrantsInv
  BY DEF Init, AnswerInv, GrantsInv
<1> QED
  BY <1>1, <1>3, <1>4 DEF IdsInv

\* A watch that exists is kept, and the new one is unlike the others.
LEMMA AddWatchIds ==
  ASSUME IdsInv, AddWatch
  PROVE  /\ WatchesInv'
         /\ \A f \in Names : watches[f] # NoAnswer => watches'[f] = watches[f]
         /\ IF asked \in Missing THEN answer' = WatchFailed
            ELSE answer' = watches'[asked] /\ answer' # NoAnswer
<1> DEFINE n == Cardinality(Watched)
<1>1. /\ asked \in Names
      /\ watches \in [Names -> Nat]
      /\ IsFiniteSet(Watched)
      /\ n \in Nat
      /\ \A f \in Names : watches[f] <= n
  BY FS_CardinalityType DEF AddWatch, IdsInv, TypeInv, TypeOK, WatchesInv
<1>2. Watched' = {f \in Names : watches'[f] # NoAnswer}
  BY DEF Watched
<1>3. CASE asked \in Missing
  BY <1>3 DEF AddWatch, IdsInv, WatchesInv, Watched
<1>4. CASE asked \notin Missing /\ watches[asked] # NoAnswer
  <2>1. answer' = watches[asked] /\ watches' = [watches EXCEPT ![asked] = watches[asked]]
    BY <1>4 DEF AddWatch
  <2>2. watches' = watches
    BY <1>1, <2>1
  <2> QED
    BY <1>1, <1>4, <2>1, <2>2 DEF IdsInv, WatchesInv, Watched
<1>5. CASE asked \notin Missing /\ watches[asked] = NoAnswer
  <2>1. answer' = n + 1 /\ watches' = [watches EXCEPT ![asked] = n + 1]
    BY <1>1, <1>5 DEF AddWatch, FreshWd, Watched
  <2>2. Watched' = Watched \cup {asked} /\ asked \notin Watched
    BY <1>1, <1>2, <1>5, <2>1 DEF Watched, NoAnswer
  <2>3. Cardinality(Watched') = n + 1
    BY <1>1, <2>2, FS_AddElement
  <2> HIDE DEF n
  <2>4. \A f \in Names : watches'[f] <= n + 1 /\ (f # asked => watches'[f] <= n)
    BY <1>1, <2>1
  <2>5. \A f, g \in Watched' : watches'[f] = watches'[g] => f = g
    <3> SUFFICES ASSUME NEW f \in Watched', NEW g \in Watched', watches'[f] = watches'[g]
                 PROVE  f = g
      OBVIOUS
    <3>1. f \in Names /\ g \in Names
      BY <1>2
    <3>2. CASE f = asked \/ g = asked
      BY <1>1, <2>1, <3>1, <3>2
    <3>3. CASE f # asked /\ g # asked
      BY <1>1, <2>1, <2>2, <3>1, <3>3 DEF IdsInv, WatchesInv
    <3> QED
      BY <3>2, <3>3
  <2>6. WatchesInv'
    BY <2>3, <2>4, <2>5 DEF WatchesInv
  <2> QED
    BY <1>1, <1>5, <2>1, <2>6 DEF NoAnswer
<1> QED
  BY <1>3, <1>4, <1>5

LEMMA StepIdsInv == IdsInv /\ [Next]_vars => IdsInv'
<1> SUFFICES ASSUME IdsInv, [Next]_vars PROVE IdsInv'
  OBVIOUS
<1>1. TypeInv'
  BY StepTypeInv DEF IdsInv
<1> USE RegistrarAssumption DEF IdsInv, RegistrarGoto, registrarVars, proxyVars,
        clientVars, Path
<1>2. CASE ~AddWatch /\ UNCHANGED watches
  <2>1. WatchesInv'
    BY <1>2 DEF WatchesInv, Watched
  <2>2. ASSUME UNCHANGED granted PROVE GrantsInv'
    BY <1>2, <2>2 DEF GrantsInv, IdOf
  <2> USE <1>1, <1>2, <2>1, <2>2 DEF AnswerInv, IdOf
  <2>3. ASSUME NEW x \in Peers, RecvRegistration(x) PROVE IdsInv'
    BY <2>3 DEF RecvRegistration
  <2>4. CASE ReplyPublisher \/ NotifyDispatchers \/ AddPublisher
    BY <2>4 DEF ReplyPublisher, NotifyDispatchers, AddPublisher
  <2>5. CASE AskProxy
    BY <2>5 DEF AskProxy
  <2>6. CASE RecvId
    BY <2>6 DEF RecvId
  <2>7. CASE ReplyClient
    <3>1. peer \in Clients /\ granted \in [Clients -> SUBSET Grants]
      BY <2>7 DEF ReplyClient, TypeInv, TypeOK, LockstepInv
    <3>2. GrantsInv'
      <4> SUFFICES ASSUME NEW c \in Clients, NEW g \in granted'[c]
                   PROVE  IdOf(g.path, g.id)'
        BY DEF GrantsInv
      <4>1. \/ g \in granted[c]
            \/ g.path = Path(peer) /\ g.id = answer
        BY <2>7, <3>1 DEF ReplyClient
      <4>2. CASE g \in granted[c]
        BY <4>2 DEF GrantsInv
      <4>3. CASE g.path = Path(peer) /\ g.id = answer
        BY <2>7, <4>3 DEF ReplyClient
      <4> QED
        BY <4>1, <4>2, <4>3
    <3> QED
      BY <2>7, <3>2 DEF ReplyClient
  <2>8. CASE ReplyCrash
    BY <2>8 DEF ReplyCrash
  <2>9. CASE ProxyDies \/ Network
    BY <2>9 DEF ProxyDies, Network, RouteFilter
  <2>10. ASSUME NEW p \in Publishers, RegisterPublisher(p) PROVE IdsInv'
    BY <2>10 DEF RegisterPublisher
  <2>11. ASSUME NEW c \in Clients, CallSubscribe(c) PROVE IdsInv'
    BY <2>11 DEF CallSubscribe
  <2>12. ASSUME NEW c \in Clients, NEW p \in Publishers, SubscribeAt(c, p) PROVE IdsInv'
    BY <2>12 DEF SubscribeAt
  <2>13. ASSUME NEW c \in Clients, ReturnFromSubscribe(c) PROVE IdsInv'
    <3>1. rpc \in {"await", "reply_client"} => peer \in Clients /\ peer # c
      BY <2>13 DEF ReturnFromSubscribe, TypeInv, LockstepInv
    <3>2. next \in [Clients -> Nat \ {0}]
      BY DEF TypeInv, TypeOK
    <3>3. rpc \in {"await", "reply_client"} => Path(peer)' = Path(peer)
      BY <2>13, <3>1, <3>2 DEF ReturnFromSubscribe
    <3> QED
      BY <2>13, <3>3 DEF ReturnFromSubscribe
  <2>14. CASE UNCHANGED vars
    BY <2>14 DEF vars
  <2> QED
    BY <2>3, <2>4, <2>5, <2>6, <2>7, <2>8, <2>9, <2>10, <2>11, <2>12, <2>13, <2>14
    DEF Next, RegistrarThread, Client
<1>3. CASE AddWatch
  <2>1. rpc = "await" /\ asked = Path(peer)
    BY <1>3 DEF AddWatch, AnswerInv
  <2>2. AnswerInv'
    BY <1>3, <2>1, AddWatchIds DEF AddWatch, AnswerInv, IdOf
  <2>3. GrantsInv'
    <3> SUFFICES ASSUME NEW c \in Clients, NEW g \in granted[c]
                 PROVE  IdOf(g.path, g.id)'
      BY <1>3 DEF AddWatch, GrantsInv
    <3>1. g.path \in Names /\ IdOf(g.path, g.id)
      BY DEF TypeInv, TypeOK, Grants, GrantsInv
    <3> QED
      BY <1>3, <3>1, AddWatchIds DEF IdOf
  <2> QED
    BY <1>1, <1>3, <2>2, <2>3, AddWatchIds
<1>4. AddWatch \/ UNCHANGED watches
  BY DEF Next, RegistrarThread, Client, Network, RecvRegistration, ReplyPublisher,
     NotifyDispatchers, AddPublisher, AskProxy, RecvId, ReplyClient, ReplyCrash, ProxyDies,
     RegisterPublisher, CallSubscribe, SubscribeAt, ReturnFromSubscribe, RouteFilter, vars
<1> QED
  BY <1>2, <1>3, <1>4

LEMMA IdsInvNames == IdsInv => IdsNamePaths
<1> SUFFICES ASSUME IdsInv, NEW c \in Clients, NEW d \in Clients,
                    NEW g \in granted[c], NEW h \in granted[d], g.id # WatchFailed
             PROVE  g.id = h.id <=> g.path = h.path
  BY DEF IdsNamePaths
<1>1. g.path \in Names /\ h.path \in Names /\ IdOf(g.path, g.id) /\ IdOf(h.path, h.id)
  BY DEF IdsInv, TypeInv, TypeOK, Grants, GrantsInv
<1> QED
  BY <1>1 DEF IdsInv, WatchesInv, IdOf, Watched

\* The ids that clients are given name their paths, one id for one path, whoever asks and
\* whenever (rnot_helper.h:296-303, proxy.c:30-36, registrar.c:108-115).
THEOREM IdsAlwaysNamePaths == Spec => []IdsNamePaths
  BY InitIdsInv, StepIdsInv, IdsInvNames, PTL DEF Spec

=============================================================================
