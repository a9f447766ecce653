------------------------------ MODULE HashRing ------------------------------
(***************************************************************************)
(* The consistent-hash ring that the registrar and the dispatcher each     *)
(* keep (hash_ring_create, hash_ring_add_node and hash_ring_find_node of   *)
(* libhashring, used in registrar.c and dispatcher.c).  A ring is the set  *)
(* of the publisher addresses added to it: every address contributes a     *)
(* fixed, non-empty set of items (the hashes of its replicas) and a key    *)
(* belongs to the address that owns the next item clockwise of the hash of *)
(* the key.                                                                *)
(***************************************************************************)
EXTENDS Naturals, FiniteSets

CONSTANTS
  Publishers,          \* the addresses that may be added, "ip:port"
  NoPublisher,         \* NULL
  Names,               \* what is hashed: watched paths and entry names
  REPLICATION_FACTOR,  \* rnot_helper.h:23, instances of a name
  ItemsOf,             \* [Publishers -> SUBSET Nat], the hashes of the replicas
  KeyPoint             \* [Keys -> Nat], the hash of a key

Instances == 1 .. REPLICATION_FACTOR

\* A key is a name and an instance number appended to it; the registrar hashes
\* the terminating NUL as well (registrar.c:47), the dispatcher does not
\* (dispatcher.c:117).
Key(name, instance, nul) == [name |-> name, instance |-> instance, nul |-> nul]

Keys == [name : Names, instance : Instances, nul : BOOLEAN]

ASSUME HashRingAssumption ==
  /\ NoPublisher \notin Publishers
  /\ REPLICATION_FACTOR \in Nat \ {0}
  /\ ItemsOf \in [Publishers -> (SUBSET Nat) \ {{}}]
  /\ \A p, q \in Publishers : p # q => ItemsOf[p] \cap ItemsOf[q] = {}
  /\ KeyPoint \in [Keys -> Nat]

-----------------------------------------------------------------------------

Least(S) == CHOOSE x \in S : \A y \in S : x <= y

Items(ring) == UNION {ItemsOf[p] : p \in ring}

\* hash_ring_find_next_highest_item: the next item clockwise, wrapping around.
NextItem(ring, point) ==
  LET higher == {x \in Items(ring) : x > point}
  IN  Least(IF higher # {} THEN higher ELSE Items(ring))

\* hash_ring_find_node; NULL on an empty ring.
FindNode(ring, key) ==
  IF ring = {}
    THEN NoPublisher
    ELSE CHOOSE p \in ring : NextItem(ring, KeyPoint[key]) \in ItemsOf[p]

=============================================================================
