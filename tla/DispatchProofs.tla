--------------------------- MODULE DispatchProofs ---------------------------
(***************************************************************************)
(* Proofs about the two that hand work out.  The dispatcher process, for   *)
(* every number of parsers, publishers and blocks, every content of the    *)
(* blocks and every hash; and the broker of the Majordomo pattern with its *)
(* workers and clients, for every number of these, of services, calls,     *)
(* retries, sessions and faults: its lists agree, an attempt is in one     *)
(* place, and it implements RequestReply.                                  *)
(***************************************************************************)
EXTENDS Dispatcher, Majordomo, FiniteSetTheorems, SequenceTheorems, WellFoundedInduction,
        TLAPS

-----------------------------------------------------------------------------
(* The dispatcher                                                          *)


NatBelow == OpToRel(<, Nat)

\* A non-empty set of hashes has a least one, and Least picks it.
LEMMA LeastIsMember ==
  ASSUME NEW S \in SUBSET Nat, S # {}
  PROVE  Least(S) \in S
<1>1. PICK x \in S : \A y \in S : ~ (<<y, x>> \in NatBelow)
  BY NatLessThanWellFounded, WFMin DEF NatBelow
<1>2. \A y \in S : x \in Nat /\ y \in Nat /\ ~ (y < x)
  BY <1>1 DEF NatBelow, OpToRel
<1>3. \A y \in S : x <= y
  BY <1>2
<1> QED
  BY <1>3 DEF Least

\* A lookup in a ring that holds a publisher finds one of its publishers.
LEMMA FindNodeFindsMember ==
  ASSUME NEW R \in SUBSET Publishers, R # {}, NEW key \in Keys
  PROVE  FindNode(R, key) \in R
<1>1. Items(R) \in SUBSET Nat /\ Items(R) # {}
  BY HashRingAssumption DEF Items
<1> DEFINE higher == {x \in Items(R) : x > KeyPoint[key]}
<1>2. higher # {} => Least(higher) \in Items(R)
  BY <1>1, LeastIsMember
<1>3. Least(Items(R)) \in Items(R)
  BY <1>1, LeastIsMember
<1>4. NextItem(R, KeyPoint[key]) \in Items(R)
  BY <1>2, <1>3 DEF NextItem
<1> QED
  BY <1>4 DEF Items, FindNode


\* The labels of a parser that is dispatching the named event at pos.
Dispatching == {"read_lock", "find", "lookup", "lock", "wait", "filter", "event",
                "unlock"}

\* buff and i are meaningful while a parser scans, and i is at a named event
\* while it dispatches.
ScanInv ==
  /\ \A t \in Parsers : pc[t] # "recv" => block[t] \in Blocks
  /\ \A t \in Parsers : pc[t] \in Dispatching =>
       pos[t] \in 1 .. Len(Content[block[t]]) /\ CurrentName(t) # NoName
  /\ upc # "recv" => incoming \in Publishers

TypeInv == TypeOK /\ ScanInv

LEMMA InitTypeInv == Init => TypeInv
<1> SUFFICES ASSUME Init PROVE TypeInv
  OBVIOUS
<1>1. mutex \in [Parsers -> BOOLEAN]
  BY Zenon DEF Init
<1>2. inbox \in [Parsers -> Seq(Blocks)] /\ wire \in [Publishers -> Seq(Frames)]
  BY DEF Init
<1>3. /\ pc \in [Parsers -> ParserLabels]
      /\ block \in [Parsers -> Blocks \cup {NoBlock}]
      /\ pos \in [Parsers -> Nat \ {0}]
      /\ node \in [Parsers -> Publishers \cup {NoPublisher}]
      /\ sock \in [Parsers -> Publishers \cup {NoPublisher}]
      /\ waits \in [Parsers -> Nat]
  BY DEF Init, ParserLabels
<1>4. TypeOK
  BY <1>1, <1>2, <1>3 DEF Init, TypeOK, UpdaterLabels
<1>5. ScanInv
  BY DEF Init, ScanInv, Dispatching
<1> QED
  BY <1>4, <1>5 DEF TypeInv

\* A dispatching parser is at an event.
LEMMA CurrentIsEvent ==
  ASSUME TypeInv, NEW t \in Parsers, pc[t] \in Dispatching
  PROVE  /\ Current(t) \in Events
         /\ CurrentName(t) \in Names
<1>1. block[t] \in Blocks /\ pos[t] \in 1 .. Len(Content[block[t]])
  BY DEF TypeInv, ScanInv, Dispatching
<1>2. Content[block[t]] \in Seq(Names \cup {NoName})
  BY <1>1, DispatcherAssumption
<1>3. Current(t) \in {block[t]} \X (1 .. Len(Content[block[t]]))
  BY <1>1 DEF Current
<1>4. Current(t) \in Events
  BY <1>1, <1>3 DEF Events
<1>5. Content[block[t]][pos[t]] \in Names \cup {NoName}
  BY <1>1, <1>2
<1> QED
  BY <1>4, <1>5 DEF TypeInv, ScanInv, CurrentName, Dispatching

\* A lookup returns a publisher, in the ring or on its way into it.
LEMMA FoundIsPublisher ==
  ASSUME TypeInv, NEW t \in Parsers, pc[t] = "find", NEW p \in FoundNodes(t),
         p # NoPublisher
  PROVE  p \in Publishers /\ (upc # "adding" => p \in ring)
<1>1. CASE upc = "adding"
  BY <1>1 DEF TypeInv, TypeOK, ScanInv, FoundNodes
<1>2. CASE upc # "adding"
  <2>1. CurrentName(t) \in Names
    BY CurrentIsEvent DEF Dispatching
  <2>2. PICK i \in Instances : p = FindNode(ring, Key(CurrentName(t), i, FALSE))
    BY <1>2 DEF FoundNodes
  <2>3. Key(CurrentName(t), i, FALSE) \in Keys
    BY <2>1 DEF Key, Keys
  <2>4. ring # {}
    BY <2>2 DEF FindNode
  <2>5. ring \in SUBSET Publishers
    BY DEF TypeInv, TypeOK
  <2> QED
    BY <2>2, <2>3, <2>4, <2>5, FindNodeFindsMember
<1> QED
  BY <1>1, <1>2

\* Handing over a frame keeps every socket a sequence of frames.
LEMMA SendFrameType ==
  ASSUME TypeInv, NEW t \in Parsers, pc[t] \in Dispatching,
         NEW part \in {"filter", "event"}, SendFrame(t, part)
  PROVE  wire' \in [Publishers -> Seq(Frames)]
<1>1. [part |-> part, of |-> Current(t)] \in Frames
  BY CurrentIsEvent DEF Frames
<1>2. wire \in [Publishers -> Seq(Frames)]
  BY DEF TypeInv, TypeOK
<1>3. \A s \in Seq(Frames) : Append(s, [part |-> part, of |-> Current(t)]) \in Seq(Frames)
  BY <1>1
<1> QED
  BY <1>2, <1>3 DEF SendFrame

LEMMA StepTypeInv == TypeInv /\ [Next]_vars => TypeInv'
<1> SUFFICES ASSUME TypeInv, [Next]_vars PROVE TypeInv'
  OBVIOUS
<1> USE DispatcherAssumption DEF TypeInv, TypeOK, ScanInv, ParserLabels,
        UpdaterLabels, Dispatching, Goto, UpdaterGoto, parserVars, updaterVars,
        tableVars, lockVars, mutexVars, queueVars, CurrentName, Segfault
<1>1. ASSUME NEW b \in Blocks, NEW t \in Parsers, Relay(b, t) PROVE TypeInv'
  BY <1>1 DEF Relay
<1>2. ASSUME NEW t \in Parsers, RecvBlock(t) PROVE TypeInv'
  BY <1>2 DEF RecvBlock
<1>3. ASSUME NEW t \in Parsers, EndBlock(t) PROVE TypeInv'
  BY <1>3 DEF EndBlock
<1>4. ASSUME NEW t \in Parsers, SkipUnnamed(t) PROVE TypeInv'
  BY SMTT(40), <1>4 DEF SkipUnnamed
<1>5. ASSUME NEW t \in Parsers, ScanNamed(t) PROVE TypeInv'
  BY <1>5 DEF ScanNamed
<1>6. ASSUME NEW t \in Parsers, ReaderLock(t) PROVE TypeInv'
  BY <1>6 DEF ReaderLock
<1>7. ASSUME NEW t \in Parsers, FindPublisher(t) PROVE TypeInv'
  <2>1. PICK p \in FoundNodes(t) :
           p # NoPublisher /\ node' = [node EXCEPT ![t] = p]
    BY <1>7 DEF FindPublisher
  <2>2. p \in Publishers
    BY <1>7, <2>1, FoundIsPublisher DEF FindPublisher
  <2>3. node' \in [Parsers -> Publishers \cup {NoPublisher}]
    BY <2>1, <2>2
  <2> QED
    BY <1>7, <2>3 DEF FindPublisher
<1>8. ASSUME NEW t \in Parsers, FindCrash(t) PROVE TypeInv'
  BY <1>8 DEF FindCrash
<1>9. ASSUME NEW t \in Parsers, Lookup(t) PROVE TypeInv'
  BY <1>9 DEF Lookup
<1>10. ASSUME NEW t \in Parsers, MutexCall(t) PROVE TypeInv'
  BY <1>10 DEF MutexCall
<1>11. ASSUME NEW t \in Parsers, MutexNull(t) PROVE TypeInv'
  BY <1>11 DEF MutexNull
<1>12. ASSUME NEW t \in Parsers, MutexAcquire(t) PROVE TypeInv'
  <2>1. waits[t] \in Nat /\ locked \in SUBSET Nat /\ locked' = locked \cup {waits[t]}
    BY <1>12 DEF MutexAcquire
  <2> QED
    BY <1>12, <2>1 DEF MutexAcquire
<1>13. ASSUME NEW t \in Parsers, SendFilter(t) PROVE TypeInv'
  <2>1. wire' \in [Publishers -> Seq(Frames)]
    BY <1>13, SendFrameType DEF SendFilter
  <2> QED
    BY <1>13, <2>1 DEF SendFilter
<1>14. ASSUME NEW t \in Parsers, SendEvent(t) PROVE TypeInv'
  <2>1. wire' \in [Publishers -> Seq(Frames)]
    BY <1>14, SendFrameType DEF SendEvent
  <2> QED
    BY <1>14, <2>1 DEF SendEvent
<1>15. ASSUME NEW t \in Parsers, SendCrash(t) PROVE TypeInv'
  BY <1>15 DEF SendCrash
<1>16. ASSUME NEW t \in Parsers, MutexUnlock(t) PROVE TypeInv'
  BY <1>16 DEF MutexUnlock
<1>17. ASSUME NEW p \in Publishers, RecvPublisher(p) PROVE TypeInv'
  BY <1>17 DEF RecvPublisher
<1>18. ASSUME NEW p \in Publishers, LoseAnnouncement(p) PROVE TypeInv'
  BY <1>18 DEF LoseAnnouncement
<1>19. CASE AddNodeBegin
  BY <1>19 DEF AddNodeBegin
<1>20. CASE AddNodeEnd
  BY <1>20 DEF AddNodeEnd
<1>21. CASE WriterLock
  BY <1>21 DEF WriterLock
<1>22. CASE InsertSock
  BY <1>22 DEF InsertSock
<1>23. CASE InitMutex
  BY <1>23 DEF InitMutex
<1>24. CASE InsertLock
  BY <1>24 DEF InsertLock
<1>25. CASE WriterUnlock
  BY <1>25 DEF WriterUnlock
<1>26. CASE UNCHANGED vars
  BY <1>26 DEF vars
<1> QED
  BY <1>1, <1>2, <1>3, <1>4, <1>5, <1>6, <1>7, <1>8, <1>9, <1>10, <1>11, <1>12,
     <1>13, <1>14, <1>15, <1>16, <1>17, <1>18, <1>19, <1>20, <1>21, <1>22, <1>23,
     <1>24, <1>25, <1>26
     DEF Next, Main, Parser, Updater

\* Every variable of the dispatcher stays in its type.
THEOREM TypeCorrect == Spec => []TypeOK
<1>1. TypeInv => TypeOK
  BY DEF TypeInv
<1> QED
  BY <1>1, InitTypeInv, StepTypeInv, PTL DEF Spec

-----------------------------------------------------------------------------
(* The tables, for every order of arrival of blocks and publishers         *)

Reading == {"find", "lookup"}
Writing == {"insert_sock", "init_mutex", "insert_lock", "write_unlock"}

\* The readers-writer lock is exact, and the tables differ only while the
\* updater, alone, is between its two inserts.
LockInv ==
  /\ \A t \in Parsers : t \in readers <=> pc[t] \in Reading
  /\ writing <=> upc \in Writing
  /\ writing => readers = {}

TableInv ==
  /\ upc \notin {"init_mutex", "insert_lock"} => socks = locks
  /\ upc \in {"init_mutex", "insert_lock"} => socks = locks \cup {incoming}
  /\ upc \in {"recv", "add", "adding"} => ring = socks
  /\ upc \in {"write_lock", "insert_sock"} => ring = socks \cup {incoming}
  /\ upc \in {"init_mutex", "insert_lock", "write_unlock"} => ring = socks

\* What a parser took from the tables: a socket and its mutex, or neither.
TakenInv ==
  \A t \in Parsers : pc[t] = "lock" => (mutex[t] <=> sock[t] # NoPublisher)

SharedInv == TypeInv /\ LockInv /\ TableInv /\ TakenInv

LEMMA InitSharedInv == Init => SharedInv
<1> SUFFICES ASSUME Init PROVE SharedInv
  OBVIOUS
<1>1. TypeInv
  BY InitTypeInv
<1>2. LockInv
  BY DEF Init, LockInv, Reading, Writing
<1>3. TableInv
  BY DEF Init, TableInv
<1>4. TakenInv
  BY DEF Init, TakenInv
<1> QED
  BY <1>1, <1>2, <1>3, <1>4 DEF SharedInv

\* The readers-writer lock.
LEMMA StepLockInv == TypeInv /\ LockInv /\ [Next]_vars => LockInv'
<1> SUFFICES ASSUME TypeInv, LockInv, [Next]_vars PROVE LockInv'
  OBVIOUS
<1> USE DEF TypeInv, TypeOK, LockInv, Reading, Writing, ParserLabels,
        UpdaterLabels, Goto, UpdaterGoto, parserVars, updaterVars, tableVars,
        lockVars, mutexVars, queueVars
<1>1. ASSUME NEW b \in Blocks, NEW t \in Parsers, Relay(b, t) PROVE LockInv'
  BY <1>1 DEF Relay
<1>2. ASSUME NEW t \in Parsers,
             RecvBlock(t) \/ EndBlock(t) \/ SkipUnnamed(t) \/ ScanNamed(t)
      PROVE  LockInv'
  <2>1. CASE RecvBlock(t)
    BY <2>1 DEF RecvBlock
  <2>2. CASE EndBlock(t)
    BY <2>2 DEF EndBlock
  <2>3. CASE SkipUnnamed(t)
    BY <2>3 DEF SkipUnnamed
  <2>4. CASE ScanNamed(t)
    BY <2>4 DEF ScanNamed
  <2> QED
    BY <1>2, <2>1, <2>2, <2>3, <2>4
<1>3. ASSUME NEW t \in Parsers, ReaderLock(t) PROVE LockInv'
  BY <1>3 DEF ReaderLock
<1>4. ASSUME NEW t \in Parsers, FindPublisher(t) PROVE LockInv'
  BY <1>4 DEF FindPublisher
<1>5. ASSUME NEW t \in Parsers, Lookup(t) PROVE LockInv'
  BY <1>5 DEF Lookup
<1>6. ASSUME NEW t \in Parsers,
             FindCrash(t) \/ MutexNull(t) \/ SendCrash(t)
      PROVE  LockInv'
  BY <1>6 DEF FindCrash, MutexNull, SendCrash
<1>7. ASSUME NEW t \in Parsers,
             MutexCall(t) \/ MutexAcquire(t) \/ MutexUnlock(t)
      PROVE  LockInv'
  <2>1. CASE MutexCall(t)
    BY <2>1 DEF MutexCall
  <2>2. CASE MutexAcquire(t)
    BY <2>2 DEF MutexAcquire
  <2>3. CASE MutexUnlock(t)
    BY <2>3 DEF MutexUnlock
  <2> QED
    BY <1>7, <2>1, <2>2, <2>3
<1>8. ASSUME NEW t \in Parsers, SendFilter(t) \/ SendEvent(t) PROVE LockInv'
  <2>1. CASE SendFilter(t)
    BY <2>1 DEF SendFilter
  <2>2. CASE SendEvent(t)
    BY <2>2 DEF SendEvent
  <2> QED
    BY <1>8, <2>1, <2>2
<1>9. ASSUME NEW p \in Publishers, RecvPublisher(p) \/ LoseAnnouncement(p)
      PROVE  LockInv'
  BY <1>9 DEF RecvPublisher, LoseAnnouncement
<1>10. CASE AddNodeBegin \/ AddNodeEnd
  BY <1>10 DEF AddNodeBegin, AddNodeEnd
<1>11. CASE WriterLock
  BY <1>11 DEF WriterLock
<1>12. CASE InsertSock \/ InitMutex \/ InsertLock
  BY <1>12 DEF InsertSock, InitMutex, InsertLock
<1>13. CASE WriterUnlock
  BY <1>13 DEF WriterUnlock
<1>14. CASE UNCHANGED vars
  BY <1>14 DEF vars
<1> QED
  BY <1>1, <1>2, <1>3, <1>4, <1>5, <1>6, <1>7, <1>8, <1>9, <1>10, <1>11, <1>12,
     <1>13, <1>14 DEF Next, Main, Parser, Updater

\* The ring and the tables: only the updater writes them.
LEMMA StepTableInv == TypeInv /\ TableInv /\ [Next]_vars => TableInv'
<1> SUFFICES ASSUME TypeInv, TableInv, [Next]_vars PROVE TableInv'
  OBVIOUS
<1> USE DEF TableInv, UpdaterGoto, updaterVars, tableVars
<1>1. CASE UNCHANGED <<updaterVars, tableVars>>
  BY <1>1
<1>2. ASSUME NEW p \in Publishers, RecvPublisher(p) PROVE TableInv'
  BY <1>2 DEF RecvPublisher
<1>3. CASE AddNodeBegin \/ AddNodeEnd
  BY <1>3 DEF AddNodeBegin, AddNodeEnd
<1>4. CASE WriterLock
  BY <1>4 DEF WriterLock
<1>5. CASE InsertSock
  BY <1>5 DEF InsertSock
<1>6. CASE InitMutex
  BY <1>6 DEF InitMutex
<1>7. CASE InsertLock
  BY <1>7 DEF InsertLock
<1>8. CASE WriterUnlock
  BY <1>8 DEF WriterUnlock
<1>9. ASSUME NEW t \in Parsers, Parser(t) PROVE UNCHANGED <<updaterVars, tableVars>>
  BY <1>9 DEF Parser, RecvBlock, EndBlock, SkipUnnamed, ScanNamed, ReaderLock,
     FindPublisher, FindCrash, Lookup, MutexCall, MutexNull, MutexAcquire,
     SendFilter, SendEvent, SendCrash, MutexUnlock
<1>10. ASSUME Main \/ UNCHANGED vars \/ \E p \in Publishers : LoseAnnouncement(p)
       PROVE  UNCHANGED <<updaterVars, tableVars>>
  BY <1>10 DEF Main, Relay, vars, LoseAnnouncement
<1> QED
  BY <1>1, <1>2, <1>3, <1>4, <1>5, <1>6, <1>7, <1>8, <1>9, <1>10 DEF Next, Updater

\* A reader finds the tables equal: no writer holds the lock.
LEMMA ReadersSeeEqualTables ==
  ASSUME SharedInv, NEW t \in Parsers, pc[t] \in Reading
  PROVE  socks = locks
<1>1. readers # {}
  BY DEF SharedInv, LockInv
<1>2. upc \notin Writing
  BY <1>1 DEF SharedInv, LockInv
<1> QED
  BY <1>2 DEF SharedInv, TableInv, Writing

LEMMA StepTakenInv == SharedInv /\ [Next]_vars => TakenInv'
<1> SUFFICES ASSUME SharedInv, [Next]_vars, NEW t \in Parsers, pc'[t] = "lock"
             PROVE  mutex'[t] <=> sock'[t] # NoPublisher
  BY DEF TakenInv
<1> USE DEF SharedInv, TypeInv, TypeOK
<1>1. CASE Lookup(t)
  <2>1. socks = locks
    BY <1>1, ReadersSeeEqualTables DEF Lookup, Goto, Reading
  <2>2. mutex'[t] = (node[t] \in locks)
    BY <1>1, Zenon DEF Lookup
  <2>3. sock'[t] = IF node[t] \in socks THEN node[t] ELSE NoPublisher
    BY <1>1 DEF Lookup
  <2> QED
    BY <2>1, <2>2, <2>3, HashRingAssumption
<1>2. CASE ~Lookup(t)
  <2>1. pc[t] = "lock" /\ mutex'[t] = mutex[t] /\ sock'[t] = sock[t]
    <3>1. ASSUME NEW u \in Parsers, Parser(u)
          PROVE  pc[t] = "lock" /\ mutex'[t] = mutex[t] /\ sock'[t] = sock[t]
      BY <1>2, <3>1
         DEF Parser, RecvBlock, EndBlock, SkipUnnamed, ScanNamed, ReaderLock,
             FindPublisher, FindCrash, Lookup, MutexCall, MutexNull,
             MutexAcquire, SendFilter, SendEvent, SendCrash, MutexUnlock, Goto,
             parserVars, Segfault
    <3>2. ASSUME Main \/ Updater \/ UNCHANGED vars
                 \/ \E p \in Publishers : LoseAnnouncement(p)
          PROVE  UNCHANGED <<pc, mutex, sock>>
      BY <3>2 DEF Main, Relay, Updater, RecvPublisher, AddNodeBegin, AddNodeEnd,
             WriterLock, InsertSock, InitMutex, InsertLock, WriterUnlock, vars,
             LoseAnnouncement, parserVars
    <3> QED
      BY <3>1, <3>2 DEF Next
  <2> QED
    BY <2>1 DEF TakenInv
<1> QED
  BY <1>1, <1>2

LEMMA SharedInvariant == Spec => []SharedInv
<1>1. SharedInv /\ [Next]_vars => SharedInv'
  BY StepTypeInv, StepLockInv, StepTableInv, StepTakenInv DEF SharedInv
<1> QED
  BY <1>1, InitSharedInv, PTL DEF Spec

\* Whatever the order in which blocks and publishers arrive, a parser sees a
\* publisher in both tables or in neither.
THEOREM TablesAlwaysConsistent == Spec => []TablesConsistent
<1>1. SharedInv => TablesConsistent
  BY ReadersSeeEqualTables DEF TablesConsistent, SharedInv, TakenInv, Reading
<1> QED
  BY <1>1, SharedInvariant, PTL

-----------------------------------------------------------------------------
(* The sockets, when the publishers are installed before the first block    *)

Holding == {"filter", "event", "unlock"}

\* No parser has work before the publishers are installed, and from then on
\* the slot keeps the one mutex that every parser locks.
IdleInv ==
  \A t \in Parsers : pc[t] # "recv" \/ inbox[t] # <<>> => Settled

PathInv ==
  \A t \in Parsers :
    /\ pc[t] = "lookup" => node[t] \in ring
    /\ pc[t] \in Holding \cup {"lock", "wait"} => sock[t] \in Publishers /\ mutex[t]
    /\ pc[t] \in Holding \cup {"wait"} => waits[t] = impl

HolderInv ==
  /\ \A t \in Parsers : pc[t] \in Holding => impl \in locked
  /\ \A s, t \in Parsers : pc[s] \in Holding /\ pc[t] \in Holding => s = t

QuietInv == SharedInv /\ IdleInv /\ PathInv /\ HolderInv /\ ~crashed

LEMMA InitQuietInv == Init => QuietInv
  BY InitSharedInv DEF Init, QuietInv, IdleInv, PathInv, HolderInv, Holding

\* The updater and the loss of announcements come before all work.
LEMMA UpdaterBeforeWork ==
  ASSUME QuietInv, Updater \/ \E p \in Publishers : LoseAnnouncement(p)
  PROVE  /\ \A t \in Parsers : pc[t] = "recv" /\ inbox[t] = <<>>
         /\ UNCHANGED <<pc, inbox, crashed>>
<1>1. ~Settled
  BY DEF Updater, RecvPublisher, AddNodeBegin, AddNodeEnd, WriterLock, InsertSock,
     InitMutex, InsertLock, WriterUnlock, LoseAnnouncement, UpdaterGoto, Settled
<1>2. \A t \in Parsers : pc[t] = "recv" /\ inbox[t] = <<>>
  BY <1>1 DEF QuietInv, IdleInv
<1>3. UNCHANGED <<pc, inbox, crashed>>
  BY DEF Updater, RecvPublisher, AddNodeBegin, AddNodeEnd, WriterLock, InsertSock,
     InitMutex, InsertLock, WriterUnlock, LoseAnnouncement, parserVars, queueVars
<1> QED
  BY <1>2, <1>3

LEMMA UpdaterKeepsQuiet ==
  ASSUME QuietInv, SharedInv',
         Updater \/ \E p \in Publishers : LoseAnnouncement(p)
  PROVE  QuietInv'
<1>1. \A t \in Parsers : pc'[t] = "recv" /\ inbox'[t] = <<>>
  BY UpdaterBeforeWork
<1>2. ~crashed'
  BY UpdaterBeforeWork DEF QuietInv
<1>3. IdleInv'
  BY <1>1 DEF IdleInv
<1>4. PathInv'
  BY <1>1 DEF PathInv, Holding
<1>5. HolderInv'
  BY <1>1 DEF HolderInv, Holding
<1> QED
  BY <1>2, <1>3, <1>4, <1>5 DEF QuietInv

\* A parser with work leaves the updater's side as it is: settled.
LEMMA ParserKeepsIdle ==
  ASSUME QuietInv, NEW t \in Parsers, Parser(t)
  PROVE  IdleInv' /\ Settled /\ Settled'
<1>1. Settled
  BY DEF Parser, RecvBlock, EndBlock, SkipUnnamed, ScanNamed, ReaderLock,
     FindPublisher, FindCrash, Lookup, MutexCall, MutexNull, MutexAcquire,
     SendFilter, SendEvent, SendCrash, MutexUnlock, Goto, Sending, QuietInv,
     IdleInv
<1>2. UNCHANGED <<announced, upc, ring>>
  BY DEF Parser, RecvBlock, EndBlock, SkipUnnamed, ScanNamed, ReaderLock,
     FindPublisher, FindCrash, Lookup, MutexCall, MutexNull, MutexAcquire,
     SendFilter, SendEvent, SendCrash, MutexUnlock, queueVars, updaterVars,
     tableVars
<1>3. Settled'
  BY <1>1, <1>2 DEF Settled
<1> QED
  BY <1>1, <1>3 DEF IdleInv

\* With settled tables no parser follows a null pointer, and a lone sender
\* cannot corrupt a socket.
LEMMA ParserNeverCrashes ==
  ASSUME QuietInv, NEW t \in Parsers, Parser(t)
  PROVE  ~crashed'
<1>1. ~FindCrash(t)
  BY ParserKeepsIdle DEF FindCrash, Settled
<1>2. ~MutexNull(t)
  BY DEF MutexNull, QuietInv, PathInv
<1>3. ~SendCrash(t)
  BY DEF SendCrash, Sending, QuietInv, HolderInv, Holding
<1> QED
  BY <1>1, <1>2, <1>3 DEF Parser, QuietInv, RecvBlock, EndBlock, SkipUnnamed,
     ScanNamed, ReaderLock, FindPublisher, Lookup, MutexCall, MutexAcquire,
     SendFilter, SendEvent, MutexUnlock

LEMMA ParserKeepsPath ==
  ASSUME QuietInv, NEW t \in Parsers, Parser(t)
  PROVE  PathInv'
<1> USE DEF QuietInv, SharedInv, TypeInv, TypeOK, PathInv, Holding, Goto
<1>1. CASE RecvBlock(t)
  BY <1>1 DEF RecvBlock, tableVars, mutexVars
<1>2. CASE EndBlock(t)
  BY <1>2 DEF EndBlock, tableVars, mutexVars
<1>3. CASE SkipUnnamed(t)
  BY <1>3 DEF SkipUnnamed, tableVars, mutexVars
<1>4. CASE ScanNamed(t)
  BY <1>4 DEF ScanNamed, tableVars, mutexVars
<1>5. CASE ReaderLock(t)
  BY <1>5 DEF ReaderLock, tableVars, mutexVars
<1>6. CASE FindPublisher(t)
  <2>1. PICK p \in FoundNodes(t) :
           p # NoPublisher /\ node' = [node EXCEPT ![t] = p]
    BY <1>6 DEF FindPublisher
  <2>2. upc # "adding"
    BY ParserKeepsIdle DEF Settled
  <2>3. p \in ring
    BY <1>6, <2>1, <2>2, FoundIsPublisher DEF FindPublisher
  <2> QED
    BY <1>6, <2>1, <2>3 DEF FindPublisher, tableVars, mutexVars
<1>7. CASE Lookup(t)
  <2>1. socks = locks /\ ring = socks
    BY ParserKeepsIdle DEF TableInv, Settled
  <2>2. node[t] \in ring
    BY <1>7 DEF Lookup
  <2>3. sock' = [sock EXCEPT ![t] = node[t]] /\ node[t] \in Publishers
    BY <1>7, <2>1, <2>2 DEF Lookup
  <2>4. mutex' = [mutex EXCEPT ![t] = TRUE]
    BY <1>7, <2>1, <2>2, Zenon DEF Lookup
  <2> QED
    BY <1>7, <2>3, <2>4 DEF Lookup, tableVars, mutexVars
<1>8. CASE MutexCall(t)
  BY <1>8 DEF MutexCall, tableVars, mutexVars
<1>9. CASE MutexAcquire(t)
  BY <1>9 DEF MutexAcquire, tableVars, mutexVars
<1>10. CASE SendFilter(t)
  BY <1>10 DEF SendFilter, tableVars, mutexVars
<1>11. CASE SendEvent(t)
  BY <1>11 DEF SendEvent, tableVars, mutexVars
<1>12. CASE MutexUnlock(t)
  BY <1>12 DEF MutexUnlock, tableVars, mutexVars
<1>13. CASE FindCrash(t) \/ MutexNull(t) \/ SendCrash(t)
  BY <1>13, ParserNeverCrashes DEF FindCrash, MutexNull, SendCrash, Segfault
<1> QED
  BY <1>1, <1>2, <1>3, <1>4, <1>5, <1>6, <1>7, <1>8, <1>9, <1>10, <1>11, <1>12,
     <1>13 DEF Parser

\* Lock and unlock of the one mutex.
LEMMA ParserKeepsHolder ==
  ASSUME QuietInv, NEW t \in Parsers, Parser(t)
  PROVE  HolderInv'
<1> USE DEF QuietInv, SharedInv, TypeInv, TypeOK, PathInv, HolderInv, Holding, Goto
<1>1. CASE RecvBlock(t) \/ EndBlock(t) \/ SkipUnnamed(t) \/ ScanNamed(t)
  <2>1. /\ pc[t] \notin Holding /\ UNCHANGED mutexVars
        /\ \A u \in Parsers : pc'[u] \in Holding => pc'[u] = pc[u]
    BY <1>1 DEF RecvBlock, EndBlock, SkipUnnamed, ScanNamed
  <2> QED
    BY <2>1 DEF mutexVars
<1>2. CASE ReaderLock(t) \/ FindPublisher(t) \/ Lookup(t) \/ MutexCall(t)
  <2>1. /\ pc[t] \notin Holding /\ UNCHANGED mutexVars
        /\ \A u \in Parsers : pc'[u] \in Holding => pc'[u] = pc[u]
    BY <1>2 DEF ReaderLock, FindPublisher, Lookup, MutexCall
  <2> QED
    BY <2>1 DEF mutexVars
<1>3. CASE MutexAcquire(t)
  <2>1. impl \notin locked /\ locked' = locked \cup {impl} /\ impl' = impl
    BY <1>3 DEF MutexAcquire
  <2>2. \A u \in Parsers : pc[u] \notin Holding
    BY <2>1
  <2>3. \A u \in Parsers : pc'[u] \in Holding => u = t
    BY <1>3, <2>2 DEF MutexAcquire
  <2> QED
    BY <2>1, <2>3
<1>4. CASE SendFilter(t)
  BY <1>4 DEF SendFilter, mutexVars
<1>5. CASE SendEvent(t)
  BY <1>5 DEF SendEvent, mutexVars
<1>6. CASE MutexUnlock(t)
  <2>1. \A u \in Parsers : pc'[u] \notin Holding
    BY <1>6 DEF MutexUnlock
  <2> QED
    BY <2>1
<1>7. CASE FindCrash(t) \/ MutexNull(t) \/ SendCrash(t)
  BY <1>7, ParserNeverCrashes DEF FindCrash, MutexNull, SendCrash, Segfault
<1> QED
  BY <1>1, <1>2, <1>3, <1>4, <1>5, <1>6, <1>7 DEF Parser

LEMMA StepQuietInv ==
  ASSUME QuietStart PROVE QuietInv /\ [Next]_vars => QuietInv'
<1> SUFFICES ASSUME QuietInv, [Next]_vars PROVE QuietInv'
  OBVIOUS
<1>1. SharedInv'
  BY StepTypeInv, StepLockInv, StepTableInv, StepTakenInv DEF QuietInv, SharedInv
<1>2. ASSUME NEW b \in Blocks, NEW t \in Parsers, Relay(b, t) PROVE QuietInv'
  <2>1. Settled /\ Settled'
    BY <1>2 DEF Relay, Settled, updaterVars, tableVars
  <2>2. UNCHANGED <<pc, node, sock, mutex, waits, ring, impl, locked, crashed>>
    BY <1>2 DEF Relay, parserVars, tableVars, mutexVars
  <2> QED
    BY <1>1, <2>1, <2>2 DEF QuietInv, IdleInv, PathInv, HolderInv, Holding
<1>3. ASSUME NEW t \in Parsers, Parser(t) PROVE QuietInv'
  BY <1>1, <1>3, ParserKeepsIdle, ParserNeverCrashes, ParserKeepsPath,
     ParserKeepsHolder DEF QuietInv
<1>4. CASE Updater \/ \E p \in Publishers : LoseAnnouncement(p)
  BY <1>1, <1>4, UpdaterKeepsQuiet
<1>5. CASE UNCHANGED vars
  BY <1>1, <1>5 DEF vars, QuietInv, IdleInv, PathInv, HolderInv, Holding, Settled,
     parserVars, updaterVars, tableVars, mutexVars, queueVars
<1> QED
  BY <1>2, <1>3, <1>4, <1>5 DEF Next, Main

LEMMA QuietInvariant == ASSUME QuietStart PROVE Spec => []QuietInv
<1>1. QuietInv /\ [Next]_vars => QuietInv'
  BY StepQuietInv
<1> QED
  BY <1>1, InitQuietInv, PTL DEF Spec

\* When the publishers are installed before the first block, two parsers are
\* never inside notify() on one socket, although all sockets share a mutex
\* slot that is initialised again and again.
THEOREM SocketsExclusive == ASSUME QuietStart PROVE Spec => []SocketExclusive
<1>1. QuietInv => SocketExclusive
  BY DEF QuietInv, HolderInv, SocketExclusive, Sending, Holding
<1> QED
  BY <1>1, QuietInvariant, PTL

\* ... and the dispatcher never follows a NULL node, socket or mutex.
THEOREM QuietNeverCrashes == ASSUME QuietStart PROVE Spec => []NeverCrashes
<1>1. QuietInv => NeverCrashes
  BY DEF QuietInv, NeverCrashes
<1> QED
  BY <1>1, QuietInvariant, PTL

-----------------------------------------------------------------------------
(* The frames on the sockets                                                *)

\* A parser that has sent the filter and not the event: its socket ends with
\* that filter.  Every other socket ends with a complete pair.
PairInv ==
  /\ \A t \in Parsers : pc[t] = "event" =>
       LET w == wire[sock[t]] IN
         /\ Len(w) % 2 = 1
         /\ w[Len(w)].of = Current(t)
  /\ \A p \in Publishers :
       Len(wire[p]) % 2 = 1 => \E t \in Parsers : pc[t] = "event" /\ sock[t] = p

FrameInv == QuietInv /\ PairInv /\ WellFramed

LEMMA InitFrameInv == Init => FrameInv
  BY InitQuietInv DEF Init, FrameInv, PairInv, WellFramed

\* A step that moves no parser into or out of "event" and sends nothing.
LEMMA SilentKeepsFrames ==
  ASSUME PairInv, WellFramed, UNCHANGED wire,
         \A t \in Parsers : (pc'[t] = "event" <=> pc[t] = "event"),
         \A t \in Parsers : pc[t] = "event" => UNCHANGED <<sock[t], block[t], pos[t]>>
  PROVE  PairInv' /\ WellFramed'
<1>1. WellFramed'
  BY DEF WellFramed
<1>2. PairInv'
  BY ZenonT(60) DEF PairInv, Current
<1> QED
  BY <1>1, <1>2

\* The socket a parser sends on, and what a frame does to it.
LEMMA SentFrame ==
  ASSUME QuietInv, NEW t \in Parsers, pc[t] \in {"filter", "event"},
         NEW part \in {"filter", "event"}, SendFrame(t, part)
  PROVE  /\ sock[t] \in Publishers
         /\ \A p \in Publishers : wire[p] \in Seq(Frames)
         /\ \A p \in Publishers : p # sock[t] => wire'[p] = wire[p]
         /\ Len(wire'[sock[t]]) = Len(wire[sock[t]]) + 1
         /\ \A k \in 1 .. Len(wire[sock[t]]) : wire'[sock[t]][k] = wire[sock[t]][k]
         /\ wire'[sock[t]][Len(wire[sock[t]]) + 1] = [part |-> part, of |-> Current(t)]
<1> USE DEF QuietInv, SharedInv, TypeInv, TypeOK
<1>1. sock[t] \in Publishers
  BY DEF PathInv, Holding
<1>2. \A p \in Publishers : wire[p] \in Seq(Frames)
  OBVIOUS
<1>3. [part |-> part, of |-> Current(t)] \in Frames
  BY CurrentIsEvent DEF Frames, Dispatching
<1>4. wire' = [wire EXCEPT ![sock[t]] =
                 Append(wire[sock[t]], [part |-> part, of |-> Current(t)])]
  BY DEF SendFrame
<1>5. wire'[sock[t]] = Append(wire[sock[t]], [part |-> part, of |-> Current(t)])
  BY <1>1, <1>4
<1>6. \A p \in Publishers : p # sock[t] => wire'[p] = wire[p]
  BY <1>4
<1> QED
  BY <1>1, <1>2, <1>3, <1>5, <1>6

\* Frames alternate.
LEMMA Parity ==
  ASSUME NEW n \in Nat
  PROVE  /\ n % 2 = 0 \/ n % 2 = 1
         /\ n % 2 = 0 => (n + 1) % 2 = 1
         /\ n % 2 = 1 => (n + 1) % 2 = 0
  OBVIOUS

LEMMA FilterKeepsFrames ==
  ASSUME FrameInv, NEW t \in Parsers, SendFilter(t)
  PROVE  PairInv' /\ WellFramed'
<1> DEFINE P == sock[t]
           n == Len(wire[P])
<1>1. /\ pc[t] = "filter"
      /\ pc' = [pc EXCEPT ![t] = "event"]
      /\ SendFrame(t, "filter")
      /\ UNCHANGED <<sock, block, pos>>
  BY DEF SendFilter, Goto
<1>2. /\ P \in Publishers
      /\ \A p \in Publishers : wire[p] \in Seq(Frames)
      /\ \A p \in Publishers : p # P => wire'[p] = wire[p]
      /\ Len(wire'[P]) = n + 1
      /\ \A k \in 1 .. n : wire'[P][k] = wire[P][k]
      /\ wire'[P][n + 1] = [part |-> "filter", of |-> Current(t)]
  BY <1>1, SentFrame DEF FrameInv
<1>3. \A u \in Parsers : pc[u] # "event"
  BY <1>1 DEF FrameInv, QuietInv, HolderInv, Holding
<1>4. n \in Nat /\ n % 2 = 0
  <2>1. n \in Nat
    BY <1>2
  <2>2. n % 2 # 1
    BY <1>2, <1>3 DEF FrameInv, PairInv
  <2> HIDE DEF n
  <2> QED
    BY <2>1, <2>2, Parity
<1>5. (n + 1) % 2 = 1
  <2> HIDE DEF n
  <2> QED
    BY <1>4, Parity
<1>6. pc \in [Parsers -> ParserLabels]
  BY DEF FrameInv, QuietInv, SharedInv, TypeInv, TypeOK
<1>7. PairInv'
  <2>1. \A u \in Parsers : pc'[u] = "event" => u = t
    BY <1>1, <1>3, <1>6
  <2>2. Current(t)' = Current(t)
    BY <1>1 DEF Current
  <2>3. \A p \in Publishers : Len(wire'[p]) % 2 = 1 => p = P
    BY <1>2, <1>3 DEF FrameInv, PairInv
  <2>4. pc'[t] = "event" /\ sock'[t] = P
    BY <1>1, <1>6
  <2>5. ASSUME NEW u \in Parsers, pc'[u] = "event"
        PROVE  LET w == wire'[sock'[u]] IN
                 Len(w) % 2 = 1 /\ w[Len(w)].of = Current(u)'
    <3>1. u = t
      BY <2>1, <2>5
    <3>2. Len(wire'[P]) % 2 = 1 /\ wire'[P][Len(wire'[P])].of = Current(t)
      <4> HIDE DEF n, P
      <4> QED
        BY <1>2, <1>5
    <3> QED
      BY <2>2, <2>4, <3>1, <3>2
  <2>6. ASSUME NEW p \in Publishers, Len(wire'[p]) % 2 = 1
        PROVE  \E u \in Parsers : pc'[u] = "event" /\ sock'[u] = p
    BY <2>3, <2>4, <2>6
  <2> QED
    BY <2>5, <2>6 DEF PairInv
<1>8. WellFramed'
  <2>1. SUFFICES ASSUME NEW p \in Publishers, NEW k \in 1 .. Len(wire'[p])
                 PROVE  IF k % 2 = 1
                          THEN wire'[p][k].part = "filter"
                          ELSE /\ wire'[p][k].part = "event"
                               /\ wire'[p][k].of = wire'[p][k-1].of
    BY DEF WellFramed
  <2>2. CASE p # P
    BY <1>2, <2>2 DEF FrameInv, WellFramed
  <2>3. CASE p = P /\ k \in 1 .. n
    <3>1. k % 2 # 1 => k - 1 \in 1 .. n
      <4> HIDE DEF n
      <4> QED
        BY <1>4, <2>3
    <3>2. IF k % 2 = 1
            THEN wire[P][k].part = "filter"
            ELSE /\ wire[P][k].part = "event"
                 /\ wire[P][k].of = wire[P][k-1].of
      BY <1>2, <2>3 DEF FrameInv, WellFramed
    <3> HIDE DEF n, P
    <3> QED
      BY <1>2, <2>3, <3>1, <3>2
  <2>4. CASE p = P /\ k = n + 1
    BY <1>2, <1>5, <2>4
  <2> QED
    BY <1>2, <1>4, <2>2, <2>3, <2>4
<1> QED
  BY <1>7, <1>8

LEMMA EventKeepsFrames ==
  ASSUME FrameInv, NEW t \in Parsers, SendEvent(t)
  PROVE  PairInv' /\ WellFramed'
<1> DEFINE P == sock[t]
           n == Len(wire[P])
<1>1. /\ pc[t] = "event"
      /\ pc' = [pc EXCEPT ![t] = "unlock"]
      /\ SendFrame(t, "event")
      /\ UNCHANGED <<sock, block, pos>>
  BY DEF SendEvent, Goto
<1>2. /\ P \in Publishers
      /\ \A p \in Publishers : wire[p] \in Seq(Frames)
      /\ \A p \in Publishers : p # P => wire'[p] = wire[p]
      /\ Len(wire'[P]) = n + 1
      /\ \A k \in 1 .. n : wire'[P][k] = wire[P][k]
      /\ wire'[P][n + 1] = [part |-> "event", of |-> Current(t)]
  BY <1>1, SentFrame DEF FrameInv
<1>3. n \in Nat /\ n % 2 = 1 /\ wire[P][n].of = Current(t)
  <2>1. n \in Nat
    BY <1>2
  <2> QED
    BY <1>1, <2>1 DEF FrameInv, PairInv
<1>4. (n + 1) % 2 = 0 /\ n \in 1 .. n
  <2> HIDE DEF n
  <2> QED
    BY <1>3, Parity
<1>5. \A u \in Parsers : pc'[u] # "event"
  <2>1. \A u \in Parsers : pc[u] = "event" => u = t
    BY <1>1 DEF FrameInv, QuietInv, HolderInv, Holding
  <2> QED
    BY <1>1, <2>1 DEF FrameInv, QuietInv, SharedInv, TypeInv, TypeOK
<1>6. PairInv'
  <2>1. \A p \in Publishers : p # P => Len(wire[p]) % 2 # 1
    BY <1>1 DEF FrameInv, PairInv, QuietInv, HolderInv, Holding
  <2>2. \A p \in Publishers : Len(wire'[p]) % 2 # 1
    <3>1. Len(wire'[P]) % 2 = 0
      BY <1>2, <1>4
    <3>2. ASSUME NEW p \in Publishers, p # P PROVE Len(wire'[p]) % 2 # 1
      <4>1. wire'[p] = wire[p]
        BY <1>2, <3>2
      <4>2. Len(wire[p]) % 2 # 1
        BY <2>1, <3>2
      <4> QED
        BY <4>1, <4>2
    <3>3. 0 # 1
      OBVIOUS
    <3> QED
      BY <3>1, <3>2, <3>3, Zenon
  <2> QED
    BY <1>5, <2>2 DEF PairInv
<1>7. WellFramed'
  <2>1. SUFFICES ASSUME NEW p \in Publishers, NEW k \in 1 .. Len(wire'[p])
                 PROVE  IF k % 2 = 1
                          THEN wire'[p][k].part = "filter"
                          ELSE /\ wire'[p][k].part = "event"
                               /\ wire'[p][k].of = wire'[p][k-1].of
    BY DEF WellFramed
  <2>2. CASE p # P
    BY <1>2, <2>2 DEF FrameInv, WellFramed
  <2>3. CASE p = P /\ k \in 1 .. n
    <3>1. k % 2 # 1 => k - 1 \in 1 .. n
      <4> HIDE DEF n
      <4> QED
        BY <1>3, <2>3
    <3>2. IF k % 2 = 1
            THEN wire[P][k].part = "filter"
            ELSE /\ wire[P][k].part = "event"
                 /\ wire[P][k].of = wire[P][k-1].of
      BY <1>2, <2>3 DEF FrameInv, WellFramed
    <3> HIDE DEF n, P
    <3> QED
      BY <1>2, <2>3, <3>1, <3>2
  <2>4. CASE p = P /\ k = n + 1
    <3>1. wire'[P][k - 1] = wire[P][n]
      BY <1>2, <1>3, <1>4, <2>4
    <3> HIDE DEF n, P
    <3> QED
      BY <1>2, <1>3, <1>4, <2>4, <3>1
  <2> QED
    BY <1>2, <1>3, <2>2, <2>3, <2>4
<1> QED
  BY <1>6, <1>7

LEMMA StepFrameInv ==
  ASSUME QuietStart PROVE FrameInv /\ [Next]_vars => FrameInv'
<1> SUFFICES ASSUME FrameInv, [Next]_vars PROVE FrameInv'
  OBVIOUS
<1>1. QuietInv'
  BY StepQuietInv DEF FrameInv
<1>2. ASSUME NEW t \in Parsers, Parser(t) PROVE PairInv' /\ WellFramed'
  <2>1. CASE SendFilter(t)
    BY <2>1, FilterKeepsFrames
  <2>2. CASE SendEvent(t)
    BY <2>2, EventKeepsFrames
  <2>3. CASE ~SendFilter(t) /\ ~SendEvent(t)
    <3>1. UNCHANGED wire
      BY <1>2, <2>3 DEF Parser, RecvBlock, EndBlock, SkipUnnamed, ScanNamed,
         ReaderLock, FindPublisher, FindCrash, Lookup, MutexCall, MutexNull,
         MutexAcquire, SendCrash, MutexUnlock
    <3>2. pc \in [Parsers -> ParserLabels]
      BY DEF FrameInv, QuietInv, SharedInv, TypeInv, TypeOK
    <3>3. \/ UNCHANGED parserVars
          \/ /\ pc[t] # "event" /\ pc'[t] # "event"
             /\ \A u \in Parsers \ {t} :
                  UNCHANGED <<pc[u], sock[u], block[u], pos[u]>>
      <4> USE DEF FrameInv, QuietInv, SharedInv, TypeInv, TypeOK, Goto
      <4>1. CASE RecvBlock(t)
        BY <4>1 DEF RecvBlock
      <4>2. CASE EndBlock(t)
        BY <4>2 DEF EndBlock
      <4>3. CASE SkipUnnamed(t)
        BY <4>3 DEF SkipUnnamed
      <4>4. CASE ScanNamed(t)
        BY <4>4 DEF ScanNamed
      <4>5. CASE ReaderLock(t)
        BY <4>5 DEF ReaderLock
      <4>6. CASE FindPublisher(t)
        BY <4>6 DEF FindPublisher
      <4>7. CASE Lookup(t)
        BY <4>7 DEF Lookup
      <4>8. CASE MutexCall(t)
        BY <4>8 DEF MutexCall
      <4>9. CASE MutexAcquire(t)
        BY <4>9 DEF MutexAcquire
      <4>10. CASE MutexUnlock(t)
        BY <4>10 DEF MutexUnlock
      <4>11. CASE FindCrash(t) \/ MutexNull(t) \/ SendCrash(t)
        BY <4>11 DEF FindCrash, MutexNull, SendCrash
      <4> QED
        BY <1>2, <2>3, <4>1, <4>2, <4>3, <4>4, <4>5, <4>6, <4>7, <4>8, <4>9,
           <4>10, <4>11 DEF Parser
    <3>4. /\ \A u \in Parsers : pc'[u] = "event" <=> pc[u] = "event"
          /\ \A u \in Parsers : pc[u] = "event" =>
               UNCHANGED <<sock[u], block[u], pos[u]>>
      BY <3>3 DEF parserVars
    <3> QED
      BY <3>1, <3>4, SilentKeepsFrames DEF FrameInv
  <2> QED
    BY <2>1, <2>2, <2>3
<1>3. ASSUME Main \/ Updater \/ UNCHANGED vars
             \/ \E p \in Publishers : LoseAnnouncement(p)
      PROVE  PairInv' /\ WellFramed'
  <2>1. UNCHANGED wire /\ UNCHANGED parserVars
    BY <1>3 DEF Main, Relay, Updater, RecvPublisher, AddNodeBegin, AddNodeEnd,
       WriterLock, InsertSock, InitMutex, InsertLock, WriterUnlock, vars,
       LoseAnnouncement
  <2> QED
    BY <2>1, SilentKeepsFrames DEF FrameInv, parserVars
<1> QED
  BY <1>1, <1>2, <1>3 DEF FrameInv, Next

\* When the publishers are installed before the first block, what arrives at a
\* publisher is a sequence of pairs: a filter and the event it announces.
THEOREM SocketsWellFramed == ASSUME QuietStart PROVE Spec => []WellFramed
<1>1. FrameInv /\ [Next]_vars => FrameInv'
  BY StepFrameInv
<1>2. FrameInv => WellFramed
  BY DEF FrameInv
<1> QED
  BY <1>1, <1>2, InitFrameInv, PTL DEF Spec

-----------------------------------------------------------------------------
(* The order of the events, for every order of arrival of blocks and       *)
(* publishers and whoever else is inside the sockets                        *)

Busy(t) == pc[t] # "recv"

\* The blocks that the main thread or the pipe of a parser holds.
Queued(b) == \E t \in Parsers : \E i \in 1 .. Len(inbox[t]) : inbox[t][i] = b
Waiting == pending \cup {b \in Blocks : Queued(b)}

\* No block is in two places at once.
QueueInv ==
  /\ \A t \in Parsers : \A i \in 1 .. Len(inbox[t]) : inbox[t][i] \notin pending
  /\ \A t, u \in Parsers : \A i \in 1 .. Len(inbox[t]), j \in 1 .. Len(inbox[u]) :
       inbox[t][i] = inbox[u][j] => t = u /\ i = j
  /\ \A t \in Parsers : Busy(t) => block[t] \notin Waiting
  /\ \A t, u \in Parsers : Busy(t) /\ Busy(u) /\ block[t] = block[u] => t = u

\* No parser will hand the event over again: its block is with no one, or with
\* a parser whose scan has gone past it.
Spent(e) ==
  /\ e[1] \notin Waiting
  /\ \A t \in Parsers : Busy(t) /\ block[t] = e[1] =>
       \/ e[2] < pos[t]
       \/ e[2] = pos[t] /\ pc[t] = "unlock"

SentInv ==
  \A e \in Events, p \in Publishers : \A k \in 1 .. Len(wire[p]) :
    wire[p][k].part = "event" /\ wire[p][k].of = e => Spent(e)

OrderInv == TypeInv /\ QueueInv /\ SentInv /\ InOrderAtMostOnce

LEMMA InitOrderInv == Init => OrderInv
  BY InitTypeInv DEF Init, OrderInv, QueueInv, SentInv, InOrderAtMostOnce, Busy

LEMMA EventFields ==
  ASSUME NEW e \in Events PROVE e[1] \in Blocks /\ e[2] \in Nat
<1>1. PICK b \in Blocks : e \in {b} \X (1 .. Len(Content[b]))
  BY DEF Events
<1>2. e[1] = b /\ e[2] \in 1 .. Len(Content[b])
  BY <1>1
<1>3. Len(Content[b]) \in Nat
  BY DispatcherAssumption
<1> QED
  BY <1>2, <1>3

\* A frame on a socket is of an event.
LEMMA FrameEvent ==
  ASSUME TypeInv, NEW p \in Publishers, NEW k \in 1 .. Len(wire[p])
  PROVE  wire[p][k].of \in Events
<1>1. wire[p] \in Seq(Frames)
  BY DEF TypeInv, TypeOK
<1>2. wire[p][k] \in Frames
  BY <1>1
<1> QED
  BY <1>2 DEF Frames

\* A step that moves no block leaves the places of the blocks alone.
LEMMA StillQueued ==
  ASSUME QueueInv, UNCHANGED <<pending, inbox, block>>,
         \A t \in Parsers : Busy(t)' <=> Busy(t)
  PROVE  QueueInv' /\ Waiting' = Waiting
<1>1. Waiting' = Waiting
  BY DEF Waiting, Queued
<1> QED
  BY <1>1 DEF QueueInv

\* What is in a pipe is waiting.
LEMMA PipesWait ==
  ASSUME TypeInv, NEW t \in Parsers, NEW i \in 1 .. Len(inbox[t])
  PROVE  inbox[t][i] \in Waiting
<1>1. inbox[t] \in Seq(Blocks)
  BY DEF TypeInv, TypeOK
<1>2. inbox[t][i] \in Blocks
  BY <1>1
<1> QED
  BY <1>2 DEF Waiting, Queued

\* The three steps that move a block, and what waits after them.
LEMMA RelayQueues ==
  ASSUME TypeInv, QueueInv, NEW b \in Blocks, NEW t \in Parsers, Relay(b, t)
  PROVE  QueueInv' /\ Waiting' = Waiting
<1> DEFINE n == Len(inbox[t]) + 1
<1>1. inbox \in [Parsers -> Seq(Blocks)] /\ inbox[t] \in Seq(Blocks)
  BY DEF TypeInv, TypeOK
<1>2. /\ inbox'[t] = Append(inbox[t], b)
      /\ \A u \in Parsers : u # t => inbox'[u] = inbox[u]
  BY <1>1 DEF Relay
<1>3. /\ Len(inbox'[t]) = n
      /\ inbox'[t][n] = b
      /\ \A i \in 1 .. Len(inbox[t]) : i \in 1 .. n /\ i # n /\ inbox'[t][i] = inbox[t][i]
      /\ n \in 1 .. n
      /\ \A i \in 1 .. n : i = n \/ i \in 1 .. Len(inbox[t])
  BY <1>1, <1>2
<1>4. b \in pending /\ pending' = pending \ {b} /\ UNCHANGED <<pc, block>>
  BY DEF Relay, parserVars
<1> HIDE DEF n
<1>5. Waiting' = Waiting
  <2>1. Queued(b)'
    BY <1>3 DEF Queued
  <2>2. ASSUME NEW c \in Blocks, c # b PROVE Queued(c)' <=> Queued(c)
    BY <1>2, <1>3, <2>2 DEF Queued
  <2> QED
    BY <1>4, <2>1, <2>2 DEF Waiting
<1>6. \A u \in Parsers : \A i \in 1 .. Len(inbox'[u]) :
        \/ i \in 1 .. Len(inbox[u]) /\ inbox'[u][i] = inbox[u][i]
        \/ u = t /\ i = n /\ inbox'[u][i] = b
  BY <1>2, <1>3
<1>7. \A u \in Parsers : \A i \in 1 .. Len(inbox[u]) : inbox[u][i] # b
  BY <1>4 DEF QueueInv
<1>8. \A u \in Parsers : \A i \in 1 .. Len(inbox'[u]) : inbox'[u][i] \notin pending'
  BY <1>4, <1>6, <1>7 DEF QueueInv
<1>9. \A u, v \in Parsers : \A i \in 1 .. Len(inbox'[u]), j \in 1 .. Len(inbox'[v]) :
        inbox'[u][i] = inbox'[v][j] => u = v /\ i = j
  BY SMTT(40), <1>6, <1>7 DEF QueueInv
<1>10. /\ \A u \in Parsers : Busy(u)' => block'[u] \notin Waiting'
       /\ \A u, v \in Parsers : Busy(u)' /\ Busy(v)' /\ block'[u] = block'[v] => u = v
  BY <1>4, <1>5 DEF QueueInv, Busy
<1>11. QueueInv'
  BY <1>8, <1>9, <1>10 DEF QueueInv
<1> QED
  BY <1>5, <1>11

LEMMA RecvQueues ==
  ASSUME TypeInv, QueueInv, NEW t \in Parsers, RecvBlock(t)
  PROVE  /\ QueueInv'
         /\ block'[t] \in Waiting
         /\ Waiting' = Waiting \ {block'[t]}
<1>1. inbox \in [Parsers -> Seq(Blocks)] /\ inbox[t] \in Seq(Blocks)
  BY DEF TypeInv, TypeOK
<1>2. inbox[t] # <<>> /\ inbox' = [inbox EXCEPT ![t] = Tail(@)]
      /\ block' = [block EXCEPT ![t] = Head(inbox[t])] /\ pending' = pending
      /\ pc' = [pc EXCEPT ![t] = "scan"] /\ pc[t] = "recv"
  BY DEF RecvBlock, Goto
<1>3. /\ inbox'[t] = Tail(inbox[t])
      /\ \A u \in Parsers : u # t => inbox'[u] = inbox[u]
  BY <1>1, <1>2
<1>4. /\ 1 \in 1 .. Len(inbox[t])
      /\ Head(inbox[t]) = inbox[t][1]
      /\ \A i \in 1 .. Len(Tail(inbox[t])) :
           i + 1 \in 1 .. Len(inbox[t]) /\ i + 1 # 1 /\ Tail(inbox[t])[i] = inbox[t][i + 1]
      /\ \A i \in 1 .. Len(inbox[t]) : i # 1 =>
           i - 1 \in 1 .. Len(Tail(inbox[t])) /\ Tail(inbox[t])[i - 1] = inbox[t][i]
  BY <1>1, <1>2
<1>5. block'[t] = inbox[t][1] /\ \A u \in Parsers : u # t => block'[u] = block[u]
  BY <1>2, <1>4 DEF TypeInv, TypeOK
<1>6. inbox[t][1] \in Waiting
  BY <1>4, PipesWait
\* Every place of a pipe was a place of that pipe, and not the first of t.
<1>7. ASSUME NEW u \in Parsers, NEW i \in 1 .. Len(inbox'[u])
      PROVE  \E k \in 1 .. Len(inbox[u]) :
               /\ inbox'[u][i] = inbox[u][k]
               /\ k = IF u = t THEN i + 1 ELSE i
               /\ ~(u = t /\ k = 1)
  <2>1. CASE u = t
    <3>1. i \in 1 .. Len(Tail(inbox[t])) /\ inbox'[u][i] = Tail(inbox[t])[i]
      BY <1>3, <2>1
    <3>2. i + 1 \in 1 .. Len(inbox[u]) /\ i + 1 # 1 /\ inbox'[u][i] = inbox[u][i + 1]
      BY <1>4, <2>1, <3>1
    <3> QED
      BY <2>1, <3>2
  <2>2. CASE u # t
    BY <1>3, <2>2
  <2> QED
    BY <2>1, <2>2
<1>8. Waiting' = Waiting \ {inbox[t][1]}
  <2>1. ASSUME NEW c \in Blocks PROVE Queued(c)' => Queued(c) /\ c # inbox[t][1]
    <3> SUFFICES ASSUME NEW u \in Parsers, NEW i \in 1 .. Len(inbox'[u]), inbox'[u][i] = c
                 PROVE  Queued(c) /\ c # inbox[t][1]
      BY DEF Queued
    <3>1. PICK k \in 1 .. Len(inbox[u]) : inbox'[u][i] = inbox[u][k] /\ ~(u = t /\ k = 1)
      BY <1>7
    <3> QED
      BY <1>4, <3>1 DEF Queued, QueueInv
  <2>2. ASSUME NEW c \in Blocks, Queued(c), c # inbox[t][1] PROVE Queued(c)'
    <3>1. PICK u \in Parsers : \E i \in 1 .. Len(inbox[u]) : inbox[u][i] = c
      BY <2>2 DEF Queued
    <3>2. PICK i \in 1 .. Len(inbox[u]) : inbox[u][i] = c
      BY <3>1
    <3>3. CASE u = t
      <4>1. i # 1
        BY <2>2, <3>2, <3>3
      <4>2. i - 1 \in 1 .. Len(inbox'[t]) /\ inbox'[t][i - 1] = c
        BY <1>3, <1>4, <3>2, <3>3, <4>1
      <4> QED
        BY <4>2 DEF Queued
    <3>4. CASE u # t
      BY <1>3, <3>2, <3>4 DEF Queued
    <3> QED
      BY <3>3, <3>4
  <2>3. inbox[t][1] \notin pending
    BY <1>4 DEF QueueInv
  <2> QED
    BY <1>2, <2>1, <2>2, <2>3 DEF Waiting
<1>9. \A u \in Parsers : \A i \in 1 .. Len(inbox'[u]) : inbox'[u][i] \notin pending'
  BY <1>2, <1>7 DEF QueueInv
<1>10. \A u, v \in Parsers : \A i \in 1 .. Len(inbox'[u]), j \in 1 .. Len(inbox'[v]) :
         inbox'[u][i] = inbox'[v][j] => u = v /\ i = j
  <2> SUFFICES ASSUME NEW u \in Parsers, NEW v \in Parsers,
                      NEW i \in 1 .. Len(inbox'[u]), NEW j \in 1 .. Len(inbox'[v]),
                      inbox'[u][i] = inbox'[v][j]
               PROVE  u = v /\ i = j
    OBVIOUS
  <2>1. PICK k \in 1 .. Len(inbox[u]) :
          inbox'[u][i] = inbox[u][k] /\ k = IF u = t THEN i + 1 ELSE i
    BY <1>7
  <2>2. PICK l \in 1 .. Len(inbox[v]) :
          inbox'[v][j] = inbox[v][l] /\ l = IF v = t THEN j + 1 ELSE j
    BY <1>7
  <2>3. u = v /\ k = l
    <3>1. inbox[u][k] = inbox[v][l]
      BY <2>1, <2>2
    <3> QED
      BY <3>1 DEF QueueInv
  <2>4. i \in Int /\ j \in Int
    OBVIOUS
  <2> QED
    BY <2>1, <2>2, <2>3, <2>4
<1>11. \A u \in Parsers : Busy(u)' => block'[u] \notin Waiting'
  BY <1>2, <1>5, <1>8 DEF QueueInv, Busy, TypeInv, TypeOK
<1>12. \A u, v \in Parsers : Busy(u)' /\ Busy(v)' /\ block'[u] = block'[v] => u = v
  BY <1>2, <1>5, <1>6 DEF QueueInv, Busy, TypeInv, TypeOK
<1>13. QueueInv'
  BY <1>9, <1>10, <1>11, <1>12 DEF QueueInv
<1> QED
  BY <1>5, <1>6, <1>8, <1>13

LEMMA EndQueues ==
  ASSUME TypeInv, QueueInv, NEW t \in Parsers, EndBlock(t)
  PROVE  QueueInv' /\ Waiting' = Waiting
<1>1. /\ UNCHANGED <<pending, inbox>>
      /\ pc' = [pc EXCEPT ![t] = "recv"]
      /\ block' = [block EXCEPT ![t] = NoBlock]
  BY DEF EndBlock, Goto, queueVars
<1>2. Waiting' = Waiting
  BY <1>1 DEF Waiting, Queued
<1>3. \A u \in Parsers : Busy(u)' => u # t /\ Busy(u) /\ block'[u] = block[u]
  BY <1>1 DEF Busy, TypeInv, TypeOK
<1> QED
  BY <1>1, <1>2, <1>3 DEF QueueInv

\* The steps of a parser inside its scan, which move pos forward or not at all.
LEMMA ScanAdvances ==
  ASSUME TypeInv, NEW t \in Parsers,
         \/ SkipUnnamed(t) \/ ScanNamed(t) \/ ReaderLock(t) \/ FindPublisher(t)
         \/ FindCrash(t) \/ Lookup(t) \/ MutexCall(t) \/ MutexNull(t)
         \/ MutexAcquire(t) \/ SendFilter(t) \/ SendEvent(t) \/ SendCrash(t)
         \/ MutexUnlock(t)
  PROVE  /\ UNCHANGED <<pending, inbox, block>>
         /\ \A u \in Parsers : Busy(u)' <=> Busy(u)
         /\ \A u \in Parsers :
              \/ pos'[u] = pos[u] /\ (pc'[u] = "unlock" <=> pc[u] = "unlock")
              \/ pos'[u] = pos[u] /\ pc'[u] = "unlock"
              \/ pos'[u] = pos[u] + 1
<1> USE DEF TypeInv, TypeOK, Goto, Busy, parserVars, queueVars
<1>1. CASE SkipUnnamed(t)
  BY <1>1 DEF SkipUnnamed
<1>2. CASE ScanNamed(t) \/ ReaderLock(t) \/ FindPublisher(t) \/ Lookup(t)
  BY <1>2 DEF ScanNamed, ReaderLock, FindPublisher, Lookup
<1>3. CASE FindCrash(t) \/ MutexNull(t) \/ SendCrash(t)
  BY <1>3 DEF FindCrash, MutexNull, SendCrash
<1>4. CASE MutexCall(t) \/ MutexAcquire(t) \/ SendFilter(t)
  BY <1>4 DEF MutexCall, MutexAcquire, SendFilter
<1>5. CASE SendEvent(t)
  BY <1>5 DEF SendEvent
<1>6. CASE MutexUnlock(t)
  BY <1>6 DEF MutexUnlock
<1> QED
  BY <1>1, <1>2, <1>3, <1>4, <1>5, <1>6

\* The steps of the other threads touch no parser, and no pipe but for Relay.
LEMMA OthersKeepParsers ==
  ASSUME Updater \/ UNCHANGED vars \/ \E p \in Publishers : LoseAnnouncement(p)
  PROVE  UNCHANGED <<pending, inbox, wire, pc, block, pos>>
  BY DEF Updater, RecvPublisher, AddNodeBegin, AddNodeEnd, WriterLock, InsertSock,
     InitMutex, InsertLock, WriterUnlock, vars, LoseAnnouncement, parserVars, queueVars

\* What has been handed over is never handed over again.
LEMMA SpentStays ==
  ASSUME TypeInv, QueueInv, [Next]_vars, NEW e \in Events, Spent(e)
  PROVE  QueueInv' /\ Spent(e)'
<1>1. e[1] \in Blocks /\ e[2] \in Nat /\ pos \in [Parsers -> Nat \ {0}]
  BY EventFields DEF TypeInv, TypeOK
<1>2. ASSUME NEW b \in Blocks, NEW t \in Parsers, Relay(b, t)
      PROVE  QueueInv' /\ Spent(e)'
  <2>1. QueueInv' /\ Waiting' = Waiting
    BY <1>2, RelayQueues
  <2>2. UNCHANGED <<pc, block, pos>>
    BY <1>2 DEF Relay, parserVars
  <2> QED
    BY <2>1, <2>2 DEF Spent, Busy
<1>3. ASSUME NEW t \in Parsers, RecvBlock(t)
      PROVE  QueueInv' /\ Spent(e)'
  <2>1. QueueInv' /\ block'[t] \in Waiting /\ Waiting' = Waiting \ {block'[t]}
    BY <1>3, RecvQueues
  <2>2. \A u \in Parsers : u # t => UNCHANGED <<pc[u], block[u], pos[u]>>
    BY <1>3 DEF RecvBlock, Goto, TypeInv, TypeOK
  <2> QED
    BY <2>1, <2>2 DEF Spent, Busy
<1>4. ASSUME NEW t \in Parsers, EndBlock(t)
      PROVE  QueueInv' /\ Spent(e)'
  <2>1. QueueInv' /\ Waiting' = Waiting
    BY <1>4, EndQueues
  <2>2. /\ pc'[t] = "recv"
        /\ \A u \in Parsers : u # t => UNCHANGED <<pc[u], block[u], pos[u]>>
    BY <1>4 DEF EndBlock, Goto, TypeInv, TypeOK
  <2> QED
    BY <2>1, <2>2 DEF Spent, Busy
<1>5. ASSUME NEW t \in Parsers, Parser(t), ~RecvBlock(t), ~EndBlock(t)
      PROVE  QueueInv' /\ Spent(e)'
  <2>1. /\ UNCHANGED <<pending, inbox, block>>
        /\ \A u \in Parsers : Busy(u)' <=> Busy(u)
        /\ \A u \in Parsers :
             \/ pos'[u] = pos[u] /\ (pc'[u] = "unlock" <=> pc[u] = "unlock")
             \/ pos'[u] = pos[u] /\ pc'[u] = "unlock"
             \/ pos'[u] = pos[u] + 1
    BY <1>5, ScanAdvances DEF Parser
  <2>2. QueueInv' /\ Waiting' = Waiting
    BY <2>1, StillQueued
  <2>3. ASSUME NEW u \in Parsers, Busy(u)', block'[u] = e[1]
        PROVE  e[2] < pos'[u] \/ (e[2] = pos'[u] /\ pc'[u] = "unlock")
    <3>1. e[2] < pos[u] \/ (e[2] = pos[u] /\ pc[u] = "unlock")
      BY <2>1, <2>3 DEF Spent
    <3>2. pos[u] \in Nat
      BY <1>1
    <3> QED
      BY <1>1, <2>1, <3>1, <3>2
  <2> QED
    BY <2>2, <2>3 DEF Spent
<1>6. ASSUME Updater \/ UNCHANGED vars \/ \E p \in Publishers : LoseAnnouncement(p)
      PROVE  QueueInv' /\ Spent(e)'
  <2>1. UNCHANGED <<pending, inbox, pc, block, pos>>
    BY <1>6, OthersKeepParsers
  <2>2. QueueInv' /\ Waiting' = Waiting
    BY <2>1, StillQueued DEF Busy
  <2> QED
    BY <2>1, <2>2 DEF Spent, Busy
<1> QED
  BY <1>2, <1>3, <1>4, <1>5, <1>6 DEF Next, Main

\* The event a parser has just handed over is spent.
LEMMA SendSpends ==
  ASSUME TypeInv, QueueInv, NEW t \in Parsers, SendEvent(t), NEW e, e = Current(t)
  PROVE  Spent(e)'
<1>1. /\ pc[t] = "event" /\ pc' = [pc EXCEPT ![t] = "unlock"]
      /\ UNCHANGED <<pending, inbox, block, pos>>
  BY DEF SendEvent, Goto, queueVars
<1>2. QueueInv' /\ Waiting' = Waiting
  BY <1>1, StillQueued DEF Busy, TypeInv, TypeOK
<1>3. pc'[t] = "unlock" /\ Busy(t)'
  BY <1>1 DEF Busy, TypeInv, TypeOK
<1>4. block'[t] \notin Waiting'
  BY <1>2, <1>3 DEF QueueInv
<1>5. \A u \in Parsers : Busy(u)' /\ block'[u] = block'[t] => u = t
  BY <1>2, <1>3 DEF QueueInv
<1>6. e[1] = block'[t] /\ e[2] = pos'[t]
  BY <1>1 DEF Current
<1> QED
  BY <1>3, <1>4, <1>5, <1>6 DEF Spent

\* A frame on a socket was there before, or is the one just handed over.
LEMMA FrameOrigin ==
  ASSUME TypeInv, NEW t \in Parsers, NEW part, SendFrame(t, part),
         NEW p \in Publishers, NEW k \in 1 .. Len(wire'[p])
  PROVE  \/ k \in 1 .. Len(wire[p]) /\ wire'[p][k] = wire[p][k]
         \/ /\ p = sock[t] /\ k = Len(wire[p]) + 1
            /\ wire'[p][k].part = part /\ wire'[p][k].of = Current(t)
<1> DEFINE f == [part |-> part, of |-> Current(t)]
<1>1. wire \in [Publishers -> Seq(Frames)] /\ wire[p] \in Seq(Frames)
  BY DEF TypeInv, TypeOK
<1>2. f.part = part /\ f.of = Current(t)
  OBVIOUS
<1>3. CASE p = sock[t]
  <2>1. wire'[p] = Append(wire[p], f)
    BY <1>1, <1>3 DEF SendFrame
  <2> HIDE DEF f
  <2> QED
    BY <1>1, <1>2, <1>3, <2>1
<1>4. CASE p # sock[t]
  <2>1. wire'[p] = wire[p]
    BY <1>1, <1>4 DEF SendFrame
  <2> QED
    BY <2>1
<1> QED
  BY <1>3, <1>4

\* A step that hands over no event keeps the order of those handed over.
LEMMA NoEventKeepsOrder ==
  ASSUME OrderInv, [Next]_vars,
         \A p \in Publishers : \A k \in 1 .. Len(wire'[p]) :
           wire'[p][k].part = "event" =>
             k \in 1 .. Len(wire[p]) /\ wire'[p][k] = wire[p][k]
  PROVE  SentInv' /\ InOrderAtMostOnce'
<1>1. SentInv'
  BY SpentStays DEF SentInv, OrderInv
<1>2. InOrderAtMostOnce'
  <2> SUFFICES ASSUME NEW p \in Publishers, NEW q \in Publishers,
                      NEW j \in 1 .. Len(wire'[p]), NEW k \in 1 .. Len(wire'[q]),
                      wire'[p][j].part = "event", wire'[q][k].part = "event",
                      wire'[p][j].of[1] = wire'[q][k].of[1]
               PROVE  /\ wire'[p][j].of = wire'[q][k].of => p = q /\ j = k
                      /\ p = q /\ j < k => wire'[p][j].of[2] < wire'[q][k].of[2]
    BY SMTT(40) DEF InOrderAtMostOnce
  <2>1. /\ j \in 1 .. Len(wire[p]) /\ wire'[p][j] = wire[p][j]
        /\ k \in 1 .. Len(wire[q]) /\ wire'[q][k] = wire[q][k]
    OBVIOUS
  <2> QED
    BY <2>1 DEF OrderInv, InOrderAtMostOnce
<1> QED
  BY <1>1, <1>2

LEMMA SendEventKeepsOrder ==
  ASSUME OrderInv, NEW t \in Parsers, SendEvent(t), [Next]_vars
  PROVE  SentInv' /\ InOrderAtMostOnce'
<1>1. PICK e : e = Current(t)
  OBVIOUS
<1>2. /\ pc[t] = "event" /\ Busy(t)
      /\ e[1] = block[t] /\ e[2] = pos[t] /\ SendFrame(t, "event")
  BY <1>1 DEF SendEvent, Goto, Busy, Current
<1>3. e \in Events /\ TypeInv /\ QueueInv /\ SentInv
  BY <1>1, <1>2, CurrentIsEvent DEF Dispatching, OrderInv
<1>4. \A p \in Publishers : \A k \in 1 .. Len(wire'[p]) :
        \/ k \in 1 .. Len(wire[p]) /\ wire'[p][k] = wire[p][k]
        \/ p = sock[t] /\ k = Len(wire[p]) + 1 /\ wire'[p][k].of = e
  BY <1>1, <1>2, <1>3, FrameOrigin
<1>5. \A d \in Events : Spent(d) => Spent(d)'
  BY <1>3, SpentStays
<1>6. Spent(e)'
  BY <1>1, <1>3, SendSpends
<1>7. SentInv'
  BY <1>3, <1>4, <1>5, <1>6 DEF SentInv
\* The events of this block handed over before come before this one.
<1>8. ASSUME NEW p \in Publishers, NEW k \in 1 .. Len(wire[p]),
             wire[p][k].part = "event", wire[p][k].of[1] = e[1]
      PROVE  wire[p][k].of[2] < e[2]
  <2>1. wire[p][k].of \in Events
    BY <1>3, FrameEvent
  <2>2. Spent(wire[p][k].of)
    BY <1>3, <1>8, <2>1 DEF SentInv
  <2> QED
    BY <1>2, <1>8, <2>2 DEF Spent
<1>9. \A p \in Publishers : Len(wire[p]) \in Nat
  BY <1>3 DEF TypeInv, TypeOK
<1>10. e[2] \in Nat
  BY <1>3, EventFields
<1>11. InOrderAtMostOnce'
  <2> SUFFICES ASSUME NEW p \in Publishers, NEW q \in Publishers,
                      NEW j \in 1 .. Len(wire'[p]), NEW k \in 1 .. Len(wire'[q]),
                      wire'[p][j].part = "event", wire'[q][k].part = "event",
                      wire'[p][j].of[1] = wire'[q][k].of[1]
               PROVE  /\ wire'[p][j].of = wire'[q][k].of => p = q /\ j = k
                      /\ p = q /\ j < k => wire'[p][j].of[2] < wire'[q][k].of[2]
    BY DEF InOrderAtMostOnce
  <2>1. CASE j \in 1 .. Len(wire[p]) /\ wire'[p][j] = wire[p][j]
    <3>1. CASE k \in 1 .. Len(wire[q]) /\ wire'[q][k] = wire[q][k]
      BY SMTT(40), <2>1, <3>1 DEF OrderInv, InOrderAtMostOnce
    <3>2. CASE wire'[q][k].of = e
      <4>1. wire'[p][j].of[2] < e[2]
        BY <1>8, <2>1, <3>2
      <4> QED
        BY <1>10, <3>2, <4>1
    <3> QED
      BY <1>4, <3>1, <3>2
  <2>2. CASE p = sock[t] /\ j = Len(wire[p]) + 1 /\ wire'[p][j].of = e
    <3>1. CASE k \in 1 .. Len(wire[q]) /\ wire'[q][k] = wire[q][k]
      <4>1. wire'[q][k].of[2] < e[2]
        BY <1>8, <2>2, <3>1
      <4>2. wire'[p][j].of # wire'[q][k].of
        BY <1>10, <2>2, <4>1
      <4>3. p = q => ~(j < k)
        BY <1>9, <2>2, <3>1
      <4> QED
        BY <4>2, <4>3
    <3>2. CASE q = sock[t] /\ k = Len(wire[q]) + 1 /\ wire'[q][k].of = e
      BY <1>9, <2>2, <3>2
    <3> QED
      BY <1>4, <3>1, <3>2
  <2> QED
    BY <1>4, <2>1, <2>2
<1> QED
  BY <1>7, <1>11

LEMMA StepOrderInv == OrderInv /\ [Next]_vars => OrderInv'
<1> SUFFICES ASSUME OrderInv, [Next]_vars PROVE OrderInv'
  OBVIOUS
<1>1. TypeInv /\ QueueInv /\ TypeInv'
  BY StepTypeInv DEF OrderInv
<1>2. QueueInv'
  <2>1. ASSUME NEW b \in Blocks, NEW t \in Parsers, Relay(b, t) PROVE QueueInv'
    BY <1>1, <2>1, RelayQueues
  <2>2. ASSUME NEW t \in Parsers, Parser(t) PROVE QueueInv'
    BY <1>1, <2>2, RecvQueues, EndQueues, ScanAdvances, StillQueued DEF Parser
  <2>3. ASSUME Updater \/ UNCHANGED vars \/ \E p \in Publishers : LoseAnnouncement(p)
        PROVE  QueueInv'
    BY <1>1, <2>3, OthersKeepParsers, StillQueued DEF Busy
  <2> QED
    BY <2>1, <2>2, <2>3 DEF Next, Main
<1>3. SentInv' /\ InOrderAtMostOnce'
  <2>1. ASSUME NEW t \in Parsers, SendEvent(t) PROVE SentInv' /\ InOrderAtMostOnce'
    BY <2>1, SendEventKeepsOrder
  <2>2. ASSUME NEW t \in Parsers, SendFilter(t) PROVE SentInv' /\ InOrderAtMostOnce'
    <3>1. \A p \in Publishers : \A k \in 1 .. Len(wire'[p]) :
            \/ k \in 1 .. Len(wire[p]) /\ wire'[p][k] = wire[p][k]
            \/ wire'[p][k].part = "filter"
      BY <1>1, <2>2, FrameOrigin DEF SendFilter
    <3> QED
      BY <3>1, NoEventKeepsOrder
  <2>3. CASE UNCHANGED wire
    BY <2>3, NoEventKeepsOrder
  <2>4. ASSUME NEW t \in Parsers, Parser(t), ~SendEvent(t), ~SendFilter(t)
        PROVE  UNCHANGED wire
    BY <2>4 DEF Parser, RecvBlock, EndBlock, SkipUnnamed, ScanNamed, ReaderLock,
       FindPublisher, FindCrash, Lookup, MutexCall, MutexNull, MutexAcquire,
       SendCrash, MutexUnlock
  <2>5. Main => UNCHANGED wire
    BY DEF Main, Relay
  <2> QED
    BY <2>1, <2>2, <2>3, <2>4, <2>5, OthersKeepParsers DEF Next
<1> QED
  BY <1>1, <1>2, <1>3 DEF OrderInv

\* Whatever arrives when, and whether or not the sockets are shared safely: an
\* event is handed to one publisher, once, and the events of a block reach a
\* socket in the order in which the kernel wrote them.
THEOREM EventsInOrderAtMostOnce == Spec => []InOrderAtMostOnce
<1>1. OrderInv => InOrderAtMostOnce
  BY DEF OrderInv
<1> QED
  BY <1>1, InitOrderInv, StepOrderInv, PTL DEF Spec

-----------------------------------------------------------------------------
(* The elements of a list that are in a set, in their order                *)

Upto(K, k) == {l \in K : l <= k}

\* How many the first numbers are.
LEMMA FirstNumbers ==
  ASSUME NEW n \in Nat
  PROVE  IsFiniteSet(1 .. n) /\ Cardinality(1 .. n) = n
<1>1. 1 \in Int /\ n \in Int
  OBVIOUS
<1>2. IsFiniteSet(1 .. n) /\ Cardinality(1 .. n) = IF 1 > n THEN 0 ELSE n - 1 + 1
  BY <1>1, FS_Interval
<1> QED
  BY <1>2

\* Nth counts a finite set of numbers from its least one.
LEMMA Ranks ==
  ASSUME NEW K \in SUBSET Nat, IsFiniteSet(K)
  PROVE  /\ Cardinality(K) \in Nat
         /\ \A j \in 1 .. Cardinality(K) : Nth(K, j) \in K
         /\ \A k \in K : \E j \in 1 .. Cardinality(K) : Nth(K, j) = k
         /\ \A i, j \in 1 .. Cardinality(K) : i < j <=> Nth(K, i) < Nth(K, j)
<1> PICK n \in Nat : n = Cardinality(K)
  BY FS_CardinalityType
<1> DEFINE rank == [k \in K |-> Cardinality(Upto(K, k))]
<1>1. \A k \in K : IsFiniteSet(Upto(K, k)) /\ rank[k] \in 1 .. n
  <2> TAKE k \in K
  <2>1. Upto(K, k) \in SUBSET K /\ k \in Upto(K, k)
    BY DEF Upto
  <2>2. IsFiniteSet(Upto(K, k)) /\ Cardinality(Upto(K, k)) <= n
    BY <2>1, FS_Subset
  <2>3. Cardinality(Upto(K, k)) \in Nat /\ Cardinality(Upto(K, k)) # 0
    BY <2>1, <2>2, FS_CardinalityType, FS_EmptySet
  <2> QED
    BY <2>2, <2>3
<1>2. \A k, l \in K : k < l => rank[k] < rank[l]
  <2> SUFFICES ASSUME NEW k \in K, NEW l \in K, k < l PROVE rank[k] < rank[l]
    OBVIOUS
  <2>1. /\ Upto(K, k) \in SUBSET Upto(K, l)
        /\ l \in Upto(K, l) /\ l \notin Upto(K, k)
    <3> k \in Nat /\ l \in Nat /\ \A x \in K : x \in Nat
      OBVIOUS
    <3>1. \A x \in K : x <= k => x <= l
      OBVIOUS
    <3>2. Upto(K, k) \subseteq Upto(K, l)
      BY <3>1 DEF Upto
    <3>3. l \in Upto(K, l) /\ l \notin Upto(K, k)
      BY DEF Upto
    <3> QED
      BY <3>2, <3>3
  <2>2. /\ Cardinality(Upto(K, k)) <= Cardinality(Upto(K, l))
        /\ Cardinality(Upto(K, k)) # Cardinality(Upto(K, l))
    BY <1>1, <2>1, FS_Subset
  <2> QED
    BY <1>1, <2>2
<1>3. rank \in Injection(K, 1 .. n)
  <2>1. rank \in [K -> 1 .. n]
    BY <1>1
  <2>2. \A k, l \in K : rank[k] = rank[l] => k = l
    <3> SUFFICES ASSUME NEW k \in K, NEW l \in K, rank[k] = rank[l], k # l PROVE FALSE
      OBVIOUS
    <3>1. k < l \/ l < k
      OBVIOUS
    <3>2. rank[k] < rank[l] \/ rank[l] < rank[k]
      BY <1>2, <3>1
    <3> QED
      BY <1>1, <3>2
  <2> QED
    BY <2>1, <2>2 DEF Injection, IsInjective
<1>4. IsFiniteSet(1 .. n) /\ Cardinality(1 .. n) = n
  BY FirstNumbers
<1>5. rank \in Surjection(K, 1 .. n)
  BY <1>3, <1>4, FS_Injection
<1>6. \A j \in 1 .. n : Nth(K, j) \in K /\ rank[Nth(K, j)] = j
  <2> TAKE j \in 1 .. n
  <2>1. \E k \in K : Cardinality(Upto(K, k)) = j
    BY <1>5 DEF Surjection
  <2> QED
    BY <2>1 DEF Nth, Upto
<1> HIDE DEF rank
<1>7. \A k \in K : Nth(K, rank[k]) = k
  <2> TAKE k \in K
  <2>1. Nth(K, rank[k]) \in K /\ rank[Nth(K, rank[k])] = rank[k]
    BY <1>1, <1>6
  <2> QED
    BY <1>3, <2>1 DEF Injection, IsInjective
<1>8. \A i, j \in 1 .. n : i < j <=> Nth(K, i) < Nth(K, j)
  <2> TAKE i, j \in 1 .. n
  <2>1. PICK k \in K, l \in K : k = Nth(K, i) /\ l = Nth(K, j) /\ rank[k] = i /\ rank[l] = j
    BY <1>6
  <2>2. k < l => i < j
    BY <1>2, <2>1
  <2>3. l < k => j < i
    BY <1>2, <2>1
  <2>4. k = l => i = j
    BY <2>1
  <2> QED
    BY <2>1, <2>2, <2>3, <2>4
<1> QED
  BY <1>1, <1>6, <1>7, <1>8

Once(q) == \A i, j \in DOMAIN q : q[i] = q[j] => i = j
Before(q, a, b) == \E i, j \in DOMAIN q : i < j /\ q[i] = a /\ q[j] = b

\* Only keeps the elements that are in S, each as often as it was, in their order.
LEMMA OnlyList ==
  ASSUME NEW I, NEW list \in Seq(I), NEW S
  PROVE  /\ Only(list, S) \in Seq(I)
         /\ ToSet(Only(list, S)) = ToSet(list) \cap S
         /\ Once(list) => Once(Only(list, S))
         /\ \A a, b : Before(Only(list, S), a, b) => Before(list, a, b)
         /\ \A a, b \in S : Before(list, a, b) => Before(Only(list, S), a, b)
<1> PICK m \in Nat : m = Len(list)
  OBVIOUS
<1> DEFINE K == {k \in DOMAIN list : list[k] \in S}
<1>1. DOMAIN list = 1 .. m /\ K \in SUBSET Nat
  OBVIOUS
<1>2. IsFiniteSet(K)
  <2>1. IsFiniteSet(1 .. m) /\ K \in SUBSET (1 .. m)
    BY <1>1, FirstNumbers
  <2> QED
    BY <2>1, FS_Subset
<1>3. PICK n \in Nat : n = Cardinality(K)
  BY <1>2, FS_CardinalityType
<1>4. /\ \A j \in 1 .. n : Nth(K, j) \in K
      /\ \A k \in K : \E j \in 1 .. n : Nth(K, j) = k
      /\ \A i, j \in 1 .. n : i < j <=> Nth(K, i) < Nth(K, j)
  BY <1>1, <1>2, <1>3, Ranks
<1>5. PICK q : q = Only(list, S)
  OBVIOUS
<1>6. q = [j \in 1 .. n |-> list[Nth(K, j)]]
  BY <1>3, <1>5 DEF Only
<1>7. \A k \in K : k \in 1 .. m /\ list[k] \in S /\ list[k] \in I
  BY <1>1
<1>8. \A k \in 1 .. m : list[k] \in S => k \in K
  BY <1>1
<1> HIDE DEF K
<1>9. q \in Seq(I) /\ DOMAIN q = 1 .. n
  BY <1>4, <1>6, <1>7
<1>10. ToSet(q) = ToSet(list) \cap S
  BY <1>1, <1>4, <1>6, <1>7, <1>8, <1>9 DEF ToSet
<1>11. Once(list) => Once(q)
  <2> SUFFICES ASSUME Once(list), NEW i \in 1 .. n, NEW j \in 1 .. n, q[i] = q[j]
               PROVE  i = j
    BY <1>9 DEF Once
  <2>1. Nth(K, i) = Nth(K, j)
    BY <1>1, <1>4, <1>6, <1>7 DEF Once
  <2>2. ~(i < j) /\ ~(j < i)
    BY <1>1, <1>4, <1>7, <2>1
  <2> QED
    BY <2>2
<1>12. ASSUME NEW a, NEW b, Before(q, a, b)
       PROVE  Before(list, a, b)
  <2>1. PICK i \in 1 .. n, j \in 1 .. n : i < j /\ q[i] = a /\ q[j] = b
    BY <1>9, <1>12 DEF Before
  <2>2. /\ Nth(K, i) \in 1 .. m /\ Nth(K, j) \in 1 .. m /\ Nth(K, i) < Nth(K, j)
        /\ list[Nth(K, i)] = a /\ list[Nth(K, j)] = b
    BY <1>4, <1>6, <1>7, <2>1
  <2> QED
    BY <1>1, <2>2 DEF Before
<1>13. ASSUME NEW a \in S, NEW b \in S, Before(list, a, b)
       PROVE  Before(q, a, b)
  <2>1. PICK k \in 1 .. m, l \in 1 .. m : k < l /\ list[k] = a /\ list[l] = b
    BY <1>1, <1>13 DEF Before
  <2>2. PICK i \in 1 .. n : Nth(K, i) = k
    BY <1>4, <1>8, <2>1
  <2>3. PICK j \in 1 .. n : Nth(K, j) = l
    BY <1>4, <1>8, <2>1
  <2>4. i < j /\ q[i] = a /\ q[j] = b
    BY <1>4, <1>6, <2>1, <2>2, <2>3
  <2> QED
    BY <1>9, <2>4 DEF Before
<1> QED
  BY <1>5, <1>9, <1>10, <1>11, <1>12, <1>13

\* The first i elements of a list without repetitions.
LEMMA FirstFew ==
  ASSUME NEW I, NEW q \in Seq(I), Once(q), NEW i \in DOMAIN q
  PROVE  Cardinality({a \in ToSet(q) : a = q[i] \/ Before(q, a, q[i])}) = i
<1> DEFINE F == {a \in ToSet(q) : a = q[i] \/ Before(q, a, q[i])}
<1> DEFINE f == [k \in 1 .. i |-> q[k]]
<1>1. i \in Nat /\ 1 .. i \subseteq DOMAIN q /\ DOMAIN q \subseteq Nat /\ i \in 1 .. i
  OBVIOUS
<1>2. \A k \in 1 .. i : q[k] \in F
  <2> TAKE k \in 1 .. i
  <2>1. k < i \/ k = i
    OBVIOUS
  <2> QED
    BY <1>1, <2>1 DEF Before, ToSet
<1>3. \A a \in F : \E k \in 1 .. i : q[k] = a
  <2> TAKE a \in F
  <2>1. CASE a = q[i]
    BY <1>1, <2>1
  <2>2. CASE Before(q, a, q[i])
    <3>1. PICK k \in DOMAIN q, l \in DOMAIN q : k < l /\ q[k] = a /\ q[l] = q[i]
      BY <2>2 DEF Before
    <3>2. l = i
      BY <3>1 DEF Once
    <3>3. k \in 1 .. i
      BY <3>1, <3>2
    <3> QED
      BY <3>1, <3>3
  <2> QED
    BY <2>1, <2>2
<1>4. \A k, l \in 1 .. i : q[k] = q[l] => k = l
  BY <1>1 DEF Once
<1>5. f \in Bijection(1 .. i, F)
  BY <1>2, <1>3, <1>4 DEF Bijection, Injection, Surjection, IsInjective
<1>6. IsFiniteSet(1 .. i) /\ Cardinality(1 .. i) = i
  BY <1>1, FirstNumbers
<1> QED
  BY <1>5, <1>6, FS_Bijection DEF ExistsBijection

\* A list without repetitions is as long as the set of its elements is large.
LEMMA OnceLength ==
  ASSUME NEW I, NEW q \in Seq(I)
  PROVE  Once(q) <=> Cardinality(ToSet(q)) = Len(q)
<1> PICK n \in Nat : n = Len(q) /\ DOMAIN q = 1 .. n
  OBVIOUS
<1> DEFINE f == [k \in 1 .. n |-> q[k]]
<1>1. f \in Surjection(1 .. n, ToSet(q))
  BY DEF Surjection, ToSet
<1>2. IsFiniteSet(1 .. n) /\ Cardinality(1 .. n) = n
  BY FirstNumbers
<1>3. Cardinality(ToSet(q)) = n <=> f \in Injection(1 .. n, ToSet(q))
  BY <1>1, <1>2, FS_Surjection
<1>4. f \in Injection(1 .. n, ToSet(q)) <=> Once(q)
  BY <1>1 DEF Once, Injection, IsInjective, Surjection
<1> QED
  BY <1>3, <1>4

\* A list without repetitions is known by its elements and their order.
LEMMA SameList ==
  ASSUME NEW I, NEW p \in Seq(I), NEW q \in Seq(I), Once(p), Once(q), ToSet(p) = ToSet(q),
         \A a, b : Before(p, a, b) <=> Before(q, a, b)
  PROVE  p = q
<1>1. Len(p) = Len(q)
  BY OnceLength
<1>2. ASSUME NEW i \in 1 .. Len(p) PROVE p[i] = q[i]
  <2> i \in DOMAIN p
    OBVIOUS
  <2>0. p[i] \in ToSet(q)
    BY DEF ToSet
  <2>1. PICK j \in DOMAIN q : q[j] = p[i]
    BY <2>0 DEF ToSet
  <2>2. Cardinality({a \in ToSet(p) : a = p[i] \/ Before(p, a, p[i])}) = i
    BY <1>2, FirstFew
  <2>3. Cardinality({a \in ToSet(q) : a = q[j] \/ Before(q, a, q[j])}) = j
    BY FirstFew
  <2>4. {a \in ToSet(p) : a = p[i] \/ Before(p, a, p[i])}
          = {a \in ToSet(q) : a = q[j] \/ Before(q, a, q[j])}
    BY <2>1
  <2> QED
    BY <2>1, <2>2, <2>3, <2>4
<1> QED
  BY <1>1, <1>2

\* A list without repetitions orders its elements.
LEMMA InOrder ==
  ASSUME NEW I, NEW q \in Seq(I), Once(q)
  PROVE  /\ \A a, b : Before(q, a, b) => a \in ToSet(q) /\ b \in ToSet(q) /\ ~Before(q, b, a)
         /\ \A a, b \in ToSet(q) : a = b \/ Before(q, a, b) \/ Before(q, b, a)
         /\ \A a : ~Before(q, a, a)
<1>1. \A a, b : Before(q, a, b) => a \in ToSet(q) /\ b \in ToSet(q) /\ ~Before(q, b, a)
  BY DEF Before, Once, ToSet
<1>2. ASSUME NEW a \in ToSet(q), NEW b \in ToSet(q)
      PROVE  a = b \/ Before(q, a, b) \/ Before(q, b, a)
  <2>1. PICK i \in DOMAIN q, j \in DOMAIN q : q[i] = a /\ q[j] = b
    BY DEF ToSet
  <2>2. i < j \/ j < i \/ i = j
    OBVIOUS
  <2> QED
    BY <2>1, <2>2 DEF Before
<1> QED
  BY <1>1, <1>2

\* Elements and order determine a list: what has those of Only is Only.
LEMMA OnlyIs ==
  ASSUME NEW I, NEW list \in Seq(I), NEW S, NEW q \in Seq(I), Once(list), Once(q),
         ToSet(q) = ToSet(list) \cap S,
         \A a, b \in ToSet(q) : Before(list, a, b) => Before(q, a, b)
  PROVE  q = Only(list, S)
<1> PICK p : p = Only(list, S)
  OBVIOUS
<1>1. /\ p \in Seq(I) /\ ToSet(p) = ToSet(q) /\ Once(p)
      /\ \A a, b : Before(p, a, b) => Before(list, a, b)
      /\ \A a, b \in S : Before(list, a, b) => Before(p, a, b)
  BY OnlyList
<1>2. \A a, b : Before(p, a, b) => Before(q, a, b)
  BY <1>1, InOrder
<1>3. ASSUME NEW a, NEW b, Before(q, a, b) PROVE Before(p, a, b)
  <2>1. a \in ToSet(p) /\ b \in ToSet(p) /\ ~Before(q, b, a) /\ a # b
    BY <1>1, <1>3, InOrder
  <2>2. a = b \/ Before(p, a, b) \/ Before(p, b, a)
    BY <1>1, <2>1, InOrder
  <2> QED
    BY <1>2, <2>1, <2>2
<1> QED
  BY <1>1, <1>2, <1>3, SameList

\* Without removes the elements of D and nothing else.
LEMMA WithoutList ==
  ASSUME NEW I, NEW list \in Seq(I), Once(list), NEW D
  PROVE  /\ Without(list, D) \in Seq(I) /\ Once(Without(list, D))
         /\ ToSet(Without(list, D)) = ToSet(list) \ D
         /\ \A a, b : Before(Without(list, D), a, b) => Before(list, a, b)
         /\ \A a, b : Before(list, a, b) /\ a \notin D /\ b \notin D =>
                        Before(Without(list, D), a, b)
<1> PICK S : S = ToSet(list) \ D
  OBVIOUS
<1>1. Without(list, D) = Only(list, S)
  BY DEF Without
<1>2. \A a, b : Before(list, a, b) => a \in ToSet(list) /\ b \in ToSet(list)
  BY InOrder
<1> QED
  BY <1>1, <1>2, OnlyList

\* Without changes nothing when no element is to be removed.
LEMMA WithoutNone ==
  ASSUME NEW I, NEW list \in Seq(I), Once(list), NEW D, D \cap ToSet(list) = {}
  PROVE  Without(list, D) = list
<1>1. Without(list, D) = Only(list, ToSet(list) \ D)
  BY DEF Without
<1> QED
  BY <1>1, OnlyIs

\* What is taken from a list is taken from its parts.
LEMMA OnlyOfWithout ==
  ASSUME NEW I, NEW list \in Seq(I), Once(list), NEW D, NEW S
  PROVE  Only(Without(list, D), S) = Without(Only(list, S), D)
<1> PICK p : p = Without(list, D)
  OBVIOUS
<1> PICK o : o = Only(list, S)
  OBVIOUS
<1> PICK q : q = Without(o, D)
  OBVIOUS
<1>1. /\ o \in Seq(I) /\ Once(o) /\ ToSet(o) = ToSet(list) \cap S
      /\ \A a, b \in S : Before(list, a, b) => Before(o, a, b)
  BY OnlyList
<1>2. /\ p \in Seq(I) /\ Once(p) /\ ToSet(p) = ToSet(list) \ D
      /\ \A a, b : Before(p, a, b) => Before(list, a, b)
  BY WithoutList
<1>3. /\ q \in Seq(I) /\ Once(q) /\ ToSet(q) = ToSet(o) \ D
      /\ \A a, b : Before(o, a, b) /\ a \notin D /\ b \notin D => Before(q, a, b)
  BY <1>1, WithoutList
<1>4. ToSet(q) = ToSet(p) \cap S
  BY <1>1, <1>2, <1>3
<1>5. \A a, b \in ToSet(q) : Before(p, a, b) => Before(q, a, b)
  BY <1>1, <1>2, <1>3
<1>6. q = Only(p, S)
  BY <1>2, <1>3, <1>4, <1>5, OnlyIs
<1> QED
  BY <1>6

\* A list is its head and its tail.
LEMMA HeadAndTail ==
  ASSUME NEW I, NEW q \in Seq(I), q # <<>>
  PROVE  /\ Head(q) \in I /\ Head(q) = q[1] /\ Head(q) \in ToSet(q)
         /\ Tail(q) \in Seq(I) /\ Len(Tail(q)) = Len(q) - 1
         /\ ToSet(Tail(q)) \subseteq ToSet(q)
         /\ ToSet(q) = ToSet(Tail(q)) \cup {Head(q)}
         /\ \A k \in DOMAIN Tail(q) : k + 1 \in DOMAIN q /\ Tail(q)[k] = q[k + 1]
<1> PICK n \in Nat : n = Len(q) /\ DOMAIN q = 1 .. n /\ n > 0
  OBVIOUS
<1> PICK t : t = Tail(q)
  OBVIOUS
<1>1. /\ Head(q) \in I /\ Head(q) = q[1] /\ 1 \in DOMAIN q
      /\ t \in Seq(I) /\ Len(t) = n - 1 /\ DOMAIN t = 1 .. n - 1
      /\ \A k \in DOMAIN t : k + 1 \in DOMAIN q /\ t[k] = q[k + 1]
  OBVIOUS
<1>2. Head(q) \in ToSet(q)
  BY <1>1 DEF ToSet
<1>3. ToSet(t) \subseteq ToSet(q)
  BY <1>1 DEF ToSet
<1>4. ASSUME NEW x \in ToSet(q), x # Head(q) PROVE x \in ToSet(t)
  <2>1. PICK k \in 1 .. n : q[k] = x
    BY DEF ToSet
  <2>2. k # 1
    BY <1>1, <1>4, <2>1
  <2>3. k - 1 \in DOMAIN t /\ t[k - 1] = x
    BY <1>1, <2>1, <2>2
  <2> QED
    BY <2>3 DEF ToSet
<1> QED
  BY <1>1, <1>2, <1>3, <1>4

\* Without its head, a list without repetitions is its tail.
LEMMA WithoutHead ==
  ASSUME NEW I, NEW q \in Seq(I), Once(q), q # <<>>
  PROVE  /\ Without(q, {Head(q)}) = Tail(q)
         /\ Once(Tail(q)) /\ Head(q) \notin ToSet(Tail(q))
<1> PICK n \in Nat : n = Len(q) /\ DOMAIN q = 1 .. n /\ n > 0
  OBVIOUS
<1> PICK t : t = Tail(q)
  OBVIOUS
<1> PICK h : h = Head(q)
  OBVIOUS
<1>1. /\ t \in Seq(I) /\ DOMAIN t = 1 .. n - 1 /\ h = q[1]
      /\ \A k \in DOMAIN t : k + 1 \in DOMAIN q /\ t[k] = q[k + 1]
      /\ ToSet(q) = ToSet(t) \cup {h}
  BY HeadAndTail
<1>2. Once(t)
  BY <1>1 DEF Once
<1>3. h \notin ToSet(t)
  <2> SUFFICES ASSUME NEW k \in DOMAIN t, t[k] = h PROVE FALSE
    BY DEF ToSet
  <2>1. k + 1 \in 1 .. n /\ k + 1 # 1 /\ q[k + 1] = q[1]
    BY <1>1
  <2> QED
    BY <2>1 DEF Once
<1>4. ToSet(t) = ToSet(q) \cap (ToSet(q) \ {h})
  BY <1>1, <1>3
<1>5. \A a, b \in ToSet(t) : Before(q, a, b) => Before(t, a, b)
  <2> SUFFICES ASSUME NEW a \in ToSet(t), NEW b \in ToSet(t), Before(q, a, b)
               PROVE  Before(t, a, b)
    OBVIOUS
  <2>1. PICK i \in 1 .. n, j \in 1 .. n : i < j /\ q[i] = a /\ q[j] = b
    BY DEF Before
  <2>2. i # 1
    BY <1>1, <1>3, <2>1
  <2>3. /\ i - 1 \in DOMAIN t /\ j - 1 \in DOMAIN t /\ i - 1 < j - 1
        /\ t[i - 1] = a /\ t[j - 1] = b
    BY <1>1, <2>1, <2>2
  <2> QED
    BY <2>3 DEF Before
<1>6. t = Only(q, ToSet(q) \ {h})
  BY <1>1, <1>2, <1>4, <1>5, OnlyIs
<1> QED
  BY <1>2, <1>3, <1>6 DEF Without

\* An element appended is the last one.
LEMMA Added ==
  ASSUME NEW I, NEW q \in Seq(I), NEW x \in I
  PROVE  /\ Append(q, x) \in Seq(I) /\ Append(q, x) # <<>> /\ Len(Append(q, x)) = Len(q) + 1
         /\ ToSet(Append(q, x)) = ToSet(q) \cup {x}
         /\ Append(q, x)[Len(q) + 1] = x
         /\ \A k \in DOMAIN q : k \in DOMAIN Append(q, x) /\ Append(q, x)[k] = q[k]
         /\ \A k \in DOMAIN Append(q, x) : k \in DOMAIN q \/ k = Len(q) + 1
         /\ Once(q) /\ x \notin ToSet(q) => Once(Append(q, x))
         /\ \A a, b : Before(q, a, b) => Before(Append(q, x), a, b)
         /\ \A a, b : Before(Append(q, x), a, b) =>
                        Before(q, a, b) \/ (a \in ToSet(q) /\ b = x)
         /\ \A a \in ToSet(q) : Before(Append(q, x), a, x)
<1> PICK n \in Nat : n = Len(q) /\ DOMAIN q = 1 .. n
  OBVIOUS
<1> PICK r : r = Append(q, x)
  OBVIOUS
<1>1. /\ r \in Seq(I) /\ r # <<>> /\ Len(r) = n + 1 /\ DOMAIN r = 1 .. n + 1 /\ r[n + 1] = x
      /\ \A k \in 1 .. n : k \in 1 .. n + 1 /\ r[k] = q[k]
  OBVIOUS
<1>2. \A k \in 1 .. n + 1 : k \in 1 .. n \/ k = n + 1
  OBVIOUS
<1>3. n + 1 \in 1 .. n + 1
  OBVIOUS
<1>4. ToSet(r) = ToSet(q) \cup {x}
  BY <1>1, <1>2, <1>3 DEF ToSet
<1>5. Once(q) /\ x \notin ToSet(q) => Once(r)
  BY <1>1, <1>2 DEF Once, ToSet
<1>6. \A a, b : Before(q, a, b) => Before(r, a, b)
  BY <1>1 DEF Before
<1>7. ASSUME NEW a, NEW b, Before(r, a, b)
      PROVE  Before(q, a, b) \/ (a \in ToSet(q) /\ b = x)
  <2>1. PICK i \in 1 .. n + 1, j \in 1 .. n + 1 : i < j /\ r[i] = a /\ r[j] = b
    BY <1>1, <1>7 DEF Before
  <2>2. i \in 1 .. n
    BY <2>1
  <2>3. CASE j \in 1 .. n
    BY <1>1, <2>1, <2>2, <2>3 DEF Before
  <2>4. CASE j = n + 1
    BY <1>1, <2>1, <2>2, <2>4 DEF ToSet
  <2> QED
    BY <1>2, <2>3, <2>4
<1>8. ASSUME NEW a \in ToSet(q) PROVE Before(r, a, x)
  <2>1. PICK i \in 1 .. n : q[i] = a
    BY DEF ToSet
  <2>2. i \in DOMAIN r /\ i < n + 1 /\ r[i] = a
    BY <1>1, <2>1
  <2> QED
    BY <1>1, <1>3, <2>2 DEF Before
<1> QED
  BY <1>1, <1>2, <1>4, <1>5, <1>6, <1>7, <1>8

\* What is appended to a list is appended to its elements in S, if it is one.
LEMMA OnlyAppended ==
  ASSUME NEW I, NEW list \in Seq(I), Once(list), NEW x \in I, x \notin ToSet(list), NEW S
  PROVE  Only(Append(list, x), S) = IF x \in S THEN Append(Only(list, S), x) ELSE Only(list, S)
<1> PICK o : o = Only(list, S)
  OBVIOUS
<1> PICK r : r = Append(list, x)
  OBVIOUS
<1>1. /\ o \in Seq(I) /\ Once(o) /\ ToSet(o) = ToSet(list) \cap S
      /\ \A a, b \in S : Before(list, a, b) => Before(o, a, b)
  BY OnlyList
<1>2. /\ r \in Seq(I) /\ Once(r) /\ ToSet(r) = ToSet(list) \cup {x}
      /\ \A a, b : Before(r, a, b) => Before(list, a, b) \/ (a \in ToSet(list) /\ b = x)
  BY Added
<1>3. CASE x \in S
  <2> PICK q : q = Append(o, x)
    OBVIOUS
  <2>1. /\ q \in Seq(I) /\ Once(q) /\ ToSet(q) = ToSet(o) \cup {x}
        /\ \A a, b : Before(o, a, b) => Before(q, a, b)
        /\ \A a \in ToSet(o) : Before(q, a, x)
    BY <1>1, Added
  <2>2. ToSet(q) = ToSet(r) \cap S
    BY <1>1, <1>2, <1>3, <2>1
  <2>3. \A a, b \in ToSet(q) : Before(r, a, b) => Before(q, a, b)
    BY <1>1, <1>2, <1>3, <2>1
  <2>4. q = Only(r, S)
    BY <1>2, <2>1, <2>2, <2>3, OnlyIs
  <2> QED
    BY <1>3, <2>4
<1>4. CASE x \notin S
  <2>1. ToSet(o) = ToSet(r) \cap S
    BY <1>1, <1>2, <1>4
  <2>2. \A a, b \in ToSet(o) : Before(r, a, b) => Before(o, a, b)
    BY <1>1, <1>2, <1>4, <2>1
  <2>3. o = Only(r, S)
    BY <1>1, <1>2, <2>1, <2>2, OnlyIs
  <2> QED
    BY <1>4, <2>3
<1> QED
  BY <1>3, <1>4

-----------------------------------------------------------------------------
(* The inductive invariant of the broker pattern                           *)

OfService(s) == {i \in Ids : Service(i) = s}

Lists == [workers : SUBSET Ids, waiting : Seq(Ids), idle : [Services -> Seq(Ids)],
          requests : [Services -> Seq(Attempts)], count : [Services -> Nat]]

\* The lists of broker b, between two handlers and within one.
InStep(b) ==
  /\ b \in Lists
  /\ IsFiniteSet(b.workers) /\ Once(b.waiting) /\ ToSet(b.waiting) \subseteq b.workers
  /\ \A s \in Services :
       /\ b.idle[s] = Only(b.waiting, OfService(s)) /\ Once(b.requests[s])
       /\ b.count[s] = Cardinality(b.workers \cap OfService(s))

\* No request waits while a worker of its service does.
Paced(b, s) == b.requests[s] = <<>> \/ b.idle[s] = <<>>

FromWorkers == {READY, HEARTBEAT} \cup {REPLY(a) : a \in Attempts}
ToWorkers == {DISCONNECT} \cup {REQUEST(a) : a \in Attempts}

Lacks(list, command) == \A k \in DOMAIN list : list[k].command # command
Sole(list, command) ==
  \A k, l \in DOMAIN list : list[k].command = command /\ list[l].command = command => k = l

Serving(i) == session[i[1]] = i[2] /\ wstate[i[1]] = "busy"
Unused(i) == i[2] > session[i[1]]

\* A socket carries one job at a time, none before its READY has been taken, and none
\* while its worker waits: of socket i, u is on its way to broker b and d from it.
Fits(i, b, u, d, serving, unused) ==
  /\ Sole(d, "REQUEST") /\ Sole(u, "REPLY")
  /\ Lacks(d, "REQUEST") \/ Lacks(u, "REPLY")
  /\ serving => Lacks(d, "REQUEST") /\ Lacks(u, "REPLY")
  /\ i \in ToSet(b.waiting) => Lacks(d, "REQUEST") /\ Lacks(u, "REPLY") /\ ~serving
  /\ READY \in ToSet(u) => u = <<READY>> /\ d = <<>> /\ i \notin b.workers /\ ~serving
  /\ unused => u = <<>> /\ d = <<>> /\ i \notin b.workers

SocketOK(i) == Fits(i, broker, up[i], down[i], Serving(i), Unused(i))

\* Attempt a, or its reply, is at L.
Held(L, a) ==
  \/ L = <<"asked">> /\ a \in asked
  \/ \E r \in {"200", "404", "reply"} : L = <<"answered", r>> /\ <<a, r>> \in answers
  \/ \E s \in Services : L = <<"queued", s>> /\ a \in ToSet(broker.requests[s])
  \/ \E i \in Ids : L = <<"up", i>> /\ REPLY(a) \in ToSet(up[i])
  \/ \E i \in Ids : L = <<"down", i>> /\ REQUEST(a) \in ToSet(down[i])
  \/ \E w \in Workers : L = <<"job", w>> /\ wstate[w] = "busy" /\ job[w] = a

OnePlace == \A a \in Attempts : \A L, M : Held(L, a) /\ Held(M, a) => L = M

\* What is on its way was made by its client; it has been served once, or not yet.
HeldOK ==
  \A a \in Attempts : \A L :
    Held(L, a) => RR!Made(a) /\ served[a] = IF L[1] \in {"up", "answered"} THEN 1 ELSE 0

NetTypes ==
  /\ expired \subseteq Ids /\ faults \in 0 .. MaxFaults
  /\ up \in [Ids -> Seq(FromWorkers)] /\ down \in [Ids -> Seq(ToWorkers)]
  /\ asked \subseteq Attempts /\ answers \subseteq Attempts \X {"200", "404", "reply"}

WorkerTypes ==
  /\ session \in [Workers -> 1 .. MaxSessions]
  /\ wstate \in [Workers -> {"recv", "busy", "dead"}]
  /\ job \in [Workers -> Attempts \cup {{}}]
  /\ \A w \in Workers : wstate[w] = "busy" => job[w] \in Attempts

ClientTypes ==
  /\ call \in [Clients -> Nat] /\ try \in [Clients -> 0 .. Retries]
  /\ results \in [Clients -> Seq({"200", "404", "reply", "none"})]
  /\ served \in [Attempts -> Nat]
  /\ \A c \in Clients : /\ call[c] # 0 /\ call[c] <= Len(Calls[c]) + 1
                        /\ try[c] # 0 => call[c] <= Len(Calls[c])
  /\ \A a \in Attempts : served[a] # 0 => RR!Made(a)

MajordomoInv ==
  /\ NetTypes /\ WorkerTypes /\ ClientTypes
  /\ InStep(broker) /\ (\A s \in Services : Paced(broker, s))
  /\ (\A i \in Ids : SocketOK(i))
  /\ OnePlace /\ HeldOK

\* What the lists of a service are, when the lists are in step.
LEMMA Shares ==
  ASSUME NEW b, InStep(b), NEW s \in Services
  PROVE  /\ b.waiting \in Seq(Ids) /\ Once(b.waiting)
         /\ b.idle[s] = Only(b.waiting, OfService(s)) /\ b.idle[s] \in Seq(Ids)
         /\ Once(b.idle[s]) /\ ToSet(b.idle[s]) = ToSet(b.waiting) \cap OfService(s)
         /\ b.requests[s] \in Seq(Attempts) /\ Once(b.requests[s])
         /\ b.workers \in SUBSET Ids /\ IsFiniteSet(b.workers) /\ b.count[s] \in Nat
<1>1. /\ b.waiting \in Seq(Ids) /\ Once(b.waiting)
      /\ b.idle[s] = Only(b.waiting, OfService(s))
      /\ b.requests[s] \in Seq(Attempts) /\ Once(b.requests[s])
      /\ b.workers \in SUBSET Ids /\ IsFiniteSet(b.workers) /\ b.count[s] \in Nat
  BY DEF InStep, Lists
<1> QED
  BY <1>1, OnlyList

\* A worker is in one service.
LEMMA ServiceType ==
  ASSUME NEW i \in Ids
  PROVE  Service(i) \in Services /\ \A s \in Services : i \in OfService(s) <=> s = Service(i)
  BY MajordomoAssumption DEF Ids, Service, OfService

\* s_worker_delete takes workers from every list and from the counts at once.
LEMMA DeleteInStep ==
  ASSUME NEW b, InStep(b), NEW D \in SUBSET Ids
  PROVE  LET c == Delete(b, D)
         IN  /\ InStep(c)
             /\ c.workers = b.workers \ D /\ c.requests = b.requests
             /\ ToSet(c.waiting) = ToSet(b.waiting) \ D
             /\ \A s \in Services : /\ b.idle[s] = <<>> => c.idle[s] = <<>>
                                    /\ Len(b.idle[s]) <= 1 => Len(c.idle[s]) <= 1
<1> PICK c : c = Delete(b, D)
  OBVIOUS
<1>1. c = [workers |-> b.workers \ D, waiting |-> Without(b.waiting, D),
           idle |-> [s \in Services |-> Without(b.idle[s], D)],
           requests |-> b.requests,
           count |-> [s \in Services |->
             b.count[s] - Cardinality({i \in D \cap b.workers : Service(i) = s})]]
  BY DEF Delete
<1>2. /\ c.waiting \in Seq(Ids) /\ Once(c.waiting)
      /\ ToSet(c.waiting) = ToSet(b.waiting) \ D
  BY <1>1, WithoutList DEF InStep, Lists
<1>3. ASSUME NEW s \in Services
      PROVE  /\ c.idle[s] \in Seq(Ids) /\ c.idle[s] = Only(c.waiting, OfService(s))
             /\ ToSet(c.idle[s]) = ToSet(b.idle[s]) \ D
  <2>1. c.idle[s] = Without(b.idle[s], D) /\ c.waiting = Without(b.waiting, D)
    BY <1>1
  <2>2. /\ b.waiting \in Seq(Ids) /\ Once(b.waiting)
        /\ b.idle[s] = Only(b.waiting, OfService(s)) /\ b.idle[s] \in Seq(Ids)
        /\ Once(b.idle[s])
    BY Shares
  <2>3. c.idle[s] \in Seq(Ids) /\ ToSet(c.idle[s]) = ToSet(b.idle[s]) \ D
    BY <2>1, <2>2, WithoutList
  <2>4. c.idle[s] = Only(c.waiting, OfService(s))
    BY <2>1, <2>2, OnlyOfWithout
  <2> QED
    BY <2>3, <2>4
<1>4. ASSUME NEW s \in Services
      PROVE  c.count[s] \in Nat /\ c.count[s] = Cardinality(c.workers \cap OfService(s))
  <2> PICK W : W = b.workers \cap OfService(s)
    OBVIOUS
  <2>1. IsFiniteSet(W) /\ b.count[s] = Cardinality(W)
    BY Shares, FS_Subset DEF InStep, Lists
  <2>2. {i \in D \cap b.workers : Service(i) = s} = W \cap D
    BY Shares DEF OfService
  <2>3. c.workers \cap OfService(s) = W \ D
    BY <1>1
  <2>4. IsFiniteSet(W \ D) /\ Cardinality(W \ D) = Cardinality(W) - Cardinality(W \cap D)
    BY <2>1, FS_Difference
  <2>5. c.count[s] = b.count[s] - Cardinality(W \cap D)
    BY <1>1, <2>2
  <2> QED
    BY <2>1, <2>3, <2>4, <2>5, FS_CardinalityType
<1>5. ASSUME NEW s \in Services
      PROVE  /\ b.idle[s] = <<>> => c.idle[s] = <<>>
             /\ Len(b.idle[s]) <= 1 => Len(c.idle[s]) <= 1
  <2>1. /\ b.idle[s] \in Seq(Ids) /\ c.idle[s] \in Seq(Ids) /\ Once(b.idle[s])
        /\ ToSet(c.idle[s]) \subseteq ToSet(b.idle[s])
    BY <1>3, Shares
  <2>2. Once(c.idle[s])
    BY <1>2, <1>3, OnlyList
  <2>3. b.idle[s] = <<>> => c.idle[s] = <<>>
    <3> SUFFICES ASSUME b.idle[s] = <<>>, c.idle[s] # <<>> PROVE FALSE
      OBVIOUS
    <3>1. 1 \in DOMAIN c.idle[s]
      BY <2>1
    <3>2. c.idle[s][1] \in ToSet(b.idle[s])
      BY <2>1, <3>1 DEF ToSet
    <3>3. DOMAIN b.idle[s] = {}
      OBVIOUS
    <3> QED
      BY <3>2, <3>3 DEF ToSet
  <2>4. Len(b.idle[s]) <= 1 => Len(c.idle[s]) <= 1
    <3> SUFFICES ASSUME Len(b.idle[s]) <= 1, Len(c.idle[s]) > 1 PROVE FALSE
      BY <2>1
    <3>1. 1 \in DOMAIN c.idle[s] /\ 2 \in DOMAIN c.idle[s]
      BY <2>1
    <3>0. c.idle[s][1] \in ToSet(b.idle[s]) /\ c.idle[s][2] \in ToSet(b.idle[s])
      BY <2>1, <3>1 DEF ToSet
    <3>2. PICK k \in DOMAIN b.idle[s], l \in DOMAIN b.idle[s] :
            b.idle[s][k] = c.idle[s][1] /\ b.idle[s][l] = c.idle[s][2]
      BY <3>0 DEF ToSet
    <3>3. k = l
      BY <2>1
    <3> QED
      BY <2>2, <3>1, <3>2, <3>3 DEF Once
  <2> QED
    BY <2>3, <2>4
<1>6. IsFiniteSet(b.workers \ D)
  BY FS_Difference DEF InStep, Lists
<1>7. InStep(c)
  <2>1. /\ c.workers = b.workers \ D /\ c.requests = b.requests
        /\ c.idle \in [Services -> Seq(Ids)] /\ c.count \in [Services -> Nat]
    <3>1. c.workers = b.workers \ D /\ c.requests = b.requests
      BY <1>1
    <3>2. c.idle = [s \in Services |-> c.idle[s]] /\ c.count = [s \in Services |-> c.count[s]]
      BY <1>1
    <3>3. c.idle \in [Services -> Seq(Ids)]
      BY <1>3, <3>2
    <3>4. c.count \in [Services -> Nat]
      BY <1>4, <3>2
    <3> QED
      BY <3>1, <3>3, <3>4
  <2>2. c \in Lists
    <3>1. b.workers \ D \in SUBSET Ids /\ b.requests \in [Services -> Seq(Attempts)]
      BY DEF InStep, Lists
    <3> QED
      BY <1>1, <1>2, <2>1, <3>1 DEF Lists
  <2> QED
    BY <1>2, <1>3, <1>4, <1>6, <2>1, <2>2 DEF InStep, Lists
<1> QED
  BY <1>1, <1>2, <1>5, <1>7

\* The fields of the broker once s_worker_waiting has appended a worker.
LEMMA IdleFields ==
  ASSUME NEW b \in Lists, NEW i \in Ids, NEW s \in Services, s = Service(i)
  PROVE  /\ Idle(b, i).workers = b.workers
         /\ Idle(b, i).waiting = Append(b.waiting, i)
         /\ Idle(b, i).idle = [b.idle EXCEPT ![s] = Append(b.idle[s], i)]
         /\ Idle(b, i).requests = b.requests
         /\ Idle(b, i).count = b.count
         /\ Idle(b, i) \in Lists
<1>1. b.idle \in [Services -> Seq(Ids)] /\ b.waiting \in Seq(Ids)
  BY DEF Lists
<1>2. Append(b.waiting, i) \in Seq(Ids) /\ Append(b.idle[s], i) \in Seq(Ids)
  BY <1>1
<1>3. [b.idle EXCEPT ![s] = Append(b.idle[s], i)] \in [Services -> Seq(Ids)]
  BY <1>1, <1>2
<1>4. Idle(b, i) = [b EXCEPT !.waiting = Append(b.waiting, i),
                             !.idle = [b.idle EXCEPT ![s] = Append(b.idle[s], i)]]
  BY DEF Idle, Lists
<1> HIDE DEF Idle
<1>5. PICK p : p = Append(b.waiting, i)
  OBVIOUS
<1>6. PICK q : q = [b.idle EXCEPT ![s] = Append(b.idle[s], i)]
  OBVIOUS
<1>7. Idle(b, i) = [b EXCEPT !.waiting = p, !.idle = q]
  BY <1>4, <1>5, <1>6
<1>8. [b EXCEPT !.waiting = p, !.idle = q] \in Lists
  BY <1>2, <1>3, <1>5, <1>6 DEF Lists
<1>9. LET c == [b EXCEPT !.waiting = p, !.idle = q]
      IN  /\ c.workers = b.workers /\ c.waiting = p /\ c.idle = q
          /\ c.requests = b.requests /\ c.count = b.count
  BY DEF Lists
<1> QED
  BY <1>5, <1>6, <1>7, <1>8, <1>9

\* The fields of the broker once a service has been dispatched.
LEMMA PairedFields ==
  ASSUME NEW b \in Lists, NEW s \in Services
  PROVE  /\ Paired(b, s).workers = b.workers
         /\ Paired(b, s).waiting = Without(b.waiting, Taken(b, s))
         /\ Paired(b, s).idle = [b.idle EXCEPT ![s] = Rest(b.idle[s], b, s)]
         /\ Paired(b, s).requests = [b.requests EXCEPT ![s] = Rest(b.requests[s], b, s)]
         /\ Paired(b, s).count = b.count
<1> PICK I, R, W : /\ I = [b.idle EXCEPT ![s] = Rest(b.idle[s], b, s)]
                   /\ R = [b.requests EXCEPT ![s] = Rest(b.requests[s], b, s)]
                   /\ W = Without(b.waiting, Taken(b, s))
  OBVIOUS
<1>1. Paired(b, s) = [b EXCEPT !.waiting = W, !.idle = I, !.requests = R]
  BY DEF Paired, Lists
<1>2. LET c == [b EXCEPT !.waiting = W, !.idle = I, !.requests = R]
      IN  /\ c.workers = b.workers /\ c.waiting = W /\ c.idle = I
          /\ c.requests = R /\ c.count = b.count
  BY DEF Lists
<1> QED
  BY <1>1, <1>2

\* Only keeps a list whose elements are all in S, and empties one that has none.
LEMMA OnlyAllOrNone ==
  ASSUME NEW I, NEW list \in Seq(I), NEW S
  PROVE  /\ Once(list) /\ ToSet(list) \subseteq S => Only(list, S) = list
         /\ ToSet(list) \cap S = {} => Only(list, S) = <<>>
<1>1. Once(list) /\ ToSet(list) \subseteq S => Only(list, S) = list
  BY OnlyIs
<1>2. ASSUME ToSet(list) \cap S = {} PROVE Only(list, S) = <<>>
  <2> PICK q \in Seq(I) : q = Only(list, S)
    BY OnlyList
  <2>1. ToSet(q) = {}
    BY <1>2, OnlyList
  <2>2. DOMAIN q = {}
    BY <2>1 DEF ToSet
  <2> QED
    BY <2>2
<1> QED
  BY <1>1, <1>2

\* s_service_dispatch pairs at most one worker, when one of its two lists has one element.
LEMMA PairedStep ==
  ASSUME NEW b, InStep(b), NEW s \in Services, Len(b.idle[s]) <= 1 \/ Len(b.requests[s]) <= 1
  PROVE  LET c == Paired(b, s)
         IN  \/ Paced(b, s) /\ Pairs(b, s) = <<>> /\ c = b
             \/ /\ b.idle[s] # <<>> /\ b.requests[s] # <<>>
                /\ Pairs(b, s) = << <<Head(b.idle[s]), Head(b.requests[s])>> >>
                /\ InStep(c) /\ Paced(c, s) /\ c.workers = b.workers
                /\ ToSet(c.waiting) = ToSet(b.waiting) \ {Head(b.idle[s])}
                /\ c.requests = [b.requests EXCEPT ![s] = Tail(b.requests[s])]
                /\ \A t \in Services : Paced(b, t) => Paced(c, t)
<1> PICK i : i = b.idle[s]
  OBVIOUS
<1> PICK r : r = b.requests[s]
  OBVIOUS
<1>1. /\ b \in Lists /\ i \in Seq(Ids) /\ r \in Seq(Attempts) /\ Once(i) /\ Once(r)
      /\ b.waiting \in Seq(Ids) /\ Once(b.waiting) /\ i = Only(b.waiting, OfService(s))
      /\ ToSet(i) = ToSet(b.waiting) \cap OfService(s)
  BY Shares DEF InStep
<1>0. b \in Lists /\ b.waiting \in Seq(Ids) /\ Once(b.waiting)
  BY <1>1
<1>2. PICK c : c = Paired(b, s)
  OBVIOUS
<1>3. /\ c.workers = b.workers /\ c.waiting = Without(b.waiting, Taken(b, s))
      /\ c.idle = [b.idle EXCEPT ![s] = Rest(i, b, s)]
      /\ c.requests = [b.requests EXCEPT ![s] = Rest(r, b, s)]
      /\ c.count = b.count
  BY <1>0, <1>2, PairedFields
<1>4. CASE i = <<>> \/ r = <<>>
  <2>1. Pairs(b, s) = <<>>
    BY <1>1, <1>4 DEF Pairs
  <2>2. Taken(b, s) = {}
    BY <2>1 DEF Taken
  <2>3. Rest(i, b, s) = i /\ Rest(r, b, s) = r
    BY <1>1, <2>1, SubSeqFull DEF Rest
  <2>4. Without(b.waiting, {}) = b.waiting
    BY <1>1, WithoutNone
  <2>5. c = [b EXCEPT !.waiting = b.waiting, !.idle = b.idle, !.requests = b.requests]
    <3>1. [b.idle EXCEPT ![s] = i] = b.idle /\ [b.requests EXCEPT ![s] = r] = b.requests
      BY <1>1 DEF Lists
    <3>2. c = [b EXCEPT !.waiting = Without(@, {}), !.idle[s] = i, !.requests[s] = r]
      BY <1>2, <2>2, <2>3 DEF Paired
    <3>3. c = [b EXCEPT !.waiting = b.waiting, !.idle = [b.idle EXCEPT ![s] = i],
                        !.requests = [b.requests EXCEPT ![s] = r]]
      BY <1>1, <2>4, <3>2 DEF Lists
    <3> QED
      BY <3>1, <3>3
  <2>6. c = b
    BY <1>1, <2>5 DEF Lists
  <2> QED
    BY <1>2, <1>4, <2>1, <2>6 DEF Paced
<1>5. CASE i # <<>> /\ r # <<>>
  <2> PICK h, a : h = Head(i) /\ a = Head(r)
    OBVIOUS
  <2>1. /\ h \in Ids /\ a \in Attempts /\ h = i[1] /\ a = r[1] /\ h \in ToSet(i)
        /\ Tail(i) \in Seq(Ids) /\ Tail(r) \in Seq(Attempts)
    BY <1>1, <1>5, HeadAndTail
  <2>2. Pairs(b, s) = << <<h, a>> >>
    <3>1. (IF Len(i) < Len(r) THEN Len(i) ELSE Len(r)) = 1
      <4>1. PICK m \in Nat \ {0} : m = Len(i)
        BY <1>1, <1>5
      <4>2. PICK n \in Nat \ {0} : n = Len(r)
        BY <1>1, <1>5
      <4>3. m <= 1 \/ n <= 1
        BY <4>1, <4>2
      <4>4. (IF m < n THEN m ELSE n) = 1
        BY <4>3
      <4> QED
        BY <4>1, <4>2, <4>4
    <3>2. Pairs(b, s) = [k \in 1 .. 1 |-> <<i[k], r[k]>>]
      BY <3>1 DEF Pairs
    <3> QED
      BY <2>1, <3>2
  <2>3. Taken(b, s) = {h}
    BY <2>2 DEF Taken
  <2>4. Rest(i, b, s) = Tail(i) /\ Rest(r, b, s) = Tail(r)
    BY <1>1, <1>5, <2>2, TailIsSubSeq DEF Rest
  <2>0. c.waiting = Without(b.waiting, {h})
    BY <1>3, <2>3
  <2>5. /\ c.waiting \in Seq(Ids) /\ Once(c.waiting)
        /\ ToSet(c.waiting) = ToSet(b.waiting) \ {h}
    BY <1>0, <2>0, WithoutList
  <2>6. c.idle = [b.idle EXCEPT ![s] = Tail(i)] /\ c.requests = [b.requests EXCEPT ![s] = Tail(r)]
    BY <1>3, <2>4
  <2>7. c \in Lists
    <3>1. PICK W \in Seq(Ids) : W = c.waiting
      BY <2>5
    <3>2. PICK I \in [Services -> Seq(Ids)] : I = c.idle
      BY <1>1, <2>1, <2>6 DEF Lists
    <3>3. PICK R \in [Services -> Seq(Attempts)] : R = c.requests
      BY <1>1, <2>1, <2>6 DEF Lists
    <3>4. c = [b EXCEPT !.waiting = W, !.idle = I, !.requests = R]
      <4>1. c = [b EXCEPT !.waiting = Without(b.waiting, Taken(b, s)),
                          !.idle = [b.idle EXCEPT ![s] = Rest(i, b, s)],
                          !.requests = [b.requests EXCEPT ![s] = Rest(r, b, s)]]
        BY <1>1, <1>2 DEF Paired, Lists
      <4> QED
        BY <1>3, <3>1, <3>2, <3>3, <4>1
    <3> QED
      BY <1>1, <3>4 DEF Lists
  <2>8. ASSUME NEW t \in Services
        PROVE  /\ c.idle[t] = Only(c.waiting, OfService(t)) /\ Once(c.requests[t])
               /\ c.count[t] = Cardinality(c.workers \cap OfService(t))
               /\ Paced(b, t) => Paced(c, t)
    <3>1. /\ b.idle[t] \in Seq(Ids) /\ Once(b.idle[t]) /\ Once(b.requests[t])
          /\ b.idle[t] = Only(b.waiting, OfService(t))
          /\ ToSet(b.idle[t]) = ToSet(b.waiting) \cap OfService(t)
      BY Shares
    <3>2. Only(c.waiting, OfService(t)) = Without(b.idle[t], {h})
      BY <1>0, <2>0, <3>1, OnlyOfWithout
    <3>3. c.count[t] = Cardinality(c.workers \cap OfService(t))
      BY <1>3 DEF InStep
    <3>4. CASE t = s
      <4>1. c.idle[t] = Tail(i) /\ c.requests[t] = Tail(r)
        BY <1>1, <2>6, <3>4 DEF Lists
      <4>2. Without(i, {h}) = Tail(i)
        BY <1>1, <1>5, WithoutHead
      <4>3. Once(Tail(r))
        BY <1>1, <1>5, WithoutHead
      <4>4. Paced(b, t) => Paced(c, t)
        BY <1>5, <3>4 DEF Paced
      <4> QED
        BY <3>2, <3>3, <3>4, <4>1, <4>2, <4>3, <4>4
    <3>5. CASE t # s
      <4>1. c.idle[t] = b.idle[t] /\ c.requests[t] = b.requests[t]
        BY <1>1, <2>6, <3>5 DEF Lists
      <4>2. h \notin ToSet(b.idle[t])
        BY <1>1, <2>1, <3>1, <3>5, ServiceType
      <4>3. Without(b.idle[t], {h}) = b.idle[t]
        BY <3>1, <4>2, WithoutNone
      <4> QED
        BY <3>1, <3>2, <3>3, <4>1, <4>3 DEF Paced
    <3> QED
      BY <3>4, <3>5
  <2>9. InStep(c)
    BY <1>3, <2>5, <2>7, <2>8 DEF InStep
  <2>10. Paced(c, s)
    <3>1. c.idle[s] = Tail(i) /\ c.requests[s] = Tail(r)
      BY <1>1, <2>6 DEF Lists
    <3>2. Tail(i) = <<>> \/ Tail(r) = <<>>
      BY <1>1, <1>5
    <3> QED
      BY <3>1, <3>2 DEF Paced
  <2> QED
    BY <1>2, <1>3, <1>5, <2>2, <2>5, <2>6, <2>8, <2>9, <2>10
<1> QED
  BY <1>4, <1>5

\* s_worker_waiting keeps the lists in step, for a registered worker that does not wait.
LEMMA IdleInStep ==
  ASSUME NEW b, InStep(b), NEW i \in Ids, NEW s \in Services, s = Service(i),
         i \in b.workers, i \notin ToSet(b.waiting)
  PROVE  LET c == Idle(b, i)
         IN  /\ InStep(c) /\ c.workers = b.workers /\ c.requests = b.requests
             /\ ToSet(c.waiting) = ToSet(b.waiting) \cup {i}
             /\ Len(c.idle[s]) = Len(b.idle[s]) + 1
             /\ \A t \in Services : t # s => c.idle[t] = b.idle[t]
<1>1. b \in Lists /\ b.waiting \in Seq(Ids) /\ Once(b.waiting)
  BY Shares DEF InStep
<1>2. PICK c : c = Idle(b, i)
  OBVIOUS
<1>3. /\ c.workers = b.workers /\ c.waiting = Append(b.waiting, i)
      /\ c.idle = [b.idle EXCEPT ![s] = Append(b.idle[s], i)]
      /\ c.requests = b.requests /\ c.count = b.count /\ c \in Lists
  BY <1>1, <1>2, IdleFields
<1>4. /\ c.waiting \in Seq(Ids) /\ Once(c.waiting)
      /\ ToSet(c.waiting) = ToSet(b.waiting) \cup {i}
  BY <1>1, <1>3, Added
<1>5. ASSUME NEW t \in Services
      PROVE  /\ c.idle[t] = Only(c.waiting, OfService(t)) /\ Once(c.requests[t])
             /\ c.count[t] = Cardinality(c.workers \cap OfService(t))
             /\ c.idle[t] = IF t = s THEN Append(b.idle[s], i) ELSE b.idle[t]
  <2>1. /\ b.idle[t] = Only(b.waiting, OfService(t)) /\ Once(b.requests[t])
        /\ b.count[t] = Cardinality(b.workers \cap OfService(t))
    BY DEF InStep
  <2>2. Only(c.waiting, OfService(t)) = IF i \in OfService(t) THEN Append(b.idle[t], i)
                                        ELSE b.idle[t]
    <3>1. Only(Append(b.waiting, i), OfService(t)) =
            IF i \in OfService(t) THEN Append(Only(b.waiting, OfService(t)), i)
            ELSE Only(b.waiting, OfService(t))
      BY <1>1, OnlyAppended, Zenon
    <3>2. c.waiting = Append(b.waiting, i)
      BY <1>3
    <3> QED
      BY <2>1, <3>1, <3>2, Zenon
  <2>3. i \in OfService(t) <=> t = s
    BY ServiceType
  <2>4. c.idle[t] = IF t = s THEN Append(b.idle[s], i) ELSE b.idle[t]
    BY <1>1, <1>3 DEF Lists
  <2> QED
    BY <1>3, <2>1, <2>2, <2>3, <2>4
<1>6. InStep(c)
  <2>1. IsFiniteSet(c.workers) /\ ToSet(c.waiting) \subseteq c.workers
    BY <1>3, <1>4 DEF InStep
  <2> QED
    BY <1>3, <1>4, <1>5, <2>1 DEF InStep
<1>7. Len(c.idle[s]) = Len(b.idle[s]) + 1
  <2>1. b.idle[s] \in Seq(Ids)
    BY Shares
  <2>2. \A q \in Seq(Ids) : Len(Append(q, i)) = Len(q) + 1
    OBVIOUS
  <2>3. c.idle[s] = Append(b.idle[s], i)
    BY <1>5
  <2> QED
    BY <2>1, <2>2, <2>3, Zenon
<1> QED
  BY <1>2, <1>3, <1>4, <1>5, <1>6, <1>7

\* s_worker_require keeps the lists in step, for a worker that is not registered.
LEMMA RegisteredInStep ==
  ASSUME InStep(broker), NEW i \in Ids, i \notin broker.workers
  PROVE  LET c == Registered(i)
         IN  /\ InStep(c) /\ c.workers = broker.workers \cup {i}
             /\ c.waiting = broker.waiting /\ c.idle = broker.idle
             /\ c.requests = broker.requests
<1> PICK s \in Services : s = Service(i)
  BY ServiceType
<1>1. /\ broker \in Lists /\ broker.workers \in SUBSET Ids /\ IsFiniteSet(broker.workers)
      /\ broker.count \in [Services -> Nat]
  BY Shares DEF InStep, Lists
<1>2. PICK W, C : W = broker.workers \cup {i} /\ C = [broker.count EXCEPT ![s] = @ + 1]
  OBVIOUS
<1>3. W \in SUBSET Ids /\ C \in [Services -> Nat]
  BY <1>1, <1>2
<1>4. PICK c : c = Registered(i)
  OBVIOUS
<1>5. c = [broker EXCEPT !.workers = W, !.count = C]
  BY <1>1, <1>2, <1>4 DEF Registered, Lists
<1>6. /\ c.workers = W /\ c.count = C /\ c.waiting = broker.waiting
      /\ c.idle = broker.idle /\ c.requests = broker.requests /\ c \in Lists
  BY <1>1, <1>3, <1>5 DEF Lists
<1>7. IsFiniteSet(W)
  BY <1>1, <1>2, FS_AddElement
<1>8. ASSUME NEW t \in Services
      PROVE  C[t] = Cardinality(W \cap OfService(t))
  <2> PICK V : V = broker.workers \cap OfService(t)
    OBVIOUS
  <2>1. IsFiniteSet(V) /\ broker.count[t] = Cardinality(V) /\ i \notin V
    BY <1>1, FS_Subset DEF InStep
  <2>2. IsFiniteSet(V \cup {i}) /\ Cardinality(V \cup {i}) = Cardinality(V) + 1
    BY <2>1, FS_AddElement
  <2>3. i \in OfService(t) <=> t = s
    BY ServiceType
  <2>4. CASE t = s
    <3>1. W \cap OfService(t) = V \cup {i}
      BY <1>2, <2>3, <2>4
    <3>2. C[t] = broker.count[t] + 1
      BY <1>1, <1>2, <2>4
    <3> QED
      BY <2>1, <2>2, <3>1, <3>2
  <2>5. CASE t # s
    <3>1. W \cap OfService(t) = V
      BY <1>2, <2>3, <2>5
    <3>2. C[t] = broker.count[t]
      BY <1>1, <1>2, <2>5
    <3> QED
      BY <2>1, <3>1, <3>2
  <2> QED
    BY <2>4, <2>5
<1>9. InStep(c)
  <2>1. /\ Once(c.waiting) /\ ToSet(c.waiting) \subseteq c.workers
        /\ \A t \in Services : c.idle[t] = Only(c.waiting, OfService(t)) /\ Once(c.requests[t])
    BY <1>2, <1>6 DEF InStep
  <2> QED
    BY <1>6, <1>7, <1>8, <2>1 DEF InStep
<1> QED
  BY <1>2, <1>4, <1>6, <1>9

\* Nothing is sent to a worker that is given no request.
LEMMA NothingSent ==
  ASSUME NEW d \in Seq(ToWorkers), NEW q, q = <<>>
  PROVE  d \o [k \in DOMAIN q |-> REQUEST(q[k][2])] = d
  OBVIOUS

\* What s_service_dispatch does when at most one request can be handed out.
LEMMA DispatchEffect ==
  ASSUME down \in [Ids -> Seq(ToWorkers)], NEW b, InStep(b), NEW s \in Services, NEW late,
         Len(b.idle[s]) <= 1 \/ Len(b.requests[s]) <= 1,
         \A t \in Services \ {s} : Paced(b, t), Dispatch(b, s, late)
  PROVE  /\ InStep(broker') /\ \A t \in Services : Paced(broker', t)
         /\ broker'.workers \subseteq b.workers
         /\ \/ /\ down' = down /\ broker'.requests = b.requests
               /\ ToSet(broker'.waiting) \subseteq ToSet(b.waiting)
            \/ /\ b.requests[s] # <<>> /\ b.idle[s] # <<>>
               /\ broker'.requests = [b.requests EXCEPT ![s] = Tail(b.requests[s])]
               /\ \E i \in ToSet(b.waiting) :
                    /\ ToSet(broker'.waiting) \subseteq ToSet(b.waiting) \ {i}
                    /\ down' = [down EXCEPT ![i] = Append(@, REQUEST(Head(b.requests[s])))]
<1>1. /\ b.waiting \in Seq(Ids) /\ b.requests[s] \in Seq(Attempts)
      /\ \A t \in Services : b.idle[t] \in Seq(Ids)
  BY Shares
<1>2. PICK D \in SUBSET Ids : D = Overdue(b, late)
  <2>1. ASSUME NEW x \in Overdue(b, late) PROVE x \in Ids
    <3>1. PICK k \in DOMAIN b.waiting : x = b.waiting[k]
      BY <2>1 DEF Overdue
    <3> QED
      BY <1>1, <3>1
  <2> QED
    BY <2>1
<1>3. PICK p : p = Delete(b, D)
  OBVIOUS
<1>4. /\ InStep(p) /\ p.workers = b.workers \ D /\ p.requests = b.requests
      /\ ToSet(p.waiting) = ToSet(b.waiting) \ D
      /\ \A t \in Services : /\ b.idle[t] = <<>> => p.idle[t] = <<>>
                             /\ Len(b.idle[t]) <= 1 => Len(p.idle[t]) <= 1
  BY <1>3, DeleteInStep
<1>5. \A t \in Services \ {s} : Paced(p, t)
  BY <1>4 DEF Paced
<1>6. PICK c : c = Paired(p, s)
  OBVIOUS
<1>7. /\ broker' = c
      /\ down' = [i \in Ids |->
           down[i] \o [k \in DOMAIN Only(Pairs(p, s), {i} \X Attempts) |->
                         REQUEST(Only(Pairs(p, s), {i} \X Attempts)[k][2])]]
  BY <1>2, <1>3, <1>6 DEF Dispatch, Purge
<1>8. Len(p.idle[s]) <= 1 \/ Len(p.requests[s]) <= 1
  BY <1>4
<1>9. CASE Paced(p, s) /\ Pairs(p, s) = <<>> /\ c = p
  <2>1. \A i \in Ids : Only(Pairs(p, s), {i} \X Attempts) = <<>>
    <3> TAKE i \in Ids
    <3>0. \A S : <<>> \in Seq(S)
      OBVIOUS
    <3> PICK q \in Seq(Ids \X Attempts) : q = <<>>
      BY <3>0, Zenon
    <3>1. ToSet(q) \cap ({i} \X Attempts) = {}
      <4> DOMAIN q = {}
        OBVIOUS
      <4> QED
        BY DEF ToSet
    <3>2. Only(q, {i} \X Attempts) = <<>>
      BY <3>1, OnlyAllOrNone, Zenon
    <3>3. Pairs(p, s) = q
      BY <1>9
    <3> QED
      BY <3>2, <3>3, Zenon
  <2>3. ASSUME NEW i \in Ids PROVE down'[i] = down[i]
    <3> PICK q : q = Only(Pairs(p, s), {i} \X Attempts)
      OBVIOUS
    <3>1. down'[i] = down[i] \o [k \in DOMAIN q |-> REQUEST(q[k][2])]
      BY <1>7, Zenon
    <3> QED
      BY <2>1, <3>1, NothingSent, Zenon
  <2>4. down' = down
    BY <1>7, <2>3
  <2> QED
    BY <1>4, <1>5, <1>7, <1>9, <2>4
<1>10. CASE /\ p.idle[s] # <<>> /\ p.requests[s] # <<>>
            /\ Pairs(p, s) = << <<Head(p.idle[s]), Head(p.requests[s])>> >>
            /\ InStep(c) /\ Paced(c, s) /\ c.workers = p.workers
            /\ ToSet(c.waiting) = ToSet(p.waiting) \ {Head(p.idle[s])}
            /\ c.requests = [p.requests EXCEPT ![s] = Tail(p.requests[s])]
            /\ \A t \in Services : Paced(p, t) => Paced(c, t)
  <2>1. PICK h, a : h = Head(p.idle[s]) /\ a = Head(p.requests[s])
    OBVIOUS
  <2>2. h \in Ids /\ h \in ToSet(p.waiting) /\ a \in Attempts
    <3>0. InStep(p)
      BY <1>4
    <3>1. /\ p.idle[s] \in Seq(Ids) /\ p.requests[s] \in Seq(Attempts)
          /\ ToSet(p.idle[s]) \subseteq ToSet(p.waiting)
      BY <3>0, Shares, ZenonT(60)
    <3>2. p.idle[s] # <<>> /\ p.requests[s] # <<>>
      BY <1>10
    <3> QED
      BY <2>1, <3>1, <3>2, HeadAndTail, Zenon
  <2>3. PICK q : q = Pairs(p, s)
    OBVIOUS
  <2>4. q = << <<h, a>> >> /\ q \in Seq(Ids \X Attempts) /\ ToSet(q) = {<<h, a>>} /\ Once(q)
    <3>1. q = << <<h, a>> >>
      BY <1>10, <2>1, <2>3
    <3>2. DOMAIN q = {1} /\ q[1] = <<h, a>>
      BY <3>1
    <3>3. ToSet(q) = {<<h, a>>}
      BY <3>2, Zenon DEF ToSet
    <3>4. Once(q)
      BY <3>2, Zenon DEF Once
    <3>5. q \in Seq(Ids \X Attempts)
      BY <2>2, <3>1
    <3> QED
      BY <3>1, <3>3, <3>4, <3>5
  <2>5. \A i \in Ids : Only(q, {i} \X Attempts) = IF i = h THEN q ELSE <<>>
    <3> TAKE i \in Ids
    <3>1. CASE i = h
      <4>1. ToSet(q) \subseteq {i} \X Attempts
        <5>1. <<h, a>> \in {i} \X Attempts
          BY <2>2, <3>1
        <5> QED
          BY <2>4, <5>1, Zenon
      <4> QED
        BY <2>4, <3>1, <4>1, OnlyAllOrNone, Zenon
    <3>2. CASE i # h
      <4>1. ToSet(q) \cap ({i} \X Attempts) = {}
        <5>1. <<h, a>> \notin {i} \X Attempts
          BY <3>2
        <5> QED
          BY <2>4, <5>1
      <4> QED
        BY <2>4, <3>2, <4>1, OnlyAllOrNone, Zenon
    <3> QED
      BY <3>1, <3>2
  <2>6. REQUEST(a) \in ToWorkers
    BY <2>2 DEF ToWorkers
  <2>7. [k \in DOMAIN q |-> REQUEST(q[k][2])] = <<REQUEST(a)>>
    BY <2>4
  <2>8. down'[h] = Append(down[h], REQUEST(a))
    <3>1. down'[h] = down[h] \o <<REQUEST(a)>>
      BY <1>7, <2>2, <2>3, <2>5, <2>7
    <3>2. down[h] \in Seq(ToWorkers)
      BY <2>2
    <3> QED
      BY <2>6, <3>1, <3>2, AppendIsConcat
  <2>9. ASSUME NEW i \in Ids, i # h PROVE down'[i] = down[i]
    <3>1. Only(q, {i} \X Attempts) = <<>>
      BY <2>5, <2>9
    <3> PICK o : o = Only(q, {i} \X Attempts)
      OBVIOUS
    <3>2. down'[i] = down[i] \o [k \in DOMAIN o |-> REQUEST(o[k][2])]
      BY <1>7, <2>3, Zenon
    <3>3. down[i] \in Seq(ToWorkers) /\ o = <<>>
      BY <3>1
    <3> QED
      BY <3>2, <3>3, NothingSent, Zenon
  <2>10. down' = [down EXCEPT ![h] = Append(@, REQUEST(a))]
    <3>1. DOMAIN down' = Ids /\ down' = [i \in Ids |-> down'[i]]
      BY <1>7
    <3> QED
      BY <2>8, <2>9, <3>1
  <2>11. b.idle[s] # <<>>
    BY <1>4, <1>10
  <2>12. /\ h \in ToSet(b.waiting) /\ ToSet(c.waiting) \subseteq ToSet(b.waiting) \ {h}
         /\ c.requests = [b.requests EXCEPT ![s] = Tail(b.requests[s])]
         /\ a = Head(b.requests[s]) /\ b.requests[s] # <<>>
    BY <1>4, <1>10, <2>1, <2>2
  <2>13. InStep(c) /\ c.workers \subseteq b.workers /\ \A t \in Services : Paced(c, t)
    BY <1>4, <1>5, <1>10
  <2> QED
    BY <1>7, <2>10, <2>11, <2>12, <2>13
<1> QED
  BY <1>4, <1>6, <1>8, <1>9, <1>10, PairedStep

-----------------------------------------------------------------------------
(* Messages                                                                *)

\* The commands of the messages tell them apart.
LEMMA Commands ==
  /\ READY.command = "READY" /\ HEARTBEAT.command = "HEARTBEAT"
  /\ DISCONNECT.command = "DISCONNECT"
  /\ \A a : REQUEST(a).command = "REQUEST" /\ REPLY(a).command = "REPLY"
  /\ \A a, b : (REQUEST(a) = REQUEST(b) \/ REPLY(a) = REPLY(b)) => a = b
BY DEF READY, HEARTBEAT, DISCONNECT, REQUEST, REPLY

\* Requests and replies are messages.
LEMMA Sent ==
  ASSUME NEW a \in Attempts
  PROVE  REPLY(a) \in FromWorkers /\ REQUEST(a) \in ToWorkers
BY DEF FromWorkers, ToWorkers

\* A message is appended to a list of messages.
LEMMA Posted ==
  ASSUME NEW M, NEW q \in Seq(M), NEW m \in M
  PROVE  Append(q, m) \in Seq(M) /\ ToSet(Append(q, m)) = ToSet(q) \cup {m}
<1> PICK p : p = Append(q, m)
  OBVIOUS
<1>1. p \in Seq(M) /\ ToSet(p) = ToSet(q) \cup {m}
  BY Added, ZenonT(60)
<1> QED
  BY <1>1

\* What a list of messages lacks, or has once, when another is appended.
LEMMA Mail ==
  ASSUME NEW M, NEW q \in Seq(M), NEW m \in M, NEW k
  PROVE  /\ Append(q, m) \in Seq(M) /\ ToSet(Append(q, m)) = ToSet(q) \cup {m}
         /\ m.command # k /\ Lacks(q, k) => Lacks(Append(q, m), k)
         /\ m.command # k /\ Sole(q, k) => Sole(Append(q, m), k)
         /\ Lacks(q, k) => Sole(Append(q, m), k)
<1> PICK p : p = Append(q, m)
  OBVIOUS
<1>1. p \in Seq(M) /\ ToSet(p) = ToSet(q) \cup {m}
  BY Added, ZenonT(60)
<1>2. PICK n \in Nat : n = Len(q)
  OBVIOUS
<1>3. /\ DOMAIN q = 1 .. n /\ DOMAIN p = 1 .. n + 1 /\ p[n + 1] = m
      /\ \A l \in 1 .. n : p[l] = q[l]
  BY <1>2
<1>4. \A l \in DOMAIN p : l = n + 1 \/ l \in DOMAIN q
  BY <1>3
<1>5. m.command # k /\ Lacks(q, k) => Lacks(p, k)
  BY <1>3, <1>4 DEF Lacks
<1>6. m.command # k /\ Sole(q, k) => Sole(p, k)
  BY <1>3, <1>4 DEF Sole
<1>7. Lacks(q, k) => Sole(p, k)
  BY <1>3, <1>4 DEF Sole, Lacks
<1> QED
  BY <1>1, <1>5, <1>6, <1>7

\* What a list of messages lacks, or has once, when its head is taken.
LEMMA Taking ==
  ASSUME NEW M, NEW q \in Seq(M), q # <<>>, NEW k
  PROVE  /\ Head(q) \in M /\ Head(q) \in ToSet(q)
         /\ Tail(q) \in Seq(M) /\ ToSet(Tail(q)) \subseteq ToSet(q)
         /\ Lacks(q, k) => Lacks(Tail(q), k) /\ Head(q).command # k
         /\ Sole(q, k) => Sole(Tail(q), k)
         /\ Sole(q, k) /\ Head(q).command = k => Lacks(Tail(q), k)
<1> PICK t, h : t = Tail(q) /\ h = Head(q)
  OBVIOUS
<1>1. /\ h \in M /\ h = q[1] /\ h \in ToSet(q) /\ t \in Seq(M) /\ ToSet(t) \subseteq ToSet(q)
      /\ \A l \in DOMAIN t : l + 1 \in DOMAIN q /\ t[l] = q[l + 1]
  BY HeadAndTail, Zenon
<1>2. 1 \in DOMAIN q /\ \A l \in DOMAIN t : l \in Nat /\ l + 1 # 1
  BY <1>1
<1>3. Lacks(q, k) => Lacks(t, k) /\ h.command # k
  BY <1>1, <1>2 DEF Lacks
<1>4. Sole(q, k) => Sole(t, k)
  BY <1>1, <1>2 DEF Sole
<1>5. Sole(q, k) /\ h.command = k => Lacks(t, k)
  BY <1>1, <1>2 DEF Sole, Lacks
<1> QED
  BY <1>1, <1>3, <1>4, <1>5

\* The empty list of messages lacks every command.
LEMMA NoMail ==
  /\ \A M : <<>> \in Seq(M)
  /\ ToSet(<<>>) = {} /\ (\A k : Lacks(<<>>, k) /\ Sole(<<>>, k))
<1>1. \A M : <<>> \in Seq(M)
  OBVIOUS
<1>2. DOMAIN <<>> = {}
  OBVIOUS
<1> QED
  BY <1>1, <1>2 DEF ToSet, Lacks, Sole

\* What a message in a list says of the list.
LEMMA Carried ==
  ASSUME NEW q, NEW a
  PROVE  /\ REPLY(a) \in ToSet(q) => ~Lacks(q, "REPLY")
         /\ REQUEST(a) \in ToSet(q) => ~Lacks(q, "REQUEST")
BY Commands DEF ToSet, Lacks

\* The one reply, or request, in a list is gone with it.
LEMMA LacksNone ==
  ASSUME NEW q, NEW a
  PROVE  /\ Lacks(q, "REPLY") => REPLY(a) \notin ToSet(q)
         /\ Lacks(q, "REQUEST") => REQUEST(a) \notin ToSet(q)
BY Carried

-----------------------------------------------------------------------------
(* What dispatching does to the sockets and to the places of the attempts  *)

\* A socket stays sound when its worker leaves lists and its job ends.
LEMMA FitsLess ==
  ASSUME NEW i, NEW b, NEW c, NEW u, NEW d, NEW x \in BOOLEAN, NEW y \in BOOLEAN,
         NEW v \in BOOLEAN, NEW w \in BOOLEAN, Fits(i, b, u, d, x, y),
         i \in c.workers => i \in b.workers, i \in ToSet(c.waiting) => i \in ToSet(b.waiting),
         v => x, w => y
  PROVE  Fits(i, c, u, d, v, w)
BY DEF Fits

\* The worker that is given a request becomes a waiting one no longer.
LEMMA FitsGiven ==
  ASSUME NEW i, NEW b, NEW c, NEW u, NEW d \in Seq(ToWorkers), NEW a \in Attempts,
         NEW x \in BOOLEAN, NEW y \in BOOLEAN, Fits(i, b, u, d, x, y),
         i \in ToSet(b.waiting), i \in b.workers, i \notin ToSet(c.waiting)
  PROVE  Fits(i, c, u, Append(d, REQUEST(a)), x, y)
<1>1. /\ Lacks(d, "REQUEST") /\ Lacks(u, "REPLY") /\ ~x /\ ~y /\ READY \notin ToSet(u)
      /\ Sole(u, "REPLY")
  BY DEF Fits
<1>2. Sole(Append(d, REQUEST(a)), "REQUEST")
  <2>1. REQUEST(a) \in ToWorkers
    BY Sent
  <2> QED
    BY <1>1, <2>1, Mail, Zenon
<1> QED
  BY <1>1, <1>2 DEF Fits

\* Dispatching keeps every socket sound: only a worker that waits is handed a request.
LEMMA DispatchFits ==
  ASSUME down \in [Ids -> Seq(ToWorkers)], NEW b, InStep(b), NEW s \in Services, NEW late,
         Len(b.idle[s]) <= 1 \/ Len(b.requests[s]) <= 1,
         \A t \in Services \ {s} : Paced(b, t), Dispatch(b, s, late)
  PROVE  \A i \in Ids : \A u : \A x, y \in BOOLEAN :
           Fits(i, b, u, down[i], x, y) => Fits(i, broker', u, down'[i], x, y)
<1> TAKE i \in Ids
<1> TAKE u
<1> TAKE x, y \in BOOLEAN
<1> SUFFICES ASSUME Fits(i, b, u, down[i], x, y) PROVE Fits(i, broker', u, down'[i], x, y)
  OBVIOUS
<1>1. /\ broker'.workers \subseteq b.workers
      /\ \/ /\ down' = down
            /\ ToSet(broker'.waiting) \subseteq ToSet(b.waiting)
         \/ /\ b.requests[s] # <<>>
            /\ \E h \in ToSet(b.waiting) :
                 /\ ToSet(broker'.waiting) \subseteq ToSet(b.waiting) \ {h}
                 /\ down' = [down EXCEPT ![h] = Append(@, REQUEST(Head(b.requests[s])))]
  BY DispatchEffect
<1>2. CASE ToSet(broker'.waiting) \subseteq ToSet(b.waiting) /\ down'[i] = down[i]
  BY <1>1, <1>2, FitsLess
<1>3. ASSUME NEW h \in ToSet(b.waiting), b.requests[s] # <<>>,
             ToSet(broker'.waiting) \subseteq ToSet(b.waiting) \ {h},
             down' = [down EXCEPT ![h] = Append(@, REQUEST(Head(b.requests[s])))]
      PROVE  Fits(i, broker', u, down'[i], x, y)
  <2>1. CASE i # h
    <3>0. down'[i] = down[i]
      <4>1. down' = [down EXCEPT ![h] = Append(@, REQUEST(Head(b.requests[s])))]
        BY <1>3
      <4> QED
        BY <2>1, <4>1
    <3>1. down'[i] = down[i] /\ ToSet(broker'.waiting) \subseteq ToSet(b.waiting)
      <4>1. ToSet(broker'.waiting) \subseteq ToSet(b.waiting) \ {h}
        BY <1>3
      <4> QED
        BY <3>0, <4>1
    <3> QED
      BY <1>2, <3>1
  <2>2. CASE i = h
    <3> PICK a : a = Head(b.requests[s])
      OBVIOUS
    <3>1. a \in Attempts
      <4>1. b.requests[s] \in Seq(Attempts)
        BY Shares
      <4> QED
        BY <1>3, <4>1, HeadAndTail
    <3>2. down'[i] = Append(down[i], REQUEST(a))
      BY <1>3, <2>2
    <3>3. i \in ToSet(b.waiting) /\ i \in b.workers /\ i \notin ToSet(broker'.waiting)
      BY <1>3, <2>2 DEF InStep
    <3> PICK d \in Seq(ToWorkers) : d = down[i]
      OBVIOUS
    <3> PICK c : c = broker'
      OBVIOUS
    <3>4. Fits(i, b, u, d, x, y) /\ i \in ToSet(b.waiting) /\ i \notin ToSet(c.waiting)
      BY <3>3
    <3>5. Fits(i, c, u, Append(d, REQUEST(a)), x, y)
      BY <3>1, <3>3, <3>4, FitsGiven
    <3> QED
      BY <3>2, <3>5
  <2> QED
    BY <2>1, <2>2
<1> QED
  BY <1>1, <1>2, <1>3

\* At most one request goes from the queue of the service to the socket of a worker.
LEMMA HandsOut ==
  ASSUME down \in [Ids -> Seq(ToWorkers)], NEW b, InStep(b), NEW s \in Services, NEW late,
         Len(b.idle[s]) <= 1 \/ Len(b.requests[s]) <= 1,
         \A t \in Services \ {s} : Paced(b, t), Dispatch(b, s, late)
  PROVE  /\ down' \in [Ids -> Seq(ToWorkers)]
         /\ \E given \in SUBSET (Ids \X Attempts) :
              /\ \A y, z \in given : y = z
              /\ \A y \in given : y[2] \in ToSet(b.requests[s])
              /\ \A y \in given : y[2] \notin ToSet(broker'.requests[s])
              /\ \A t \in Services : ToSet(broker'.requests[t]) \subseteq ToSet(b.requests[t])
              /\ \A i \in Ids, a \in Attempts :
                   REQUEST(a) \in ToSet(down'[i]) =>
                     REQUEST(a) \in ToSet(down[i]) \/ <<i, a>> \in given
<1>1. \/ down' = down /\ broker'.requests = b.requests
      \/ /\ b.requests[s] # <<>>
         /\ broker'.requests = [b.requests EXCEPT ![s] = Tail(b.requests[s])]
         /\ \E i \in ToSet(b.waiting) :
              down' = [down EXCEPT ![i] = Append(@, REQUEST(Head(b.requests[s])))]
  BY DispatchEffect
<1>2. CASE down' = down /\ broker'.requests = b.requests
  <2> PICK given \in SUBSET (Ids \X Attempts) : given = {}
    OBVIOUS
  <2>1. /\ \A y, z \in given : y = z
        /\ \A y \in given : y[2] \in ToSet(b.requests[s])
        /\ \A y \in given : y[2] \notin ToSet(broker'.requests[s])
    OBVIOUS
  <2> QED
    BY <1>2, <2>1
<1>3. ASSUME NEW h \in ToSet(b.waiting), b.requests[s] # <<>>,
             broker'.requests = [b.requests EXCEPT ![s] = Tail(b.requests[s])],
             down' = [down EXCEPT ![h] = Append(@, REQUEST(Head(b.requests[s])))]
      PROVE  /\ down' \in [Ids -> Seq(ToWorkers)]
             /\ \E given \in SUBSET (Ids \X Attempts) :
                  /\ \A y, z \in given : y = z
                  /\ \A y \in given : y[2] \in ToSet(b.requests[s])
                  /\ \A y \in given : y[2] \notin ToSet(broker'.requests[s])
                  /\ \A t \in Services : ToSet(broker'.requests[t]) \subseteq ToSet(b.requests[t])
                  /\ \A i \in Ids, a \in Attempts :
                       REQUEST(a) \in ToSet(down'[i]) =>
                         REQUEST(a) \in ToSet(down[i]) \/ <<i, a>> \in given
  <2> PICK q, c : q = b.requests[s] /\ c = Head(q)
    OBVIOUS
  <2>1. /\ q \in Seq(Attempts) /\ Once(q) /\ q # <<>>
        /\ b.requests \in [Services -> Seq(Attempts)] /\ ToSet(b.waiting) \subseteq Ids
    <3>1. ToSet(b.waiting) \subseteq Ids
      BY DEF InStep, Lists
    <3>2. b.requests \in [Services -> Seq(Attempts)]
      BY DEF InStep, Lists
    <3>3. q \in Seq(Attempts) /\ Once(q)
      BY Shares, Zenon
    <3> QED
      BY <1>3, <3>1, <3>2, <3>3
  <2>2. /\ c \in Attempts /\ c \in ToSet(q) /\ c \notin ToSet(Tail(q))
        /\ ToSet(Tail(q)) \subseteq ToSet(q)
    <3>1. c \in Attempts /\ c \in ToSet(q) /\ ToSet(Tail(q)) \subseteq ToSet(q)
      BY <2>1, HeadAndTail, Zenon
    <3>2. c \notin ToSet(Tail(q))
      BY <2>1, WithoutHead, Zenon
    <3> QED
      BY <3>1, <3>2
  <2>3. h \in Ids /\ REQUEST(c) \in ToWorkers /\ down[h] \in Seq(ToWorkers)
    BY <2>1, <2>2, Sent
  <2>4. /\ Append(down[h], REQUEST(c)) \in Seq(ToWorkers)
        /\ ToSet(Append(down[h], REQUEST(c))) = ToSet(down[h]) \cup {REQUEST(c)}
    BY <2>3, Posted
  <2>5. down' \in [Ids -> Seq(ToWorkers)]
    <3> PICK v \in Seq(ToWorkers) : v = Append(down[h], REQUEST(c))
      BY <2>4
    <3>1. down' = [down EXCEPT ![h] = v]
      BY <1>3
    <3>2. [down EXCEPT ![h] = v] \in [Ids -> Seq(ToWorkers)]
      BY <2>3
    <3> QED
      BY <3>1, <3>2, Zenon
  <2> PICK given : given = {<<h, c>>}
    OBVIOUS
  <2>12. given \in SUBSET (Ids \X Attempts)
    BY <2>2, <2>3
  <2>6. ASSUME NEW t \in Services
        PROVE  ToSet(broker'.requests[t]) \subseteq ToSet(b.requests[t])
    BY <1>3, <2>1, <2>2
  <2>7. broker'.requests[s] = Tail(q)
    BY <1>3, <2>1
  <2>8. ASSUME NEW i \in Ids, NEW a \in Attempts, REQUEST(a) \in ToSet(down'[i])
        PROVE  REQUEST(a) \in ToSet(down[i]) \/ <<i, a>> \in given
    <3>1. CASE i = h
      <4>1. REQUEST(a) \in ToSet(down[h]) \/ REQUEST(a) = REQUEST(c)
        BY <1>3, <2>3, <2>4, <2>8, <3>1
      <4> QED
        BY <3>1, <4>1, Commands
    <3>2. CASE i # h
      BY <1>3, <2>8, <3>2
    <3> QED
      BY <3>1, <3>2
  <2>9. \A y \in given : y[2] = c
    OBVIOUS
  <2>10. \A y \in given : y[2] \in ToSet(b.requests[s]) /\ y[2] \notin ToSet(broker'.requests[s])
    BY <2>2, <2>7, <2>9
  <2>11. \A y, z \in given : y = z
    OBVIOUS
  <2> QED
    BY <2>5, <2>6, <2>8, <2>10, <2>11, <2>12
<1> QED
  BY <1>1, <1>2, <1>3

-----------------------------------------------------------------------------
(* Attempts move from place to place                                       *)

\* Each attempt at a place was there, or has moved there.
LEMMA HeldMoves ==
  ASSUME NEW moved,
         \A a \in Attempts :
           /\ a \in asked' => a \in asked \/ <<<<"asked">>, a>> \in moved
           /\ \A r \in {"200", "404", "reply"} :
                <<a, r>> \in answers' => <<a, r>> \in answers \/ <<<<"answered", r>>, a>> \in moved
           /\ \A s \in Services :
                a \in ToSet(broker'.requests[s]) =>
                  a \in ToSet(broker.requests[s]) \/ <<<<"queued", s>>, a>> \in moved
           /\ \A i \in Ids :
                /\ REPLY(a) \in ToSet(up'[i]) =>
                     REPLY(a) \in ToSet(up[i]) \/ <<<<"up", i>>, a>> \in moved
                /\ REQUEST(a) \in ToSet(down'[i]) =>
                     REQUEST(a) \in ToSet(down[i]) \/ <<<<"down", i>>, a>> \in moved
           /\ \A w \in Workers :
                wstate'[w] = "busy" /\ job'[w] = a =>
                  (wstate[w] = "busy" /\ job[w] = a) \/ <<<<"job", w>>, a>> \in moved
  PROVE  \A a \in Attempts : \A L : Held(L, a)' => Held(L, a) \/ <<L, a>> \in moved
<1> TAKE a \in Attempts
<1> TAKE L
<1> SUFFICES ASSUME Held(L, a)' PROVE Held(L, a) \/ <<L, a>> \in moved
  OBVIOUS
<1>1. CASE L = <<"asked">> /\ a \in asked'
  BY <1>1 DEF Held
<1>2. ASSUME NEW r \in {"200", "404", "reply"}, L = <<"answered", r>>, <<a, r>> \in answers'
      PROVE  Held(L, a) \/ <<L, a>> \in moved
  BY <1>2 DEF Held
<1>3. ASSUME NEW s \in Services, L = <<"queued", s>>, a \in ToSet(broker'.requests[s])
      PROVE  Held(L, a) \/ <<L, a>> \in moved
  BY <1>3 DEF Held
<1>4. ASSUME NEW i \in Ids, L = <<"up", i>>, REPLY(a) \in ToSet(up'[i])
      PROVE  Held(L, a) \/ <<L, a>> \in moved
  BY <1>4 DEF Held
<1>5. ASSUME NEW i \in Ids, L = <<"down", i>>, REQUEST(a) \in ToSet(down'[i])
      PROVE  Held(L, a) \/ <<L, a>> \in moved
  BY <1>5 DEF Held
<1>6. ASSUME NEW w \in Workers, L = <<"job", w>>, wstate'[w] = "busy", job'[w] = a
      PROVE  Held(L, a) \/ <<L, a>> \in moved
  BY <1>6 DEF Held
<1> QED
  BY <1>1, <1>2, <1>3, <1>4, <1>5, <1>6 DEF Held

Counted(L, a) == served[a] = IF L[1] \in {"up", "answered"} THEN 1 ELSE 0

\* Attempts stay in one place when those that move have left where they were.
LEMMA HeldKept ==
  ASSUME OnePlace, HeldOK, NEW moved,
         \A a \in Attempts : \A L : Held(L, a)' => Held(L, a) \/ <<L, a>> \in moved,
         \A a \in Attempts : \A L : <<L, a>> \in moved /\ Held(L, a)' =>
           RR!Made(a)' /\ Counted(L, a)' /\ \A M : Held(M, a)' => M = L,
         \A a \in Attempts : RR!Made(a) => RR!Made(a)',
         \A a \in Attempts :
           (\A L : Held(L, a)' => <<L, a>> \in moved) \/ served'[a] = served[a]
  PROVE  OnePlace' /\ HeldOK'
<1>1. ASSUME NEW a \in Attempts, NEW L, NEW M, Held(L, a)', Held(M, a)'
      PROVE  L = M
  <2>1. CASE <<L, a>> \in moved
    BY <1>1, <2>1
  <2>2. CASE <<M, a>> \in moved
    BY <1>1, <2>2
  <2>3. CASE <<L, a>> \notin moved /\ <<M, a>> \notin moved
    <3>1. Held(L, a) /\ Held(M, a)
      BY <1>1, <2>3
    <3> QED
      BY <3>1 DEF OnePlace
  <2> QED
    BY <2>1, <2>2, <2>3
<1>2. ASSUME NEW a \in Attempts, NEW L, Held(L, a)'
      PROVE  RR!Made(a)' /\ Counted(L, a)'
  <2>1. CASE <<L, a>> \in moved
    BY <1>2, <2>1
  <2>2. CASE <<L, a>> \notin moved
    <3>1. Held(L, a) /\ served'[a] = served[a]
      BY <1>2, <2>2
    <3>2. RR!Made(a) /\ Counted(L, a)
      BY <3>1 DEF HeldOK, Counted
    <3> QED
      BY <3>1, <3>2 DEF Counted
  <2> QED
    BY <2>1, <2>2
<1>3. HeldOK'
  BY <1>2 DEF HeldOK, Counted
<1>4. OnePlace'
  BY <1>1 DEF OnePlace
<1> QED
  BY <1>3, <1>4

\* When nothing but a removal happens to the places.
LEMMA HeldLess ==
  ASSUME OnePlace, HeldOK, asked' \subseteq asked, answers' \subseteq answers,
         \A s \in Services : ToSet(broker'.requests[s]) \subseteq ToSet(broker.requests[s]),
         \A i \in Ids, a \in Attempts :
           /\ REPLY(a) \in ToSet(up'[i]) => REPLY(a) \in ToSet(up[i])
           /\ REQUEST(a) \in ToSet(down'[i]) => REQUEST(a) \in ToSet(down[i]),
         \A w \in Workers : wstate'[w] = "busy" => wstate[w] = "busy" /\ job'[w] = job[w],
         served' = served, \A a \in Attempts : RR!Made(a) => RR!Made(a)'
  PROVE  OnePlace' /\ HeldOK'
<1> PICK moved : moved = {}
  OBVIOUS
<1>1. \A a \in Attempts : \A L : Held(L, a)' => Held(L, a) \/ <<L, a>> \in moved
  BY HeldMoves
<1>2. \A a \in Attempts : \A L : <<L, a>> \notin moved
  OBVIOUS
<1> QED
  BY <1>1, <1>2, HeldKept

\* Which attempts were made only depends on the clients.
LEMMA MadeSame ==
  ASSUME UNCHANGED <<call, try>>
  PROVE  \A a \in Attempts : RR!Made(a)' <=> RR!Made(a)
BY DEF RR!Made

\* The attempt at one place is at no other.
LEMMA OnlyPlace ==
  ASSUME OnePlace, NEW a \in Attempts, NEW F, Held(F, a), ~Held(F, a)'
  PROVE  \A M : Held(M, a)' => ~Held(M, a)
BY DEF OnePlace

\* What it is for an attempt to be at each of the places.
LEMMA At ==
  ASSUME NEW a
  PROVE  /\ Held(<<"asked">>, a) <=> a \in asked
         /\ \A r \in {"200", "404", "reply"} : Held(<<"answered", r>>, a) <=> <<a, r>> \in answers
         /\ \A s \in Services : Held(<<"queued", s>>, a) <=> a \in ToSet(broker.requests[s])
         /\ \A i \in Ids : Held(<<"up", i>>, a) <=> REPLY(a) \in ToSet(up[i])
         /\ \A i \in Ids : Held(<<"down", i>>, a) <=> REQUEST(a) \in ToSet(down[i])
         /\ \A w \in Workers : Held(<<"job", w>>, a) <=> wstate[w] = "busy" /\ job[w] = a
BY DEF Held

\* The same, after a step.
LEMMA AtNext ==
  ASSUME NEW a
  PROVE  /\ Held(<<"asked">>, a)' <=> a \in asked'
         /\ \A r \in {"200", "404", "reply"} : Held(<<"answered", r>>, a)' <=> <<a, r>> \in answers'
         /\ \A s \in Services : Held(<<"queued", s>>, a)' <=> a \in ToSet(broker'.requests[s])
         /\ \A i \in Ids : Held(<<"up", i>>, a)' <=> REPLY(a) \in ToSet(up'[i])
         /\ \A i \in Ids : Held(<<"down", i>>, a)' <=> REQUEST(a) \in ToSet(down'[i])
         /\ \A w \in Workers : Held(<<"job", w>>, a)' <=> wstate'[w] = "busy" /\ job'[w] = a
BY DEF Held

\* Dispatching moves the attempt at the head of a queue to the socket of one worker.
LEMMA DispatchHeld ==
  ASSUME NetTypes, OnePlace, HeldOK, UNCHANGED <<workerVars, clientVars>>,
         NEW b, InStep(b), NEW s \in Services, NEW late,
         Len(b.idle[s]) <= 1 \/ Len(b.requests[s]) <= 1,
         \A t \in Services \ {s} : Paced(b, t), Dispatch(b, s, late),
         NEW queued \in SUBSET Attempts, NEW replied \in SUBSET Attempts,
         asked' \subseteq asked, answers' \subseteq answers \cup (replied \X {"reply"}),
         \A i \in Ids : ToSet(up'[i]) \subseteq ToSet(up[i]),
         \A t \in Services :
           ToSet(b.requests[t]) \subseteq
             ToSet(broker.requests[t]) \cup (IF t = s THEN queued ELSE {}),
         \A a \in queued : a \in asked /\ a \notin asked',
         \A a \in replied :
           \E i \in Ids : REPLY(a) \in ToSet(up[i]) /\ REPLY(a) \notin ToSet(up'[i])
  PROVE  OnePlace' /\ HeldOK'
<1>0. down \in [Ids -> Seq(ToWorkers)]
  BY DEF NetTypes
<1>1. PICK given \in SUBSET (Ids \X Attempts) :
        /\ \A y, z \in given : y = z
        /\ \A y \in given : y[2] \in ToSet(b.requests[s])
        /\ \A y \in given : y[2] \notin ToSet(broker'.requests[s])
        /\ \A t \in Services : ToSet(broker'.requests[t]) \subseteq ToSet(b.requests[t])
        /\ \A i \in Ids, a \in Attempts :
             REQUEST(a) \in ToSet(down'[i]) =>
               REQUEST(a) \in ToSet(down[i]) \/ <<i, a>> \in given
  BY <1>0, HandsOut
<1>13. PICK moved : moved = {<<<<"answered", "reply">>, a>> : a \in replied}
                            \cup {<<<<"queued", s>>, a>> : a \in queued}
                            \cup {<<<<"down", y[1]>>, y[2]>> : y \in given}
  OBVIOUS
<1>2. /\ \A a \in replied : <<<<"answered", "reply">>, a>> \in moved
      /\ \A a \in queued : <<<<"queued", s>>, a>> \in moved
      /\ \A i \in Ids, a \in Attempts : <<i, a>> \in given => <<<<"down", i>>, a>> \in moved
      /\ \A a \in Attempts : \A L : <<L, a>> \in moved =>
           \/ L = <<"answered", "reply">> /\ a \in replied
           \/ L = <<"queued", s>> /\ a \in queued
           \/ \E i \in Ids : L = <<"down", i>> /\ <<i, a>> \in given
  <2>1. \A a \in replied : <<<<"answered", "reply">>, a>> \in moved
    BY <1>13
  <2>2. \A a \in queued : <<<<"queued", s>>, a>> \in moved
    BY <1>13
  <2>3. ASSUME NEW i \in Ids, NEW a \in Attempts, <<i, a>> \in given
        PROVE  <<<<"down", i>>, a>> \in moved
    <3> PICK y \in given : y = <<i, a>>
      BY <2>3
    <3> QED
      BY <1>13
  <2>4. ASSUME NEW a \in Attempts, NEW L, <<L, a>> \in moved
        PROVE  \/ L = <<"answered", "reply">> /\ a \in replied
               \/ L = <<"queued", s>> /\ a \in queued
               \/ \E i \in Ids : L = <<"down", i>> /\ <<i, a>> \in given
    <3>1. CASE <<L, a>> \in {<<<<"answered", "reply">>, x>> : x \in replied}
      BY <3>1
    <3>2. CASE <<L, a>> \in {<<<<"queued", s>>, x>> : x \in queued}
      BY <3>2
    <3>3. CASE <<L, a>> \in {<<<<"down", y[1]>>, y[2]>> : y \in given}
      <4>1. PICK y \in given : L = <<"down", y[1]>> /\ a = y[2]
        BY <3>3
      <4>2. y[1] \in Ids /\ y = <<y[1], y[2]>>
        OBVIOUS
      <4> QED
        BY <4>1, <4>2
    <3> QED
      BY <1>13, <2>4, <3>1, <3>2, <3>3
  <2> QED
    BY <2>1, <2>2, <2>3, <2>4
<1>3. \A a \in Attempts : \A L : Held(L, a)' => Held(L, a) \/ <<L, a>> \in moved
  <2>1. ASSUME NEW a \in Attempts, NEW t \in Services, a \in ToSet(broker'.requests[t])
        PROVE  a \in ToSet(broker.requests[t]) \/ <<<<"queued", t>>, a>> \in moved
    <3>1. a \in ToSet(b.requests[t])
      BY <1>1, <2>1
    <3> QED
      BY <1>2, <3>1
  <2>2. ASSUME NEW a \in Attempts, NEW i \in Ids
        PROVE  /\ REPLY(a) \in ToSet(up'[i]) => REPLY(a) \in ToSet(up[i])
               /\ REQUEST(a) \in ToSet(down'[i]) =>
                    REQUEST(a) \in ToSet(down[i]) \/ <<<<"down", i>>, a>> \in moved
    BY <1>1, <1>2
  <2>3. ASSUME NEW a \in Attempts, NEW r \in {"200", "404", "reply"}, <<a, r>> \in answers'
        PROVE  <<a, r>> \in answers \/ <<<<"answered", r>>, a>> \in moved
    BY <1>2, <2>3
  <2>4. wstate' = wstate /\ job' = job
    BY DEF workerVars
  <2> QED
    BY <2>1, <2>2, <2>3, <2>4, HeldMoves
<1>4. ASSUME NEW a \in Attempts, NEW i \in Ids, <<i, a>> \in given
      PROVE  \E F \in {<<"asked">>, <<"queued", s>>} :
               Held(F, a) /\ ~Held(F, a)' /\ served[a] = 0
  <2>1. a \in ToSet(b.requests[s]) /\ a \notin ToSet(broker'.requests[s])
    <3> PICK y \in given : y = <<i, a>>
      BY <1>4
    <3>1. y[2] = a
      OBVIOUS
    <3> QED
      BY <1>1, <3>1
  <2>2. a \in ToSet(broker.requests[s]) \/ a \in queued
    BY <2>1
  <2>3. CASE a \in queued
    <3>1. Held(<<"asked">>, a) /\ ~Held(<<"asked">>, a)'
      BY <2>3, At, AtNext
    <3>2. served[a] = 0
      BY <3>1 DEF HeldOK
    <3> QED
      BY <3>1, <3>2
  <2>4. CASE a \in ToSet(broker.requests[s])
    <3>1. Held(<<"queued", s>>, a) /\ ~Held(<<"queued", s>>, a)'
      BY <2>1, <2>4, At, AtNext
    <3>2. served[a] = 0
      BY <3>1 DEF HeldOK
    <3> QED
      BY <3>1, <3>2
  <2> QED
    BY <2>2, <2>3, <2>4
<1>5. ASSUME NEW a \in queued
      PROVE  Held(<<"asked">>, a) /\ ~Held(<<"asked">>, a)' /\ served[a] = 0
  <2>1. Held(<<"asked">>, a) /\ ~Held(<<"asked">>, a)'
    BY At, AtNext
  <2> QED
    BY <2>1 DEF HeldOK
<1>6. ASSUME NEW a \in replied
      PROVE  served[a] = 1 /\ \E i \in Ids : Held(<<"up", i>>, a) /\ ~Held(<<"up", i>>, a)'
  <2> PICK i \in Ids : REPLY(a) \in ToSet(up[i]) /\ REPLY(a) \notin ToSet(up'[i])
    OBVIOUS
  <2>1. Held(<<"up", i>>, a) /\ ~Held(<<"up", i>>, a)'
    BY At, AtNext
  <2>2. served[a] = 1
    BY <2>1 DEF HeldOK
  <2> QED
    BY <2>1, <2>2
<1>7. served' = served /\ \A a \in Attempts : RR!Made(a)' <=> RR!Made(a)
  BY MadeSame DEF workerVars, clientVars
<1>8. ASSUME NEW a \in Attempts, NEW L, <<L, a>> \in moved, Held(L, a)'
      PROVE  /\ \E F : Held(F, a) /\ ~Held(F, a)'
             /\ Counted(L, a)'
             /\ \A M : <<M, a>> \in moved /\ Held(M, a)' => M = L
  <2>1. CASE L = <<"answered", "reply">> /\ a \in replied
    <3>1. served[a] = 1 /\ \E F : Held(F, a) /\ ~Held(F, a)'
      BY <1>6, <2>1
    <3>2. a \notin queued
      BY <1>5, <3>1
    <3>3. \A j \in Ids : <<j, a>> \notin given
      BY <1>4, <3>1
    <3>4. Counted(L, a)'
      BY <1>7, <2>1, <3>1 DEF Counted
    <3> QED
      BY <1>2, <2>1, <3>1, <3>2, <3>3, <3>4
  <2>2. CASE L = <<"queued", s>> /\ a \in queued
    <3>1. Held(<<"asked">>, a) /\ ~Held(<<"asked">>, a)' /\ served[a] = 0
      BY <1>5, <2>2
    <3>2. a \notin replied
      <4>1. a \in replied => served[a] = 1
        BY <1>6, Zenon
      <4> QED
        BY <3>1, <4>1
    <3>3. \A j \in Ids : <<j, a>> \notin given
      <4>1. ASSUME NEW j \in Ids, <<j, a>> \in given PROVE FALSE
        <5>1. a \in ToSet(broker'.requests[s])
          BY <1>8, <2>2, AtNext
        <5> PICK y \in given : y = <<j, a>>
          BY <4>1
        <5>2. y[2] = a
          OBVIOUS
        <5> QED
          BY <1>1, <5>1, <5>2
      <4> QED
        BY <4>1
    <3>4. Counted(L, a)'
      BY <1>7, <2>2, <3>1 DEF Counted
    <3> QED
      BY <1>2, <2>2, <3>1, <3>2, <3>3, <3>4
  <2>3. ASSUME NEW i \in Ids, L = <<"down", i>>, <<i, a>> \in given
        PROVE  /\ \E F : Held(F, a) /\ ~Held(F, a)'
               /\ Counted(L, a)'
               /\ \A M : <<M, a>> \in moved /\ Held(M, a)' => M = L
    <3>1. PICK F : Held(F, a) /\ ~Held(F, a)' /\ served[a] = 0
      BY <1>4, <2>3
    <3>2. a \notin replied
      <4>1. a \in replied => served[a] = 1
        BY <1>6, Zenon
      <4> QED
        BY <3>1, <4>1
    <3>3. Counted(L, a)'
      BY <1>7, <2>3, <3>1 DEF Counted
    <3>4. ASSUME NEW M, <<M, a>> \in moved, Held(M, a)' PROVE M = L
      <4>1. CASE M = <<"queued", s>>
        <5>1. a \in ToSet(broker'.requests[s])
          BY <3>4, <4>1, AtNext
        <5> PICK y \in given : y = <<i, a>>
          BY <2>3
        <5>2. y[2] = a
          OBVIOUS
        <5> QED
          BY <1>1, <5>1, <5>2
      <4>2. ASSUME NEW j \in Ids, M = <<"down", j>>, <<j, a>> \in given PROVE M = L
        <5>1. <<j, a>> = <<i, a>>
          BY <1>1, <2>3, <4>2
        <5> QED
          BY <2>3, <4>2, <5>1
      <4>3. M = <<"queued", s>> \/ \E j \in Ids : M = <<"down", j>> /\ <<j, a>> \in given
        BY <1>2, <3>2, <3>4
      <4> QED
        BY <4>1, <4>2, <4>3
    <3> QED
      BY <3>1, <3>3, <3>4
  <2>4. \/ L = <<"answered", "reply">> /\ a \in replied
        \/ L = <<"queued", s>> /\ a \in queued
        \/ \E i \in Ids : L = <<"down", i>> /\ <<i, a>> \in given
    BY <1>2, <1>8, Zenon
  <2> QED
    BY <2>1, <2>2, <2>3, <2>4, Zenon
<1>9. ASSUME NEW a \in Attempts, NEW L, <<L, a>> \in moved, Held(L, a)'
      PROVE  RR!Made(a)' /\ Counted(L, a)' /\ \A M : Held(M, a)' => M = L
  <2>1. PICK F : Held(F, a) /\ ~Held(F, a)'
    BY <1>8, <1>9
  <2>2. RR!Made(a)'
    BY <1>7, <2>1 DEF HeldOK
  <2>3. ASSUME NEW M, Held(M, a)' PROVE M = L
    <3>1. ~Held(M, a)
      BY <2>1, <2>3, OnlyPlace, Zenon
    <3>2. <<M, a>> \in moved
      BY <1>3, <2>3, <3>1
    <3> QED
      BY <1>8, <1>9, <2>3, <3>2
  <2> QED
    BY <1>8, <1>9, <2>2, <2>3
<1>10. \A a \in Attempts : RR!Made(a) => RR!Made(a)'
  BY <1>7, Zenon
<1>11. \A a \in Attempts :
         (\A L : Held(L, a)' => <<L, a>> \in moved) \/ served'[a] = served[a]
  BY <1>7, Zenon
<1>12. \A a \in Attempts : \A L : <<L, a>> \in moved /\ Held(L, a)' =>
         RR!Made(a)' /\ Counted(L, a)' /\ \A M : Held(M, a)' => M = L
  BY <1>9, Zenon
<1> QED
  BY <1>3, <1>10, <1>11, <1>12, HeldKept

-----------------------------------------------------------------------------
(* The handlers of the broker that dispatch                                *)

\* The workers are as before when what they keep is.
LEMMA WorkersSame ==
  ASSUME WorkerTypes, UNCHANGED <<session, wstate, job>>
  PROVE  WorkerTypes' /\ \A i \in Ids : (Serving(i)' <=> Serving(i)) /\ (Unused(i)' <=> Unused(i))
BY DEF WorkerTypes, Serving, Unused

\* The clients are as before when what they keep is.
LEMMA ClientsSame ==
  ASSUME ClientTypes, UNCHANGED <<clientVars, served>>
  PROVE  ClientTypes'
<1>1. /\ call \in [Clients -> Nat] /\ try \in [Clients -> 0 .. Retries]
      /\ results \in [Clients -> Seq({"200", "404", "reply", "none"})]
      /\ served \in [Attempts -> Nat]
      /\ \A c \in Clients : /\ call[c] # 0 /\ call[c] <= Len(Calls[c]) + 1
                            /\ try[c] # 0 => call[c] <= Len(Calls[c])
      /\ \A a \in Attempts : served[a] # 0 => RR!Made(a)
  BY DEF ClientTypes
<1>2. call' = call /\ try' = try /\ results' = results /\ served' = served
  BY DEF clientVars
<1>3. \A a \in Attempts : served'[a] # 0 => RR!Made(a)'
  BY <1>1, <1>2, MadeSame
<1> QED
  BY <1>1, <1>2, <1>3 DEF ClientTypes

\* The broker goes on with lists b, which have the queued requests in addition, then
\* dispatches for service s; the replied ones go to their clients.
Dispatches(b, s, late, queued, replied) ==
  /\ UNCHANGED <<workerVars, clientVars, faults>>
  /\ InStep(b) /\ (Len(b.idle[s]) <= 1 \/ Len(b.requests[s]) <= 1)
  /\ (\A t \in Services \ {s} : Paced(b, t)) /\ Dispatch(b, s, late)
  /\ asked' \subseteq asked /\ answers' \subseteq answers \cup (replied \X {"reply"})
  /\ \A i \in Ids : ToSet(up'[i]) \subseteq ToSet(up[i])
  /\ \A t \in Services :
       ToSet(b.requests[t]) \subseteq
         ToSet(broker.requests[t]) \cup (IF t = s THEN queued ELSE {})
  /\ \A a \in queued : a \in asked /\ a \notin asked'
  /\ \A a \in replied :
       \E i \in Ids : REPLY(a) \in ToSet(up[i]) /\ REPLY(a) \notin ToSet(up'[i])
  /\ expired' \subseteq Ids /\ up' \in [Ids -> Seq(FromWorkers)]
  /\ \A i \in Ids : Fits(i, b, up'[i], down[i], Serving(i), Unused(i))

\* A handler that dispatches keeps the invariant.
LEMMA Dispatched ==
  ASSUME MajordomoInv, NEW b, NEW s \in Services, NEW late,
         NEW queued \in SUBSET Attempts, NEW replied \in SUBSET Attempts,
         Dispatches(b, s, late, queued, replied)
  PROVE  MajordomoInv'
<1> USE DEF Dispatches
<1>1. NetTypes /\ WorkerTypes /\ ClientTypes /\ OnePlace /\ HeldOK
  BY DEF MajordomoInv
<1>2. down \in [Ids -> Seq(ToWorkers)]
  BY <1>1 DEF NetTypes
<1>3. OnePlace' /\ HeldOK'
  BY <1>1, DispatchHeld
<1>4. WorkerTypes' /\ \A i \in Ids : (Serving(i)' <=> Serving(i)) /\ (Unused(i)' <=> Unused(i))
  BY <1>1, WorkersSame DEF workerVars
<1>5. ClientTypes'
  BY <1>1, ClientsSame DEF workerVars
<1>6. down' \in [Ids -> Seq(ToWorkers)]
  BY <1>2, HandsOut
<1>7. InStep(broker') /\ \A t \in Services : Paced(broker', t)
  BY <1>2, DispatchEffect
<1>8. NetTypes'
  <2>1. asked' \subseteq Attempts /\ answers' \subseteq Attempts \X {"200", "404", "reply"}
    BY <1>1 DEF NetTypes
  <2>2. faults' \in 0 .. MaxFaults
    BY <1>1 DEF NetTypes
  <2> QED
    BY <1>6, <2>1, <2>2 DEF NetTypes
<1>10. \A i \in Ids : \A u : \A x, y \in BOOLEAN :
         Fits(i, b, u, down[i], x, y) => Fits(i, broker', u, down'[i], x, y)
  BY <1>2, DispatchFits, Zenon
<1>9. ASSUME NEW i \in Ids PROVE SocketOK(i)'
  <2>0. Serving(i) \in BOOLEAN /\ Unused(i) \in BOOLEAN
    BY DEF Serving, Unused
  <2> PICK x \in BOOLEAN, y \in BOOLEAN : x = Serving(i) /\ y = Unused(i)
    BY <2>0
  <2>1. Fits(i, b, up'[i], down[i], x, y)
    <3>1. Fits(i, b, up'[i], down[i], Serving(i), Unused(i))
      OBVIOUS
    <3> QED
      BY <3>1
  <2>2. Fits(i, broker', up'[i], down'[i], x, y)
    <3> PICK u : u = up'[i]
      OBVIOUS
    <3>1. Fits(i, b, u, down[i], x, y)
      BY <2>1
    <3>2. Fits(i, broker', u, down'[i], x, y)
      BY <1>10, <3>1
    <3> QED
      BY <3>2
  <2>3. Serving(i)' = x /\ Unused(i)' = y
    BY <1>4 DEF Serving, Unused
  <2> QED
    BY <2>2, <2>3 DEF SocketOK
<1> QED
  BY <1>3, <1>4, <1>5, <1>7, <1>8, <1>9 DEF MajordomoInv

\* A worker that joins the waiting ones may be given one request.
LEMMA Joined ==
  ASSUME \A t \in Services : Paced(broker, t), InStep(broker), NEW i \in Ids, NEW s \in Services, s = Service(i),
         NEW b, InStep(b), i \in b.workers, i \notin ToSet(broker.waiting),
         b.waiting = broker.waiting, b.idle = broker.idle, b.requests = broker.requests
  PROVE  LET c == Idle(b, i)
         IN  /\ InStep(c) /\ c.workers = b.workers /\ c.requests = broker.requests
             /\ ToSet(c.waiting) = ToSet(broker.waiting) \cup {i}
             /\ Len(c.idle[s]) <= 1 \/ Len(c.requests[s]) <= 1
             /\ \A t \in Services \ {s} : Paced(c, t)
<1> PICK c : c = Idle(b, i)
  OBVIOUS
<1>1. /\ InStep(c) /\ c.workers = b.workers /\ c.requests = b.requests
      /\ ToSet(c.waiting) = ToSet(b.waiting) \cup {i}
      /\ Len(c.idle[s]) = Len(b.idle[s]) + 1
      /\ \A t \in Services : t # s => c.idle[t] = b.idle[t]
  BY IdleInStep
<1>2. \A t \in Services \ {s} : Paced(c, t)
  BY <1>1 DEF Paced
<1>3. Len(c.idle[s]) <= 1 \/ Len(c.requests[s]) <= 1
  <2>1. CASE broker.requests[s] = <<>>
    BY <1>1, <2>1
  <2>2. CASE broker.idle[s] = <<>>
    BY <1>1, <2>2
  <2> QED
    BY <2>1, <2>2 DEF Paced
<1> QED
  BY <1>1, <1>2, <1>3

\* A handler takes the first message of a worker.
LEMMA FromWorkerTakes ==
  ASSUME NetTypes, NEW i \in Ids, NEW m, FromWorker(i, m)
  PROVE  /\ up' \in [Ids -> Seq(FromWorkers)] /\ up[i] # <<>> /\ up[i] \in Seq(FromWorkers)
         /\ m \in ToSet(up[i]) /\ m = Head(up[i])
         /\ up'[i] = Tail(up[i]) /\ \A j \in Ids : j # i => up'[j] = up[j]
         /\ \A j \in Ids : ToSet(up'[j]) \subseteq ToSet(up[j])
         /\ UNCHANGED <<workerVars, clientVars, faults>> /\ asked' = asked
<1> PICK q : q = up[i]
  OBVIOUS
<1>1. q \in Seq(FromWorkers) /\ q # <<>> /\ m = Head(q) /\ up' = [up EXCEPT ![i] = Tail(q)]
  BY DEF NetTypes, FromWorker
<1>2. Tail(q) \in Seq(FromWorkers) /\ ToSet(Tail(q)) \subseteq ToSet(q) /\ Head(q) \in ToSet(q)
  BY <1>1, Taking, Zenon
<1>3. up \in [Ids -> Seq(FromWorkers)]
  BY DEF NetTypes
<1>4. up'[i] = Tail(q) /\ \A j \in Ids : j # i => up'[j] = up[j]
  BY <1>1, <1>3
<1>5. up' \in [Ids -> Seq(FromWorkers)]
  <2> PICK v \in Seq(FromWorkers) : v = Tail(q)
    BY <1>2
  <2>1. up' = [up EXCEPT ![i] = v]
    BY <1>1
  <2> QED
    BY <1>3, <2>1
<1>6. \A j \in Ids : ToSet(up'[j]) \subseteq ToSet(up[j])
  BY <1>2, <1>4
<1>7. UNCHANGED <<workerVars, clientVars, faults>> /\ asked' = asked
  BY DEF FromWorker
<1> QED
  BY <1>1, <1>2, <1>4, <1>5, <1>6, <1>7

\* Serving and Unused are Boolean.
LEMMA SocketTypes ==
  \A i \in Ids : Serving(i) \in BOOLEAN /\ Unused(i) \in BOOLEAN
BY DEF Serving, Unused

\* Other sockets when a worker has registered or waits.
LEMMA OtherFits ==
  ASSUME NEW c, NEW i \in Ids, c.workers = broker.workers \cup {i},
         ToSet(c.waiting) = ToSet(broker.waiting) \cup {i},
         \A j \in Ids : SocketOK(j), NEW j \in Ids, j # i, NEW u, u = up[j]
  PROVE  Fits(j, c, u, down[j], Serving(j), Unused(j))
<1> PICK x \in BOOLEAN, y \in BOOLEAN : x = Serving(j) /\ y = Unused(j)
  BY SocketTypes
<1> PICK d : d = down[j]
  OBVIOUS
<1>1. Fits(j, broker, u, d, x, y)
  BY DEF SocketOK
<1> QED
  BY <1>1 DEF Fits

\* A worker registers.
LEMMA BrokerReadyStep ==
  ASSUME MajordomoInv, NEW i \in Ids, BrokerReady(i)
  PROVE  MajordomoInv'
<1>1. /\ NetTypes /\ InStep(broker) /\ (\A t \in Services : Paced(broker, t))
      /\ (\A j \in Ids : SocketOK(j))
  BY DEF MajordomoInv
<1> PICK s \in Services : s = Service(i)
  BY ServiceType
<1>2. /\ FromWorker(i, READY) /\ i \notin broker.workers
      /\ expired' = expired \ {i} /\ answers' = answers
      /\ Dispatch(Idle(Registered(i), i), s, expired')
  BY DEF BrokerReady
<1>3. /\ up' \in [Ids -> Seq(FromWorkers)] /\ up[i] # <<>> /\ READY \in ToSet(up[i])
      /\ up'[i] = Tail(up[i]) /\ (\A j \in Ids : j # i => up'[j] = up[j])
      /\ (\A j \in Ids : ToSet(up'[j]) \subseteq ToSet(up[j]))
      /\ UNCHANGED <<workerVars, clientVars, faults>> /\ asked' = asked
  BY <1>1, <1>2, FromWorkerTakes
<1>4. up[i] = <<READY>> /\ down[i] = <<>> /\ ~Serving(i) /\ ~Unused(i)
  <2>1. SocketOK(i)
    BY <1>1
  <2> QED
    BY <1>3, <2>1 DEF SocketOK, Fits
<1> PICK b : b = Registered(i)
  OBVIOUS
<1>5. /\ InStep(b) /\ b.workers = broker.workers \cup {i} /\ b.waiting = broker.waiting
      /\ b.idle = broker.idle /\ b.requests = broker.requests
  BY <1>1, <1>2, RegisteredInStep
<1>6. i \notin ToSet(broker.waiting) /\ i \in b.workers
  BY <1>1, <1>2, <1>5 DEF InStep
<1> PICK c : c = Idle(b, i)
  OBVIOUS
<1>7. /\ InStep(c) /\ c.workers = b.workers /\ c.requests = broker.requests
      /\ ToSet(c.waiting) = ToSet(broker.waiting) \cup {i}
      /\ Len(c.idle[s]) <= 1 \/ Len(c.requests[s]) <= 1
      /\ \A t \in Services \ {s} : Paced(c, t)
  BY <1>1, <1>5, <1>6, Joined
<1>8. ASSUME NEW j \in Ids PROVE Fits(j, c, up'[j], down[j], Serving(j), Unused(j))
  <2>1. CASE j = i
    <3>1. up'[j] = <<>> /\ down[j] = <<>> /\ ~Serving(j) /\ ~Unused(j)
      BY <1>3, <1>4, <2>1
    <3> QED
      BY <3>1, NoMail DEF Fits
  <2>2. CASE j # i
    <3> PICK u : u = up'[j]
      OBVIOUS
    <3>1. u = up[j] /\ c.workers = broker.workers \cup {i}
      BY <1>3, <1>5, <1>7, <2>2
    <3> QED
      BY <1>1, <1>7, <2>2, <3>1, OtherFits
  <2> QED
    BY <2>1, <2>2
<1>12. PICK none \in SUBSET Attempts : none = {}
  OBVIOUS
<1>9. Dispatch(c, s, expired')
  BY <1>2
<1>10. /\ asked' \subseteq asked /\ answers' \subseteq answers \cup (none \X {"reply"})
       /\ expired' \subseteq Ids
       /\ \A t \in Services : ToSet(c.requests[t]) \subseteq
            ToSet(broker.requests[t]) \cup (IF t = s THEN none ELSE {})
       /\ \A a \in none : a \in asked /\ a \notin asked'
       /\ \A a \in none :
            \E j \in Ids : REPLY(a) \in ToSet(up[j]) /\ REPLY(a) \notin ToSet(up'[j])
  BY <1>1, <1>2, <1>3, <1>7, <1>12 DEF NetTypes
<1> QED
  <2>1. Dispatches(c, s, expired', none, none)
    BY <1>3, <1>7, <1>8, <1>9, <1>10 DEF Dispatches
  <2> QED
    BY <2>1, Dispatched, Zenon

\* A worker's reply goes to the client, and the worker waits again.
LEMMA BrokerReplyStep ==
  ASSUME MajordomoInv, NEW i \in Ids, NEW a \in Attempts, BrokerReply(i, a)
  PROVE  MajordomoInv'
<1>1. /\ NetTypes /\ InStep(broker) /\ (\A t \in Services : Paced(broker, t))
      /\ (\A j \in Ids : SocketOK(j))
  BY DEF MajordomoInv
<1> PICK s \in Services : s = Service(i)
  BY ServiceType
<1>2. /\ FromWorker(i, REPLY(a)) /\ i \in broker.workers
      /\ expired' = expired \ {i} /\ answers' = answers \cup {<<a, "reply">>}
      /\ Dispatch(Idle(broker, i), s, expired')
  BY DEF BrokerReply
<1>3. /\ up' \in [Ids -> Seq(FromWorkers)] /\ up[i] # <<>> /\ up[i] \in Seq(FromWorkers)
      /\ REPLY(a) \in ToSet(up[i]) /\ REPLY(a) = Head(up[i])
      /\ up'[i] = Tail(up[i]) /\ (\A j \in Ids : j # i => up'[j] = up[j])
      /\ (\A j \in Ids : ToSet(up'[j]) \subseteq ToSet(up[j]))
      /\ UNCHANGED <<workerVars, clientVars, faults>> /\ asked' = asked
  BY <1>1, <1>2, FromWorkerTakes
<1>4. ~Lacks(up[i], "REPLY")
  BY <1>3, Carried
<1>5. /\ Lacks(down[i], "REQUEST") /\ ~Serving(i) /\ ~Unused(i) /\ i \notin ToSet(broker.waiting)
      /\ Sole(up[i], "REPLY") /\ READY \notin ToSet(up[i])
  <2>1. SocketOK(i)
    BY <1>1
  <2>2. up[i] # <<READY>>
    BY <1>3, Commands
  <2> QED
    BY <1>2, <1>3, <1>4, <2>1, <2>2 DEF SocketOK, Fits
<1>6. Lacks(up'[i], "REPLY") /\ READY \notin ToSet(up'[i])
  <2>1. REPLY(a).command = "REPLY"
    BY Commands
  <2>2. Lacks(Tail(up[i]), "REPLY")
    BY <1>3, <1>5, <2>1, Taking
  <2> QED
    BY <1>3, <1>5, <2>2
<1> PICK c : c = Idle(broker, i)
  OBVIOUS
<1>7. /\ InStep(c) /\ c.workers = broker.workers /\ c.requests = broker.requests
      /\ ToSet(c.waiting) = ToSet(broker.waiting) \cup {i}
      /\ Len(c.idle[s]) <= 1 \/ Len(c.requests[s]) <= 1
      /\ \A t \in Services \ {s} : Paced(c, t)
  BY <1>1, <1>2, <1>5, Joined
<1>8. ASSUME NEW j \in Ids PROVE Fits(j, c, up'[j], down[j], Serving(j), Unused(j))
  <2>1. CASE j = i
    <3>1. /\ Lacks(up'[j], "REPLY") /\ Lacks(down[j], "REQUEST") /\ ~Serving(j) /\ ~Unused(j)
          /\ READY \notin ToSet(up'[j])
      BY <1>5, <1>6, <2>1
    <3>2. Sole(up'[j], "REPLY") /\ Sole(down[j], "REQUEST")
      BY <3>1 DEF Sole, Lacks
    <3> QED
      BY <3>1, <3>2 DEF Fits
  <2>2. CASE j # i
    <3> PICK u : u = up'[j]
      OBVIOUS
    <3>1. u = up[j] /\ c.workers = broker.workers \cup {i}
      BY <1>2, <1>3, <1>7, <2>2
    <3> QED
      BY <1>1, <1>7, <2>2, <3>1, OtherFits
  <2> QED
    BY <2>1, <2>2
<1>12. PICK none \in SUBSET Attempts : none = {}
  OBVIOUS
<1>13. PICK one \in SUBSET Attempts : one = {a}
  OBVIOUS
<1>9. Dispatch(c, s, expired')
  BY <1>2
<1>10. /\ asked' \subseteq asked /\ answers' \subseteq answers \cup (one \X {"reply"})
       /\ expired' \subseteq Ids
       /\ \A t \in Services : ToSet(c.requests[t]) \subseteq
            ToSet(broker.requests[t]) \cup (IF t = s THEN none ELSE {})
       /\ \A x \in none : x \in asked /\ x \notin asked'
  BY <1>1, <1>2, <1>3, <1>7, <1>12, <1>13 DEF NetTypes
<1>11. \A x \in one :
         \E j \in Ids : REPLY(x) \in ToSet(up[j]) /\ REPLY(x) \notin ToSet(up'[j])
  BY <1>3, <1>6, <1>13, LacksNone
<1> QED
  <2>1. Dispatches(c, s, expired', none, one)
    BY <1>3, <1>7, <1>8, <1>9, <1>10, <1>11 DEF Dispatches
  <2> QED
    BY <2>1, Dispatched, Zenon

\* What a client asks for is a service.
LEMMA TargetType ==
  ASSUME ClientTypes, NEW a \in Attempts, RR!Made(a)
  PROVE  Target(a) \in Services \cup {MMI}
<1> PICK c \in Clients, k \in Nat : c = a.client /\ k = a.call
  <2>1. \A c \in Clients : DOMAIN Calls[c] \subseteq Nat
    BY MajordomoAssumption
  <2>2. a.client \in Clients /\ a.call \in UNION {DOMAIN Calls[c] : c \in Clients}
    BY DEF Attempts
  <2> QED
    BY <2>1, <2>2
<1> PICK n \in Nat : n = Len(Calls[c])
  BY MajordomoAssumption
<1>1. Calls[c] \in Seq(Services \cup {MMI}) /\ DOMAIN Calls[c] = 1 .. n
  BY MajordomoAssumption
<1>2. k # 0 /\ a.try \in Nat /\ a.try # 0
  <2>1. \A x \in Clients : 0 \notin DOMAIN Calls[x]
    BY MajordomoAssumption
  <2> QED
    BY <2>1, MajordomoAssumption DEF Attempts
<1>3. /\ call[c] \in Nat /\ try[c] \in Nat /\ call[c] <= n + 1
      /\ try[c] # 0 => call[c] <= n
  <2>1. try[c] \in 0 .. Retries /\ Retries \in Nat
    BY MajordomoAssumption DEF ClientTypes
  <2>2. try[c] \in Nat
    BY <2>1
  <2> QED
    BY <2>2 DEF ClientTypes
<1>4. k < call[c] \/ (k = call[c] /\ a.try <= try[c])
  BY DEF RR!Made
<1>5. k <= n
  BY <1>2, <1>3, <1>4
<1> QED
  BY <1>1, <1>2, <1>5 DEF Target

\* The fields of the broker once a request has been queued.
LEMMA QueuedFields ==
  ASSUME NEW b \in Lists, NEW s \in Services, NEW a \in Attempts
  PROVE  LET c == [b EXCEPT !.requests[s] = Append(@, a)]
         IN  /\ c.workers = b.workers /\ c.waiting = b.waiting /\ c.idle = b.idle
             /\ c.requests = [b.requests EXCEPT ![s] = Append(b.requests[s], a)]
             /\ c.count = b.count /\ c \in Lists
<1> PICK R : R = [b.requests EXCEPT ![s] = Append(b.requests[s], a)]
  OBVIOUS
<1>1. b.requests \in [Services -> Seq(Attempts)]
  BY DEF Lists
<1>2. R \in [Services -> Seq(Attempts)]
  <2>0. Append(b.requests[s], a) \in Seq(Attempts)
    <3>1. b.requests[s] \in Seq(Attempts)
      BY <1>1
    <3> QED
      BY <3>1, Posted
  <2> PICK q \in Seq(Attempts) : q = Append(b.requests[s], a)
    BY <2>0
  <2>1. R = [b.requests EXCEPT ![s] = q]
    OBVIOUS
  <2> QED
    BY <1>1, <2>1
<1>3. [b EXCEPT !.requests[s] = Append(@, a)] = [b EXCEPT !.requests = R]
  BY DEF Lists
<1>4. LET c == [b EXCEPT !.requests = R]
      IN  /\ c.workers = b.workers /\ c.waiting = b.waiting /\ c.idle = b.idle
          /\ c.requests = R /\ c.count = b.count /\ c \in Lists
  BY <1>2 DEF Lists
<1> QED
  BY <1>3, <1>4

\* A request is queued, or handed out at once.
LEMMA BrokerRequestStep ==
  ASSUME MajordomoInv, NEW a \in asked, BrokerRequest(a)
  PROVE  MajordomoInv'
<1>1. /\ NetTypes /\ InStep(broker) /\ (\A t \in Services : Paced(broker, t))
      /\ (\A j \in Ids : SocketOK(j)) /\ OnePlace /\ HeldOK /\ ClientTypes
  BY DEF MajordomoInv
<1>2. a \in Attempts /\ Held(<<"asked">>, a)
  BY <1>1, At DEF NetTypes
<1>3. Target(a) \in Services
  <2>1. RR!Made(a)
    BY <1>1, <1>2 DEF HeldOK
  <2>2. Target(a) \in Services \cup {MMI}
    BY <1>1, <1>2, <2>1, TargetType
  <2> QED
    BY <2>2 DEF BrokerRequest
<1>19. PICK s \in Services : s = Target(a)
  BY <1>3
<1>18. PICK c : c = [broker EXCEPT !.requests[s] = Append(@, a)]
  OBVIOUS
<1>4. /\ asked' = asked \ {a} /\ Dispatch(c, s, expired)
      /\ UNCHANGED <<up, answers, expired>> /\ UNCHANGED <<workerVars, clientVars, faults>>
  BY <1>18, <1>19 DEF BrokerRequest
<1>5. /\ c.workers = broker.workers /\ c.waiting = broker.waiting /\ c.idle = broker.idle
      /\ c.requests = [broker.requests EXCEPT ![s] = Append(broker.requests[s], a)]
      /\ c.count = broker.count /\ c \in Lists /\ broker \in Lists
  <2>1. broker \in Lists
    BY <1>1 DEF InStep
  <2> QED
    BY <1>2, <1>18, <2>1, QueuedFields
<1>6. ASSUME NEW t \in Services PROVE a \notin ToSet(broker.requests[t])
  <2>1. SUFFICES ASSUME Held(<<"queued", t>>, a) PROVE FALSE
    BY At
  <2> QED
    BY <1>1, <1>2, <2>1 DEF OnePlace
<1>7. /\ broker.requests[s] \in Seq(Attempts) /\ Once(broker.requests[s])
      /\ broker.idle[s] \in Seq(Ids) /\ broker.requests \in [Services -> Seq(Attempts)]
  BY <1>1, Shares DEF InStep, Lists
<1>16. Append(broker.requests[s], a) \in Seq(Attempts)
  BY <1>2, <1>7, Posted
<1>20. PICK q \in Seq(Attempts) : q = Append(broker.requests[s], a)
  BY <1>16
<1>8. /\ ToSet(q) = ToSet(broker.requests[s]) \cup {a} /\ Once(q)
      /\ Len(q) = Len(broker.requests[s]) + 1
  <2> PICK p \in Seq(Attempts) : p = broker.requests[s]
    BY <1>7
  <2>1. a \notin ToSet(p) /\ Once(p)
    BY <1>6, <1>7
  <2>2. ToSet(Append(p, a)) = ToSet(p) \cup {a} /\ Once(Append(p, a)) /\ Len(Append(p, a)) = Len(p) + 1
    BY <1>2, <2>1, Added
  <2> QED
    BY <1>20, <2>2
<1>9. c.requests[s] = q /\ \A t \in Services : t # s => c.requests[t] = broker.requests[t]
  BY <1>5, <1>7, <1>20
<1>10. InStep(c)
  <2>1. \A t \in Services : Once(c.requests[t])
    BY <1>1, <1>8, <1>9 DEF InStep
  <2> QED
    BY <1>1, <1>5, <2>1 DEF InStep
<1>11. Len(c.idle[s]) <= 1 \/ Len(c.requests[s]) <= 1
  <2>1. CASE broker.requests[s] = <<>>
    BY <1>8, <1>9, <1>20, <2>1
  <2>2. CASE broker.idle[s] = <<>>
    BY <1>5, <2>2
  <2> QED
    BY <1>1, <2>1, <2>2 DEF Paced
<1>12. \A t \in Services \ {s} : Paced(c, t)
  BY <1>1, <1>5, <1>9 DEF Paced
<1>13. ASSUME NEW j \in Ids PROVE Fits(j, c, up'[j], down[j], Serving(j), Unused(j))
  <2>1. Fits(j, broker, up[j], down[j], Serving(j), Unused(j))
    BY <1>1 DEF SocketOK
  <2> QED
    BY <1>4, <1>5, <2>1 DEF Fits
<1>21. PICK none \in SUBSET Attempts : none = {}
  OBVIOUS
<1>22. PICK one \in SUBSET Attempts : one = {a}
  BY <1>2
<1>14. /\ asked' \subseteq asked /\ answers' \subseteq answers \cup (none \X {"reply"})
       /\ expired' \subseteq Ids /\ up' \in [Ids -> Seq(FromWorkers)]
       /\ \A i \in Ids : ToSet(up'[i]) \subseteq ToSet(up[i])
  BY <1>1, <1>4, <1>21 DEF NetTypes
<1>15. /\ \A t \in Services : ToSet(c.requests[t]) \subseteq
            ToSet(broker.requests[t]) \cup (IF t = s THEN one ELSE {})
       /\ \A x \in one : x \in asked /\ x \notin asked'
       /\ \A x \in none :
            \E j \in Ids : REPLY(x) \in ToSet(up[j]) /\ REPLY(x) \notin ToSet(up'[j])
  BY <1>4, <1>8, <1>9, <1>21, <1>22
<1>17. UNCHANGED <<workerVars, clientVars, faults>> /\ Dispatch(c, s, expired)
  BY <1>4
<1> QED
  <2>1. Dispatches(c, s, expired, one, none)
    BY <1>10, <1>11, <1>12, <1>13, <1>14, <1>15, <1>17 DEF Dispatches
  <2> QED
    BY <2>1, Dispatched, Zenon

-----------------------------------------------------------------------------
(* The other handlers of the broker                                        *)

\* A socket stays sound when nothing moves on it.
LEMMA SocketKept ==
  ASSUME NEW i \in Ids, SocketOK(i), up'[i] = up[i], down'[i] = down[i],
         i \in broker'.workers => i \in broker.workers,
         i \in ToSet(broker'.waiting) => i \in ToSet(broker.waiting),
         Serving(i)' => Serving(i), Unused(i)' => Unused(i)
  PROVE  SocketOK(i)'
<1> PICK u, d : u = up[i] /\ d = down[i]
  OBVIOUS
<1> PICK x \in BOOLEAN, y \in BOOLEAN : x = Serving(i) /\ y = Unused(i)
  BY SocketTypes
<1>0. Serving(i)' \in BOOLEAN /\ Unused(i)' \in BOOLEAN
  BY DEF Serving, Unused
<1> PICK v \in BOOLEAN, w \in BOOLEAN : v = Serving(i)' /\ w = Unused(i)'
  BY <1>0
<1>1. Fits(i, broker, u, d, x, y)
  BY DEF SocketOK
<1>2. Fits(i, broker', u, d, v, w)
  BY <1>1, FitsLess
<1> QED
  BY <1>2 DEF SocketOK

\* A message of the worker is taken.
LEMMA SocketTaken ==
  ASSUME NetTypes, NEW i \in Ids, SocketOK(i), up[i] # <<>>, up'[i] = Tail(up[i]),
         down'[i] = down[i], broker' = broker, Serving(i)' <=> Serving(i), Unused(i)' <=> Unused(i)
  PROVE  SocketOK(i)'
<1> PICK u \in Seq(FromWorkers) : u = up[i]
  BY DEF NetTypes
<1> PICK d : d = down[i]
  OBVIOUS
<1>1. Fits(i, broker, u, d, Serving(i), Unused(i)) /\ u # <<>>
  BY DEF SocketOK
<1> PICK t : t = Tail(u)
  OBVIOUS
<1>2. /\ ToSet(t) \subseteq ToSet(u) /\ (Lacks(u, "REPLY") => Lacks(t, "REPLY"))
      /\ Sole(u, "REPLY") => Sole(t, "REPLY")
  BY <1>1, Taking
<1>3. READY \notin ToSet(t)
  <2>1. SUFFICES ASSUME READY \in ToSet(t) PROVE FALSE
    OBVIOUS
  <2>2. u = <<READY>>
    BY <1>1, <1>2, <2>1 DEF Fits
  <2>3. t = <<>>
    BY <2>2
  <2> QED
    BY <2>1, <2>3, NoMail
<1>4. Fits(i, broker, t, d, Serving(i), Unused(i))
  BY <1>1, <1>2, <1>3 DEF Fits
<1>5. Fits(i, broker', up'[i], down'[i], Serving(i)', Unused(i)')
  <2> PICK x \in BOOLEAN, y \in BOOLEAN : x = Serving(i) /\ y = Unused(i)
    BY SocketTypes
  <2>1. Serving(i)' = x /\ Unused(i)' = y
    BY DEF Serving, Unused
  <2>2. Fits(i, broker, t, d, x, y)
    BY <1>4
  <2> QED
    BY <2>1, <2>2
<1> QED
  BY <1>5 DEF SocketOK

\* What the broker does on its own leaves workers and clients as they were.
LEMMA Elsewhere ==
  ASSUME MajordomoInv, UNCHANGED <<workerVars, clientVars>>
  PROVE  /\ WorkerTypes' /\ ClientTypes' /\ served' = served /\ wstate' = wstate /\ job' = job
         /\ \A i \in Ids : (Serving(i)' <=> Serving(i)) /\ (Unused(i)' <=> Unused(i))
         /\ \A a \in Attempts : RR!Made(a)' <=> RR!Made(a)
<1>1. WorkerTypes /\ ClientTypes
  BY DEF MajordomoInv
<1>2. /\ served' = served /\ wstate' = wstate /\ job' = job /\ session' = session
      /\ UNCHANGED clientVars
  BY DEF workerVars
<1>3. WorkerTypes' /\ \A i \in Ids : (Serving(i)' <=> Serving(i)) /\ (Unused(i)' <=> Unused(i))
  BY <1>1, <1>2, WorkersSame
<1>4. ClientTypes'
  BY <1>1, <1>2, ClientsSame
<1>5. \A a \in Attempts : RR!Made(a)' <=> RR!Made(a)
  BY <1>2, MadeSame DEF clientVars
<1> QED
  BY <1>2, <1>3, <1>4, <1>5

\* A heartbeat refreshes the deadline of its worker.
LEMMA BrokerHeartbeatStep ==
  ASSUME MajordomoInv, NEW i \in Ids, BrokerHeartbeat(i)
  PROVE  MajordomoInv'
<1>1. /\ NetTypes /\ InStep(broker) /\ (\A t \in Services : Paced(broker, t))
      /\ (\A j \in Ids : SocketOK(j)) /\ OnePlace /\ HeldOK
  BY DEF MajordomoInv
<1>2. /\ FromWorker(i, HEARTBEAT) /\ expired' = expired \ {i}
      /\ broker' = broker /\ down' = down /\ answers' = answers
  BY DEF BrokerHeartbeat
<1>3. /\ up' \in [Ids -> Seq(FromWorkers)] /\ up[i] # <<>>
      /\ up'[i] = Tail(up[i]) /\ (\A j \in Ids : j # i => up'[j] = up[j])
      /\ (\A j \in Ids : ToSet(up'[j]) \subseteq ToSet(up[j]))
      /\ UNCHANGED <<workerVars, clientVars, faults>> /\ asked' = asked
  BY <1>1, <1>2, FromWorkerTakes
<1>4. /\ WorkerTypes' /\ ClientTypes' /\ served' = served /\ wstate' = wstate /\ job' = job
      /\ \A j \in Ids : (Serving(j)' <=> Serving(j)) /\ (Unused(j)' <=> Unused(j))
      /\ \A a \in Attempts : RR!Made(a)' <=> RR!Made(a)
  BY <1>3, Elsewhere
<1>6. NetTypes'
  BY <1>1, <1>2, <1>3 DEF NetTypes
<1>7. InStep(broker)' /\ \A t \in Services : Paced(broker, t)'
  BY <1>1, <1>2 DEF InStep, Paced
<1>8. OnePlace' /\ HeldOK'
  BY <1>1, <1>2, <1>3, <1>4, HeldLess
<1>9. ASSUME NEW j \in Ids PROVE SocketOK(j)'
  <2>1. CASE j = i
    BY <1>1, <1>2, <1>3, <1>4, <2>1, SocketTaken
  <2>2. CASE j # i
    <3>1. SocketOK(j) /\ up'[j] = up[j] /\ down'[j] = down[j]
      BY <1>1, <1>2, <1>3, <2>2
    <3> QED
      BY <1>2, <1>4, <3>1, SocketKept
  <2> QED
    BY <2>1, <2>2
<1> QED
  BY <1>4, <1>6, <1>7, <1>8, <1>9 DEF MajordomoInv

\* A DISCONNECT carries no request.
LEMMA OtherMail ==
  ASSUME NEW q \in Seq(ToWorkers)
  PROVE  LET e == Append(q, DISCONNECT)
         IN  /\ e \in Seq(ToWorkers) /\ ToSet(e) = ToSet(q) \cup {DISCONNECT}
             /\ Lacks(q, "REQUEST") => Lacks(e, "REQUEST")
             /\ Sole(q, "REQUEST") => Sole(e, "REQUEST")
<1>1. DISCONNECT \in ToWorkers /\ DISCONNECT.command # "REQUEST"
  BY Commands DEF ToWorkers
<1>2. PICK n : n = DISCONNECT
  OBVIOUS
<1>3. n \in ToWorkers /\ n.command # "REQUEST"
  BY <1>1, <1>2
<1>4. /\ Append(q, n) \in Seq(ToWorkers) /\ ToSet(Append(q, n)) = ToSet(q) \cup {n}
      /\ Lacks(q, "REQUEST") => Lacks(Append(q, n), "REQUEST")
      /\ Sole(q, "REQUEST") => Sole(Append(q, n), "REQUEST")
  BY <1>3, Mail
<1> QED
  BY <1>2, <1>4

\* The session the broker does not know is told to leave.
LEMMA BrokerUnknownStep ==
  ASSUME MajordomoInv, NEW i \in Ids, BrokerUnknown(i)
  PROVE  MajordomoInv'
<1>1. /\ NetTypes /\ InStep(broker) /\ (\A t \in Services : Paced(broker, t))
      /\ (\A j \in Ids : SocketOK(j)) /\ OnePlace /\ HeldOK
  BY DEF MajordomoInv
<1> PICK m : m = Head(up[i])
  OBVIOUS
<1>2. /\ FromWorker(i, m) /\ i \notin broker.workers /\ m.command \in {"HEARTBEAT", "REPLY"}
      /\ down' = [down EXCEPT ![i] = Append(@, DISCONNECT)]
      /\ broker' = broker /\ answers' = answers /\ expired' = expired
  BY DEF BrokerUnknown
<1>3. /\ up' \in [Ids -> Seq(FromWorkers)] /\ up[i] # <<>> /\ up[i] \in Seq(FromWorkers)
      /\ up'[i] = Tail(up[i]) /\ (\A j \in Ids : j # i => up'[j] = up[j])
      /\ (\A j \in Ids : ToSet(up'[j]) \subseteq ToSet(up[j]))
      /\ UNCHANGED <<workerVars, clientVars, faults>> /\ asked' = asked
  BY <1>1, <1>2, FromWorkerTakes
<1>4. /\ WorkerTypes' /\ ClientTypes' /\ served' = served /\ wstate' = wstate /\ job' = job
      /\ \A j \in Ids : (Serving(j)' <=> Serving(j)) /\ (Unused(j)' <=> Unused(j))
      /\ \A a \in Attempts : RR!Made(a)' <=> RR!Made(a)
  BY <1>3, Elsewhere
<1> PICK d \in Seq(ToWorkers) : d = down[i]
  BY <1>1 DEF NetTypes
<1> PICK e : e = Append(d, DISCONNECT)
  OBVIOUS
<1>5. DISCONNECT \in ToWorkers /\ DISCONNECT.command = "DISCONNECT"
  BY Commands DEF ToWorkers
<1>6. /\ e \in Seq(ToWorkers) /\ ToSet(e) = ToSet(d) \cup {DISCONNECT}
      /\ Lacks(d, "REQUEST") => Lacks(e, "REQUEST")
      /\ Sole(d, "REQUEST") => Sole(e, "REQUEST")
  BY <1>5, OtherMail
<1>7. down'[i] = e /\ \A j \in Ids : j # i => down'[j] = down[j]
  BY <1>1, <1>2 DEF NetTypes
<1>8. down' \in [Ids -> Seq(ToWorkers)]
  <2>1. down' = [down EXCEPT ![i] = e] /\ down \in [Ids -> Seq(ToWorkers)]
    BY <1>1, <1>2 DEF NetTypes
  <2> QED
    BY <1>6, <2>1
<1>9. NetTypes'
  BY <1>1, <1>2, <1>3, <1>8 DEF NetTypes
<1>10. InStep(broker)' /\ \A t \in Services : Paced(broker, t)'
  BY <1>1, <1>2 DEF InStep, Paced
<1>11. OnePlace' /\ HeldOK'
  <2>1. ASSUME NEW a \in Attempts, NEW j \in Ids
        PROVE  /\ REPLY(a) \in ToSet(up'[j]) => REPLY(a) \in ToSet(up[j])
               /\ REQUEST(a) \in ToSet(down'[j]) => REQUEST(a) \in ToSet(down[j])
    <3>1. REQUEST(a) # DISCONNECT
      BY Commands
    <3> QED
      BY <1>3, <1>6, <1>7, <3>1
  <2> QED
    BY <1>1, <1>2, <1>3, <1>4, <2>1, HeldLess
<1>12. ASSUME NEW j \in Ids PROVE SocketOK(j)'
  <2>1. CASE j = i
    <3> PICK u \in Seq(FromWorkers) : u = up[i]
      BY <1>3
    <3> PICK t : t = Tail(u)
      OBVIOUS
    <3> PICK x \in BOOLEAN, y \in BOOLEAN : x = Serving(i) /\ y = Unused(i)
      BY SocketTypes
    <3>1. Fits(i, broker, u, d, x, y) /\ u # <<>> /\ u # <<READY>>
      <4>1. up[i] # <<READY>>
        BY <1>2, Commands
      <4> QED
        BY <1>1, <1>3, <4>1 DEF SocketOK
    <3>2. /\ ToSet(t) \subseteq ToSet(u) /\ (Lacks(u, "REPLY") => Lacks(t, "REPLY"))
          /\ Sole(u, "REPLY") => Sole(t, "REPLY")
      BY <3>1, Taking
    <3>3. Fits(i, broker, t, e, x, y)
      BY <1>6, <3>1, <3>2 DEF Fits
    <3>4. Serving(i)' = x /\ Unused(i)' = y
      BY <1>4 DEF Serving, Unused
    <3> QED
      BY <1>2, <1>3, <1>7, <2>1, <3>3, <3>4 DEF SocketOK
  <2>2. CASE j # i
    <3>1. SocketOK(j) /\ up'[j] = up[j] /\ down'[j] = down[j]
      BY <1>1, <1>3, <1>7, <2>2
    <3> QED
      BY <1>2, <1>4, <3>1, SocketKept
  <2> QED
    BY <2>1, <2>2
<1> QED
  BY <1>4, <1>9, <1>10, <1>11, <1>12 DEF MajordomoInv

\* One attempt moves; no copy of it stays where it was.
LEMMA OneMove ==
  ASSUME OnePlace, HeldOK, NEW x \in Attempts, NEW T, RR!Made(x)', Counted(T, x)',
         \A M : Held(M, x)' => ~Held(M, x),
         \A a \in Attempts : \A L : Held(L, a)' => Held(L, a) \/ (L = T /\ a = x),
         \A a \in Attempts : RR!Made(a) => RR!Made(a)',
         \A a \in Attempts : a # x => served'[a] = served[a]
  PROVE  OnePlace' /\ HeldOK'
<1>1. PICK moved : moved = {<<T, x>>}
  OBVIOUS
<1>2. <<T, x>> \in moved /\ \A a, L : <<L, a>> \in moved => L = T /\ a = x
  BY <1>1
<1>3. \A a \in Attempts : \A L : Held(L, a)' => Held(L, a) \/ <<L, a>> \in moved
  BY <1>2, Zenon
<1>4. \A M : Held(M, x)' => M = T
  OBVIOUS
<1>5. \A a \in Attempts : \A L : <<L, a>> \in moved /\ Held(L, a)' =>
        RR!Made(a)' /\ Counted(L, a)' /\ \A M : Held(M, a)' => M = L
  <2> TAKE a \in Attempts
  <2> TAKE L
  <2> HAVE <<L, a>> \in moved /\ Held(L, a)'
  <2>1. L = T /\ a = x
    BY <1>2
  <2> QED
    BY <1>4, <2>1
<1>6. \A a \in Attempts :
        (\A L : Held(L, a)' => <<L, a>> \in moved) \/ served'[a] = served[a]
  <2> TAKE a \in Attempts
  <2>1. CASE a = x
    BY <1>2, <1>4, <2>1
  <2>2. CASE a # x
    BY <2>2
  <2> QED
    BY <2>1, <2>2
<1> QED
  BY <1>3, <1>5, <1>6, HeldKept, Zenon

\* The broker answers for itself, which serves the attempt.
LEMMA BrokerMmiStep ==
  ASSUME MajordomoInv, NEW a \in asked, NEW s \in Services, BrokerMmi(a, s)
  PROVE  MajordomoInv' /\ a \in Attempts /\ RR!Serve(a)
<1>1. /\ NetTypes /\ WorkerTypes /\ ClientTypes /\ InStep(broker)
      /\ (\A t \in Services : Paced(broker, t))
      /\ (\A j \in Ids : SocketOK(j)) /\ OnePlace /\ HeldOK
  BY DEF MajordomoInv
<1>2. PICK r \in {"200", "404", "reply"} :
        /\ asked' = asked \ {a} /\ answers' = answers \cup {<<a, r>>}
        /\ served' = [served EXCEPT ![a] = @ + 1]
        /\ UNCHANGED <<up, down, broker, expired, session, wstate, job, clientVars, faults>>
  BY DEF BrokerMmi
<1>3. a \in Attempts /\ Held(<<"asked">>, a) /\ ~Held(<<"asked">>, a)'
  BY <1>1, <1>2, At, AtNext DEF NetTypes
<1>4. RR!Made(a) /\ served[a] = 0
  BY <1>1, <1>3 DEF HeldOK
<1>5. \A x \in Attempts : RR!Made(x)' <=> RR!Made(x)
  BY <1>2, MadeSame DEF clientVars
<1>6. /\ served'[a] = 1 /\ (\A x \in Attempts : x # a => served'[x] = served[x])
      /\ served' \in [Attempts -> Nat] /\ served' = [served EXCEPT ![a] = 1]
  BY <1>1, <1>2, <1>3, <1>4 DEF ClientTypes
<1>7. OnePlace' /\ HeldOK'
  <2>1. PICK T : T = <<"answered", r>>
    OBVIOUS
  <2>2. \A x \in Attempts : \A L : Held(L, x)' => Held(L, x) \/ (L = T /\ x = a)
    <3>1. PICK moved : moved = {<<T, a>>}
      OBVIOUS
    <3>2. \A x \in Attempts : \A L : Held(L, x)' => Held(L, x) \/ <<L, x>> \in moved
      BY <1>2, <2>1, <3>1, HeldMoves
    <3> QED
      BY <3>1, <3>2
  <2>3. Counted(T, a)' /\ RR!Made(a)'
    BY <1>3, <1>4, <1>5, <1>6, <2>1 DEF Counted
  <2>4. \A M : Held(M, a)' => ~Held(M, a)
    BY <1>1, <1>3, OnlyPlace
  <2> QED
    BY <1>1, <1>3, <1>5, <1>6, <2>2, <2>3, <2>4, OneMove
<1>8. WorkerTypes' /\ \A i \in Ids : (Serving(i)' <=> Serving(i)) /\ (Unused(i)' <=> Unused(i))
  BY <1>1, <1>2, WorkersSame
<1>9. ASSUME NEW j \in Ids PROVE SocketOK(j)'
  BY <1>1, <1>2, <1>8, SocketKept
<1>10. NetTypes'
  BY <1>1, <1>2, <1>3 DEF NetTypes
<1>11. ClientTypes'
  <2>1. \A x \in Attempts : served'[x] # 0 => RR!Made(x)'
    BY <1>1, <1>4, <1>5, <1>6 DEF ClientTypes
  <2> QED
    BY <1>1, <1>2, <1>6, <2>1 DEF ClientTypes, clientVars
<1>12. InStep(broker)' /\ \A t \in Services : Paced(broker, t)'
  BY <1>1, <1>2 DEF InStep, Paced
<1>13. RR!Serve(a)
  BY <1>2, <1>4, <1>6 DEF RR!Serve, clientVars
<1> QED
  BY <1>3, <1>7, <1>8, <1>9, <1>10, <1>11, <1>12, <1>13 DEF MajordomoInv

\* The timer deletes the workers that are overdue.
LEMMA BrokerTimerStep ==
  ASSUME MajordomoInv, BrokerTimer
  PROVE  MajordomoInv'
<1>1. /\ NetTypes /\ InStep(broker) /\ (\A t \in Services : Paced(broker, t))
      /\ (\A j \in Ids : SocketOK(j)) /\ OnePlace /\ HeldOK
  BY DEF MajordomoInv
<1>2. /\ broker' = Delete(broker, Overdue(broker, expired))
      /\ UNCHANGED <<expired, netVars, workerVars, clientVars, faults>>
  BY DEF BrokerTimer, Purge
<1>3. Overdue(broker, expired) \in SUBSET Ids
  <2>1. broker.waiting \in Seq(Ids)
    BY <1>1 DEF InStep, Lists
  <2>2. ASSUME NEW x \in Overdue(broker, expired) PROVE x \in Ids
    <3>1. PICK k \in DOMAIN broker.waiting : x = broker.waiting[k]
      BY <2>2 DEF Overdue
    <3> QED
      BY <2>1, <3>1
  <2> QED
    BY <2>2
<1>4. PICK D \in SUBSET Ids : D = Overdue(broker, expired)
  BY <1>3
<1>5. PICK c : c = Delete(broker, D)
  OBVIOUS
<1>6. /\ InStep(c) /\ c.workers = broker.workers \ D /\ c.requests = broker.requests
      /\ ToSet(c.waiting) = ToSet(broker.waiting) \ D
      /\ \A t \in Services : broker.idle[t] = <<>> => c.idle[t] = <<>>
  BY <1>1, <1>5, DeleteInStep
<1>7. broker' = c
  BY <1>2, <1>4, <1>5
<1>8. \A t \in Services : Paced(broker', t)
  BY <1>1, <1>6, <1>7 DEF Paced
<1>9. /\ WorkerTypes' /\ ClientTypes' /\ served' = served /\ wstate' = wstate /\ job' = job
      /\ \A j \in Ids : (Serving(j)' <=> Serving(j)) /\ (Unused(j)' <=> Unused(j))
      /\ \A a \in Attempts : RR!Made(a)' <=> RR!Made(a)
  BY <1>2, Elsewhere
<1>10. up' = up /\ down' = down /\ asked' = asked /\ answers' = answers
  BY <1>2 DEF netVars
<1>11. ASSUME NEW j \in Ids PROVE SocketOK(j)'
  BY <1>1, <1>6, <1>7, <1>9, <1>10, SocketKept
<1>12. OnePlace' /\ HeldOK'
  BY <1>1, <1>6, <1>7, <1>9, <1>10, HeldLess
<1>13. NetTypes'
  BY <1>1, <1>2, <1>10 DEF NetTypes
<1> QED
  BY <1>6, <1>7, <1>8, <1>9, <1>11, <1>12, <1>13 DEF MajordomoInv

\* The deadline of a waiting worker passes.
LEMMA ExpireStep ==
  ASSUME MajordomoInv, NEW i \in Ids, Expire(i)
  PROVE  MajordomoInv'
<1>1. /\ NetTypes /\ InStep(broker) /\ (\A t \in Services : Paced(broker, t))
      /\ (\A j \in Ids : SocketOK(j)) /\ OnePlace /\ HeldOK
  BY DEF MajordomoInv
<1>2. /\ expired' = expired \cup {i} /\ (faults' = faults \/ Fault)
      /\ UNCHANGED <<broker, netVars, workerVars, clientVars>>
  BY DEF Expire
<1>3. /\ WorkerTypes' /\ ClientTypes' /\ served' = served /\ wstate' = wstate /\ job' = job
      /\ \A j \in Ids : (Serving(j)' <=> Serving(j)) /\ (Unused(j)' <=> Unused(j))
      /\ \A a \in Attempts : RR!Made(a)' <=> RR!Made(a)
  BY <1>2, Elsewhere
<1>4. broker' = broker /\ up' = up /\ down' = down /\ asked' = asked /\ answers' = answers
  BY <1>2 DEF netVars
<1>5. ASSUME NEW j \in Ids PROVE SocketOK(j)'
  BY <1>1, <1>3, <1>4, SocketKept
<1>6. OnePlace' /\ HeldOK'
  BY <1>1, <1>3, <1>4, HeldLess
<1>7. NetTypes'
  BY <1>1, <1>2, <1>4, MajordomoAssumption DEF NetTypes, Fault
<1>8. InStep(broker)' /\ \A t \in Services : Paced(broker, t)'
  BY <1>1, <1>4 DEF InStep, Paced
<1> QED
  BY <1>3, <1>5, <1>6, <1>7, <1>8 DEF MajordomoInv

\* A broker that has just started has its lists in step.
LEMMA FreshInStep ==
  /\ InStep(Fresh) /\ Fresh.workers = {} /\ ToSet(Fresh.waiting) = {}
  /\ \A s \in Services : Fresh.requests[s] = <<>> /\ Paced(Fresh, s)
<1>1. /\ Fresh.workers = {} /\ Fresh.waiting = <<>>
      /\ \A s \in Services :
           Fresh.idle[s] = <<>> /\ Fresh.requests[s] = <<>> /\ Fresh.count[s] = 0
  BY DEF Fresh
<1>2. ToSet(<<>>) = {} /\ Once(<<>>)
  BY NoMail DEF Once
<1>3. \A S : Only(<<>>, S) = <<>>
  <2> TAKE S
  <2>1. PICK q \in Seq(Ids) : q = <<>>
    BY NoMail
  <2>2. ToSet(q) \cap S = {}
    BY <1>2, <2>1
  <2>3. Only(q, S) = <<>>
    BY <2>2, OnlyAllOrNone
  <2> QED
    BY <2>1, <2>3
<1>4. IsFiniteSet({}) /\ Cardinality({}) = 0
  BY FS_EmptySet
<1>5. Fresh \in Lists
  BY NoMail DEF Fresh, Lists
<1>6. \A s \in Services : {} \cap OfService(s) = {}
  OBVIOUS
<1>7. InStep(Fresh)
  BY <1>1, <1>2, <1>3, <1>4, <1>5, <1>6 DEF InStep
<1> QED
  BY <1>1, <1>2, <1>7 DEF Paced

\* The broker restarts: its lists are empty, and what it held is nowhere.
LEMMA BrokerRestartsStep ==
  ASSUME MajordomoInv, BrokerRestarts
  PROVE  MajordomoInv'
<1>1. /\ NetTypes /\ InStep(broker) /\ (\A t \in Services : Paced(broker, t))
      /\ (\A j \in Ids : SocketOK(j)) /\ OnePlace /\ HeldOK
  BY DEF MajordomoInv
<1>2. /\ Fault /\ broker' = Fresh /\ expired' = {}
      /\ \/ UNCHANGED netVars
         \/ /\ up' = [i \in Ids |-> <<>>] /\ down' = [i \in Ids |-> <<>>]
            /\ asked' = {} /\ answers' = {}
      /\ UNCHANGED <<workerVars, clientVars>>
  BY DEF BrokerRestarts
<1>3. /\ WorkerTypes' /\ ClientTypes' /\ served' = served /\ wstate' = wstate /\ job' = job
      /\ \A j \in Ids : (Serving(j)' <=> Serving(j)) /\ (Unused(j)' <=> Unused(j))
      /\ \A a \in Attempts : RR!Made(a)' <=> RR!Made(a)
  BY <1>2, Elsewhere
<1>4. /\ asked' \subseteq asked /\ answers' \subseteq answers
      /\ \A i \in Ids : (up'[i] = up[i] /\ down'[i] = down[i]) \/ (up'[i] = <<>> /\ down'[i] = <<>>)
  BY <1>2 DEF netVars
<1>5. InStep(broker)' /\ \A t \in Services : Paced(broker, t)'
  BY <1>2, FreshInStep
<1>6. broker'.workers = {} /\ ToSet(broker'.waiting) = {} /\ \A t \in Services : broker'.requests[t] = <<>>
  BY <1>2, FreshInStep
<1>7. ASSUME NEW j \in Ids PROVE SocketOK(j)'
  <2>1. CASE up'[j] = up[j] /\ down'[j] = down[j]
    BY <1>1, <1>3, <1>6, <2>1, SocketKept
  <2>2. CASE up'[j] = <<>> /\ down'[j] = <<>>
    BY <1>6, <2>2, NoMail DEF SocketOK, Fits
  <2> QED
    BY <1>4, <2>1, <2>2
<1>8. OnePlace' /\ HeldOK'
  <2>1. ASSUME NEW i \in Ids, NEW a \in Attempts
        PROVE  /\ REPLY(a) \in ToSet(up'[i]) => REPLY(a) \in ToSet(up[i])
               /\ REQUEST(a) \in ToSet(down'[i]) => REQUEST(a) \in ToSet(down[i])
    BY <1>4, NoMail
  <2>2. \A t \in Services : ToSet(broker'.requests[t]) \subseteq ToSet(broker.requests[t])
    BY <1>6, NoMail
  <2> QED
    BY <1>1, <1>3, <1>4, <2>1, <2>2, HeldLess
<1>9. NetTypes'
  <2>1. up' \in [Ids -> Seq(FromWorkers)] /\ down' \in [Ids -> Seq(ToWorkers)]
    <3>1. up \in [Ids -> Seq(FromWorkers)] /\ down \in [Ids -> Seq(ToWorkers)]
      BY <1>1 DEF NetTypes
    <3> QED
      BY <1>2, <3>1, NoMail DEF netVars
  <2>2. faults' \in 0 .. MaxFaults
    BY <1>1, <1>2, MajordomoAssumption DEF NetTypes, Fault
  <2> QED
    BY <1>1, <1>2, <1>4, <2>1, <2>2 DEF NetTypes
<1> QED
  BY <1>3, <1>5, <1>7, <1>8, <1>9 DEF MajordomoInv

-----------------------------------------------------------------------------
(* The workers                                                             *)

\* The socket a worker has.
LEMMA SocketOfWorker ==
  ASSUME WorkerTypes, NEW w \in Workers
  PROVE  /\ Id(w) \in Ids /\ Id(w)[1] = w /\ Id(w)[2] = session[w] /\ ~Unused(Id(w))
         /\ Serving(Id(w)) <=> wstate[w] = "busy"
         /\ \A i \in Ids : i # Id(w) /\ i[1] = w => session[w] # i[2]
<1>1. session[w] \in 1 .. MaxSessions
  BY DEF WorkerTypes
<1>2. session[w] \in Nat /\ ~(session[w] > session[w])
  BY <1>1
<1>3. \A i \in Ids : i = <<i[1], i[2]>>
  BY DEF Ids
<1>4. \A i \in Ids : i # Id(w) /\ i[1] = w => session[w] # i[2]
  BY <1>3 DEF Id
<1> QED
  BY <1>1, <1>2, <1>4 DEF Id, Ids, Unused, Serving

\* A worker opens a new socket; it serves no request then.
LEMMA ConnectStep ==
  ASSUME MajordomoInv, NEW w \in Workers, wstate[w] # "busy", Connect(w), wstate'[w] # "busy",
         wstate' \in [Workers -> {"recv", "busy", "dead"}],
         \A v \in Workers : v # w => wstate'[v] = wstate[v],
         faults' \in 0 .. MaxFaults,
         UNCHANGED <<broker, expired, asked, answers, job, served, clientVars>>
  PROVE  MajordomoInv'
<1>1. /\ NetTypes /\ WorkerTypes /\ ClientTypes
      /\ InStep(broker) /\ (\A t \in Services : Paced(broker, t))
      /\ (\A j \in Ids : SocketOK(j)) /\ OnePlace /\ HeldOK
  BY DEF MajordomoInv
<1>2. PICK i \in Ids : i = Id(w)
  BY <1>1, SocketOfWorker
<1>3. i[1] = w /\ i[2] = session[w] /\ session[w] \in Nat /\ session[w] < MaxSessions
  BY <1>1, <1>2, SocketOfWorker DEF Connect, WorkerTypes
<1>4. PICK n \in Ids : n = <<w, session[w] + 1>>
  <2>1. session[w] + 1 \in 1 .. MaxSessions
    BY <1>3, MajordomoAssumption
  <2> QED
    BY <2>1 DEF Ids
<1>5. n # i /\ n[1] = w /\ n[2] = session[w] + 1 /\ Unused(n)
  BY <1>3, <1>4 DEF Unused
<1>6. /\ session' = [session EXCEPT ![w] = @ + 1]
      /\ \E kept \in {up[i], <<>>} : up' = [up EXCEPT ![i] = kept, ![n] = <<READY>>]
      /\ down' = [down EXCEPT ![i] = <<>>]
  BY <1>2, <1>4 DEF Connect
<1>7. /\ session' \in [Workers -> 1 .. MaxSessions] /\ session'[w] = session[w] + 1
      /\ \A v \in Workers : v # w => session'[v] = session[v]
  BY <1>1, <1>3, <1>6, MajordomoAssumption DEF WorkerTypes
<1>8. /\ up'[i] = up[i] \/ up'[i] = <<>>
      /\ up'[n] = <<READY>> /\ \A j \in Ids : j # i /\ j # n => up'[j] = up[j]
  BY <1>1, <1>5, <1>6 DEF NetTypes
<1>9. down'[i] = <<>> /\ \A j \in Ids : j # i => down'[j] = down[j]
  BY <1>1, <1>6 DEF NetTypes
<1>10. ASSUME NEW j \in Ids
       PROVE  (Serving(j)' => Serving(j)) /\ (Unused(j)' => Unused(j))
  <2>1. j[1] \in Workers /\ j[2] \in Nat
    BY MajordomoAssumption DEF Ids
  <2>2. CASE j[1] = w
    <3>1. ~Serving(j)'
      BY <2>2 DEF Serving
    <3>2. j[2] > session[w] + 1 => j[2] > session[w]
      BY <1>3, <2>1
    <3> QED
      BY <1>7, <2>2, <3>1, <3>2 DEF Unused
  <2>3. CASE j[1] # w
    BY <1>7, <2>1, <2>3 DEF Serving, Unused
  <2> QED
    BY <2>2, <2>3
<1>11. /\ up[n] = <<>> /\ down[n] = <<>> /\ n \notin broker.workers
       /\ n \notin ToSet(broker.waiting)
  <2>1. SocketOK(n)
    BY <1>1
  <2> QED
    BY <1>1, <1>5, <2>1 DEF SocketOK, Fits, InStep
<1>12. /\ ToSet(<<READY>>) = {READY} /\ Lacks(<<READY>>, "REPLY") /\ Sole(<<READY>>, "REPLY")
       /\ <<READY>> \in Seq(FromWorkers)
  <2>1. READY \in FromWorkers
    BY DEF FromWorkers
  <2>5. <<READY>> \in Seq(FromWorkers)
    BY <2>1
  <2>2. PICK q \in Seq(FromWorkers) : q = <<READY>>
    BY <2>5
  <2>3. DOMAIN q = {1} /\ q[1] = READY
    BY <2>2
  <2>4. ToSet(q) = {READY} /\ Lacks(q, "REPLY") /\ Sole(q, "REPLY")
    BY <2>3, Commands DEF ToSet, Lacks, Sole
  <2> QED
    BY <2>2, <2>4
<1>13. ASSUME NEW j \in Ids PROVE SocketOK(j)'
  <2>1. CASE j = n
    <3>1. ~Serving(n)' /\ ~Unused(n)'
      <4>1. ~Serving(n)'
        BY <1>5 DEF Serving
      <4>2. ~(session[w] + 1 > session[w] + 1)
        BY <1>3
      <4> QED
        BY <1>5, <1>7, <4>1, <4>2 DEF Unused
    <3>2. up'[n] = <<READY>> /\ down'[n] = <<>>
      BY <1>5, <1>8, <1>9, <1>11
    <3>3. n \notin broker'.workers /\ n \notin ToSet(broker'.waiting)
      BY <1>11
    <3> QED
      BY <1>12, <2>1, <3>1, <3>2, <3>3, NoMail DEF SocketOK, Fits
  <2>2. CASE j = i
    <3>1. ~Serving(i)' /\ ~Unused(i)'
      <4>1. ~Serving(i)'
        BY <1>3 DEF Serving
      <4>2. ~(session[w] > session[w])
        BY <1>3
      <4> QED
        BY <1>3, <1>10, <4>1, <4>2 DEF Unused
    <3>2. SocketOK(i)
      BY <1>1
    <3>3. CASE up'[i] = <<>>
      BY <1>9, <2>2, <3>1, <3>3, NoMail DEF SocketOK, Fits
    <3>4. CASE up'[i] = up[i]
      <4> PICK u : u = up[i]
        OBVIOUS
      <4>1. /\ Sole(u, "REPLY")
            /\ i \in ToSet(broker.waiting) => Lacks(u, "REPLY")
            /\ READY \in ToSet(u) => u = <<READY>> /\ i \notin broker.workers
        BY <3>2 DEF SocketOK, Fits
      <4> QED
        BY <1>9, <2>2, <3>1, <3>4, <4>1, NoMail DEF SocketOK, Fits
    <3> QED
      BY <1>8, <3>3, <3>4
  <2>3. CASE j # i /\ j # n
    <3>1. SocketOK(j) /\ up'[j] = up[j] /\ down'[j] = down[j]
      BY <1>1, <1>8, <1>9, <2>3
    <3> QED
      BY <1>10, <3>1, SocketKept
  <2> QED
    BY <2>1, <2>2, <2>3
<1>14. OnePlace' /\ HeldOK'
  <2>1. ASSUME NEW j \in Ids, NEW a \in Attempts
        PROVE  /\ REPLY(a) \in ToSet(up'[j]) => REPLY(a) \in ToSet(up[j])
               /\ REQUEST(a) \in ToSet(down'[j]) => REQUEST(a) \in ToSet(down[j])
    <3>1. REPLY(a) # READY
      BY Commands
    <3> QED
      BY <1>8, <1>9, <1>12, <3>1, NoMail
  <2>2. \A a \in Attempts : RR!Made(a)' <=> RR!Made(a)
    BY MadeSame DEF clientVars
  <2>3. \A v \in Workers : wstate'[v] = "busy" => wstate[v] = "busy" /\ job'[v] = job[v]
    OBVIOUS
  <2> QED
    BY <1>1, <2>1, <2>2, <2>3, HeldLess
<1>15. NetTypes'
  <2>1. up \in [Ids -> Seq(FromWorkers)] /\ down \in [Ids -> Seq(ToWorkers)]
    BY <1>1 DEF NetTypes
  <2>2. up' \in [Ids -> Seq(FromWorkers)]
    <3>1. PICK kept \in {up[i], <<>>} : up' = [up EXCEPT ![i] = kept, ![n] = <<READY>>]
      BY <1>6
    <3>2. kept \in Seq(FromWorkers)
      BY <2>1, NoMail
    <3>3. PICK r \in Seq(FromWorkers) : r = <<READY>>
      BY <1>12
    <3>4. up' = [up EXCEPT ![i] = kept, ![n] = r]
      BY <3>1, <3>3
    <3> QED
      BY <2>1, <3>2, <3>4
  <2>3. down' \in [Ids -> Seq(ToWorkers)]
    <3>1. PICK e \in Seq(ToWorkers) : e = <<>>
      BY NoMail
    <3>2. down' = [down EXCEPT ![i] = e]
      BY <1>6, <3>1
    <3> QED
      BY <2>1, <3>2
  <2> QED
    BY <1>1, <2>2, <2>3 DEF NetTypes
<1>16. WorkerTypes'
  <2>1. \A v \in Workers : wstate'[v] = "busy" => job'[v] \in Attempts
    BY <1>1 DEF WorkerTypes
  <2>2. job' \in [Workers -> Attempts \cup {{}}]
    BY <1>1 DEF WorkerTypes
  <2> QED
    BY <1>7, <2>1, <2>2 DEF WorkerTypes
<1>17. ClientTypes'
  BY <1>1, ClientsSame
<1>18. InStep(broker)' /\ \A t \in Services : Paced(broker, t)'
  BY <1>1 DEF InStep, Paced
<1> QED
  BY <1>13, <1>14, <1>15, <1>16, <1>17, <1>18 DEF MajordomoInv

\* A worker that is told to reconnects.
LEMMA WorkerDisconnectStep ==
  ASSUME MajordomoInv, NEW w \in Workers, WorkerDisconnect(w)
  PROVE  MajordomoInv'
<1>1. WorkerTypes /\ NetTypes
  BY DEF MajordomoInv
<1>2. /\ wstate[w] = "recv" /\ wstate' = wstate /\ Connect(w) /\ faults' = faults
      /\ UNCHANGED <<broker, expired, asked, answers, job, served, clientVars>>
  BY DEF WorkerDisconnect, WorkerGets
<1>3. /\ wstate' \in [Workers -> {"recv", "busy", "dead"}] /\ faults' \in 0 .. MaxFaults
      /\ wstate[w] # "busy" /\ wstate'[w] # "busy"
      /\ \A v \in Workers : v # w => wstate'[v] = wstate[v]
  BY <1>1, <1>2 DEF WorkerTypes, NetTypes
<1> QED
  BY <1>2, <1>3, ConnectStep

\* A worker that hears nothing reconnects.
LEMMA WorkerTimeoutStep ==
  ASSUME MajordomoInv, NEW w \in Workers, WorkerTimeout(w)
  PROVE  MajordomoInv'
<1>1. WorkerTypes /\ NetTypes
  BY DEF MajordomoInv
<1>2. /\ wstate[w] = "recv" /\ wstate' = wstate /\ Connect(w) /\ (faults' = faults \/ Fault)
      /\ UNCHANGED <<broker, expired, asked, answers, job, served, clientVars>>
  BY DEF WorkerTimeout
<1>3. /\ wstate' \in [Workers -> {"recv", "busy", "dead"}] /\ faults' \in 0 .. MaxFaults
      /\ wstate[w] # "busy" /\ wstate'[w] # "busy"
      /\ \A v \in Workers : v # w => wstate'[v] = wstate[v]
  BY <1>1, <1>2, MajordomoAssumption DEF WorkerTypes, NetTypes, Fault
<1> QED
  BY <1>2, <1>3, ConnectStep

\* A worker that died starts again.
LEMMA WorkerStartsStep ==
  ASSUME MajordomoInv, NEW w \in Workers, WorkerStarts(w)
  PROVE  MajordomoInv'
<1>1. WorkerTypes /\ NetTypes
  BY DEF MajordomoInv
<1>2. /\ wstate[w] = "dead" /\ wstate' = [wstate EXCEPT ![w] = "recv"] /\ Connect(w)
      /\ faults' = faults
      /\ UNCHANGED <<broker, expired, asked, answers, job, served, clientVars>>
  BY DEF WorkerStarts
<1>3. /\ wstate' \in [Workers -> {"recv", "busy", "dead"}] /\ faults' \in 0 .. MaxFaults
      /\ wstate[w] # "busy" /\ wstate'[w] # "busy"
      /\ \A v \in Workers : v # w => wstate'[v] = wstate[v]
  BY <1>1, <1>2 DEF WorkerTypes, NetTypes
<1> QED
  BY <1>2, <1>3, ConnectStep

\* A worker sends a heartbeat.
LEMMA WorkerSendHeartbeatStep ==
  ASSUME MajordomoInv, NEW w \in Workers, WorkerSendHeartbeat(w)
  PROVE  MajordomoInv'
<1>1. /\ NetTypes /\ WorkerTypes /\ InStep(broker) /\ (\A t \in Services : Paced(broker, t))
      /\ (\A j \in Ids : SocketOK(j)) /\ OnePlace /\ HeldOK
  BY DEF MajordomoInv
<1>2. PICK i \in Ids : i = Id(w)
  BY <1>1, SocketOfWorker
<1>3. ~Unused(i)
  BY <1>1, <1>2, SocketOfWorker
<1>4. /\ up[i] = <<>> /\ down[i] = <<>> /\ up' = [up EXCEPT ![i] = <<HEARTBEAT>>]
      /\ UNCHANGED <<broker, expired, down, asked, answers, workerVars, clientVars, faults>>
  BY <1>2 DEF WorkerSendHeartbeat
<1>5. /\ WorkerTypes' /\ ClientTypes' /\ served' = served /\ wstate' = wstate /\ job' = job
      /\ \A j \in Ids : (Serving(j)' <=> Serving(j)) /\ (Unused(j)' <=> Unused(j))
      /\ \A a \in Attempts : RR!Made(a)' <=> RR!Made(a)
  BY <1>4, Elsewhere
<1>6. /\ ToSet(<<HEARTBEAT>>) = {HEARTBEAT} /\ Lacks(<<HEARTBEAT>>, "REPLY")
      /\ Sole(<<HEARTBEAT>>, "REPLY") /\ <<HEARTBEAT>> \in Seq(FromWorkers)
  <2>1. HEARTBEAT \in FromWorkers
    BY DEF FromWorkers
  <2>2. <<HEARTBEAT>> \in Seq(FromWorkers)
    BY <2>1
  <2>3. PICK q \in Seq(FromWorkers) : q = <<HEARTBEAT>>
    BY <2>2
  <2>4. DOMAIN q = {1} /\ q[1] = HEARTBEAT
    BY <2>3
  <2>5. ToSet(q) = {HEARTBEAT} /\ Lacks(q, "REPLY") /\ Sole(q, "REPLY")
    BY <2>4, Commands DEF ToSet, Lacks, Sole
  <2> QED
    BY <2>3, <2>5
<1>7. up'[i] = <<HEARTBEAT>> /\ \A j \in Ids : j # i => up'[j] = up[j]
  BY <1>1, <1>4 DEF NetTypes
<1>8. ASSUME NEW j \in Ids PROVE SocketOK(j)'
  <2>1. CASE j = i
    <3>1. SocketOK(i) /\ READY # HEARTBEAT
      BY <1>1, Commands
    <3>2. up'[i] = <<HEARTBEAT>> /\ down'[i] = <<>> /\ broker' = broker /\ ~Unused(i)'
      BY <1>3, <1>4, <1>5, <1>7
    <3>3. (i \in ToSet(broker.waiting) => ~Serving(i)) /\ (Serving(i)' <=> Serving(i))
      BY <1>5, <3>1 DEF SocketOK, Fits
    <3> QED
      BY <1>6, <2>1, <3>1, <3>2, <3>3, NoMail DEF SocketOK, Fits
  <2>2. CASE j # i
    <3>1. SocketOK(j) /\ up'[j] = up[j] /\ down'[j] = down[j]
      BY <1>1, <1>4, <1>7, <2>2
    <3> QED
      BY <1>4, <1>5, <3>1, SocketKept
  <2> QED
    BY <2>1, <2>2
<1>9. OnePlace' /\ HeldOK'
  <2>1. ASSUME NEW j \in Ids, NEW a \in Attempts
        PROVE  REPLY(a) \in ToSet(up'[j]) => REPLY(a) \in ToSet(up[j])
    <3>1. REPLY(a) # HEARTBEAT
      BY Commands
    <3> QED
      BY <1>6, <1>7, <3>1
  <2> QED
    BY <1>1, <1>4, <1>5, <2>1, HeldLess
<1>10. NetTypes'
  <2>1. PICK r \in Seq(FromWorkers) : r = <<HEARTBEAT>>
    BY <1>6
  <2>2. up' = [up EXCEPT ![i] = r] /\ up \in [Ids -> Seq(FromWorkers)]
    BY <1>1, <1>4, <2>1 DEF NetTypes
  <2>3. up' \in [Ids -> Seq(FromWorkers)]
    BY <2>2
  <2> QED
    BY <1>1, <1>4, <2>3 DEF NetTypes
<1>11. InStep(broker)' /\ \A t \in Services : Paced(broker, t)'
  BY <1>1, <1>4 DEF InStep, Paced
<1> QED
  BY <1>5, <1>8, <1>9, <1>10, <1>11 DEF MajordomoInv

\* A worker dies, and the attempt it was serving with it.
LEMMA WorkerDiesStep ==
  ASSUME MajordomoInv, NEW w \in Workers, WorkerDies(w)
  PROVE  MajordomoInv'
<1>1. /\ NetTypes /\ WorkerTypes /\ ClientTypes
      /\ InStep(broker) /\ (\A t \in Services : Paced(broker, t))
      /\ (\A j \in Ids : SocketOK(j)) /\ OnePlace /\ HeldOK
  BY DEF MajordomoInv
<1>2. /\ Fault /\ wstate' = [wstate EXCEPT ![w] = "dead"]
      /\ UNCHANGED <<broker, expired, netVars, session, job, served, clientVars>>
  BY DEF WorkerDies
<1>3. broker' = broker /\ up' = up /\ down' = down /\ asked' = asked /\ answers' = answers
  BY <1>2 DEF netVars
<1>4. \A v \in Workers : wstate'[v] = "busy" => wstate[v] = "busy" /\ job'[v] = job[v]
  BY <1>1, <1>2 DEF WorkerTypes
<1>5. ASSUME NEW j \in Ids PROVE (Serving(j)' => Serving(j)) /\ (Unused(j)' => Unused(j))
  <2>1. j[1] \in Workers
    BY DEF Ids
  <2> QED
    BY <1>2, <1>4, <2>1 DEF Serving, Unused
<1>6. ASSUME NEW j \in Ids PROVE SocketOK(j)'
  BY <1>1, <1>3, <1>5, SocketKept
<1>7. OnePlace' /\ HeldOK'
  <2>1. \A a \in Attempts : RR!Made(a)' <=> RR!Made(a)
    BY <1>2, MadeSame DEF clientVars
  <2> QED
    BY <1>1, <1>2, <1>3, <1>4, <2>1, HeldLess
<1>8. NetTypes'
  BY <1>1, <1>2, <1>3, MajordomoAssumption DEF NetTypes, Fault
<1>9. WorkerTypes'
  <2>1. wstate' \in [Workers -> {"recv", "busy", "dead"}]
    BY <1>1, <1>2 DEF WorkerTypes
  <2> QED
    BY <1>1, <1>2, <1>4, <2>1 DEF WorkerTypes
<1>10. ClientTypes'
  BY <1>1, <1>2, ClientsSame
<1>11. InStep(broker)' /\ \A t \in Services : Paced(broker, t)'
  BY <1>1, <1>3 DEF InStep, Paced
<1> QED
  BY <1>6, <1>7, <1>8, <1>9, <1>10, <1>11 DEF MajordomoInv

\* A worker takes up the request at its socket.
LEMMA WorkerRequestStep ==
  ASSUME MajordomoInv, NEW w \in Workers, WorkerRequest(w)
  PROVE  MajordomoInv'
<1>1. /\ NetTypes /\ WorkerTypes /\ ClientTypes
      /\ InStep(broker) /\ (\A t \in Services : Paced(broker, t))
      /\ (\A j \in Ids : SocketOK(j)) /\ OnePlace /\ HeldOK
  BY DEF MajordomoInv
<1>2. PICK i \in Ids : i = Id(w)
  BY <1>1, SocketOfWorker
<1>3. PICK a \in Attempts :
        /\ wstate[w] = "recv" /\ down[i] # <<>> /\ Head(down[i]) = REQUEST(a)
        /\ down' = [down EXCEPT ![i] = Tail(@)]
        /\ wstate' = [wstate EXCEPT ![w] = "busy"] /\ job' = [job EXCEPT ![w] = a]
        /\ UNCHANGED <<broker, expired, up, asked, answers, session, served, clientVars, faults>>
  BY <1>2 DEF WorkerRequest, WorkerGets
<1>4. PICK d \in Seq(ToWorkers) : d = down[i]
  BY <1>1 DEF NetTypes
<1>5. PICK t : t = Tail(d)
  OBVIOUS
<1>6. /\ d # <<>> /\ Head(d).command = "REQUEST" /\ REQUEST(a) \in ToSet(d)
      /\ t \in Seq(ToWorkers) /\ ToSet(t) \subseteq ToSet(d)
      /\ ~Lacks(d, "REQUEST") /\ (Sole(d, "REQUEST") => Lacks(t, "REQUEST"))
  <2>1. d # <<>> /\ Head(d) = REQUEST(a) /\ Head(d).command = "REQUEST"
    BY <1>3, <1>4, Commands
  <2>2. /\ Head(d) \in ToSet(d) /\ Tail(d) \in Seq(ToWorkers) /\ ToSet(Tail(d)) \subseteq ToSet(d)
        /\ Sole(d, "REQUEST") /\ Head(d).command = "REQUEST" => Lacks(Tail(d), "REQUEST")
    BY <2>1, Taking
  <2>3. ~Lacks(d, "REQUEST")
    BY <2>1, <2>2, Carried
  <2> QED
    BY <1>5, <2>1, <2>2, <2>3
<1>7. SocketOK(i)
  BY <1>1
<1>8. /\ Lacks(t, "REQUEST") /\ Lacks(up[i], "REPLY") /\ Sole(up[i], "REPLY")
      /\ i \notin ToSet(broker.waiting) /\ READY \notin ToSet(up[i])
  BY <1>4, <1>6, <1>7 DEF SocketOK, Fits
<1>9. down'[i] = t /\ \A j \in Ids : j # i => down'[j] = down[j]
  BY <1>1, <1>3, <1>4, <1>5 DEF NetTypes
<1>10. /\ wstate'[w] = "busy" /\ job'[w] = a
       /\ \A v \in Workers : v # w => wstate'[v] = wstate[v] /\ job'[v] = job[v]
  BY <1>1, <1>3 DEF WorkerTypes
<1>11. ASSUME NEW j \in Ids, j # i PROVE (Serving(j)' => Serving(j)) /\ (Unused(j)' => Unused(j))
  <2>1. j[1] \in Workers
    BY DEF Ids
  <2>2. j[1] = w => session[w] # j[2]
    BY <1>1, <1>2, <1>11, SocketOfWorker
  <2> QED
    BY <1>3, <1>10, <2>1, <2>2 DEF Serving, Unused
<1>12. ~Unused(i)'
  <2>1. ~Unused(i)
    BY <1>1, <1>2, SocketOfWorker
  <2> QED
    BY <1>3, <2>1 DEF Unused
<1>13. ASSUME NEW j \in Ids PROVE SocketOK(j)'
  <2>1. CASE j = i
    <3>1. Sole(t, "REQUEST")
      BY <1>8 DEF Sole, Lacks
    <3>2. /\ up'[i] = up[i] /\ down'[i] = t /\ broker' = broker
      BY <1>3, <1>9
    <3> QED
      BY <1>8, <1>12, <2>1, <3>1, <3>2 DEF SocketOK, Fits
  <2>2. CASE j # i
    <3>1. SocketOK(j) /\ up'[j] = up[j] /\ down'[j] = down[j]
      BY <1>1, <1>3, <1>9, <2>2
    <3> QED
      BY <1>3, <1>11, <2>2, <3>1, SocketKept
  <2> QED
    BY <2>1, <2>2
<1>14. \A x \in Attempts : RR!Made(x)' <=> RR!Made(x)
  BY <1>3, MadeSame DEF clientVars
<1>15. Held(<<"down", i>>, a) /\ ~Held(<<"down", i>>, a)'
  <2>1. REQUEST(a) \in ToSet(down[i]) /\ REQUEST(a) \notin ToSet(down'[i])
    BY <1>4, <1>6, <1>8, <1>9, LacksNone
  <2> QED
    BY <2>1, At, AtNext
<1>16. OnePlace' /\ HeldOK'
  <2>1. PICK T : T = <<"job", w>>
    OBVIOUS
  <2>2. \A x \in Attempts : \A L : Held(L, x)' => Held(L, x) \/ (L = T /\ x = a)
    <3>1. PICK moved : moved = {<<T, a>>}
      OBVIOUS
    <3>2. ASSUME NEW x \in Attempts, NEW v \in Workers, wstate'[v] = "busy", job'[v] = x
          PROVE  (wstate[v] = "busy" /\ job[v] = x) \/ <<<<"job", v>>, x>> \in moved
      BY <1>10, <2>1, <3>1, <3>2
    <3>3. ASSUME NEW x \in Attempts, NEW j \in Ids
          PROVE  REQUEST(x) \in ToSet(down'[j]) => REQUEST(x) \in ToSet(down[j])
      BY <1>4, <1>6, <1>9
    <3>4. \A x \in Attempts : \A L : Held(L, x)' => Held(L, x) \/ <<L, x>> \in moved
      BY <1>3, <3>2, <3>3, HeldMoves
    <3> QED
      BY <3>1, <3>4
  <2>3. Counted(T, a)' /\ RR!Made(a)'
    <3>1. RR!Made(a) /\ served[a] = 0
      BY <1>1, <1>15 DEF HeldOK
    <3> QED
      BY <1>3, <1>14, <2>1, <3>1 DEF Counted
  <2>4. \A M : Held(M, a)' => ~Held(M, a)
    BY <1>1, <1>15, OnlyPlace
  <2>5. served' = served
    BY <1>3
  <2> QED
    BY <1>1, <1>14, <2>2, <2>3, <2>4, <2>5, OneMove
<1>17. NetTypes'
  <2>1. down' = [down EXCEPT ![i] = t] /\ down \in [Ids -> Seq(ToWorkers)]
    BY <1>1, <1>3, <1>4, <1>5 DEF NetTypes
  <2>2. down' \in [Ids -> Seq(ToWorkers)]
    BY <1>6, <2>1
  <2> QED
    BY <1>1, <1>3, <2>2 DEF NetTypes
<1>18. WorkerTypes'
  <2>1. /\ wstate' \in [Workers -> {"recv", "busy", "dead"}]
        /\ job' \in [Workers -> Attempts \cup {{}}]
    BY <1>1, <1>3 DEF WorkerTypes
  <2>2. \A v \in Workers : wstate'[v] = "busy" => job'[v] \in Attempts
    BY <1>1, <1>10 DEF WorkerTypes
  <2> QED
    BY <1>1, <1>3, <2>1, <2>2 DEF WorkerTypes
<1>19. ClientTypes'
  BY <1>1, <1>3, ClientsSame
<1>20. InStep(broker)' /\ \A s \in Services : Paced(broker, s)'
  BY <1>1, <1>3 DEF InStep, Paced
<1> QED
  BY <1>13, <1>16, <1>17, <1>18, <1>19, <1>20 DEF MajordomoInv

\* A worker replies, which serves the attempt.
LEMMA WorkerReplyStep ==
  ASSUME MajordomoInv, NEW w \in Workers, WorkerReply(w)
  PROVE  MajordomoInv' /\ job[w] \in Attempts /\ RR!Serve(job[w])
<1>1. /\ NetTypes /\ WorkerTypes /\ ClientTypes
      /\ InStep(broker) /\ (\A t \in Services : Paced(broker, t))
      /\ (\A j \in Ids : SocketOK(j)) /\ OnePlace /\ HeldOK
  BY DEF MajordomoInv
<1>2. PICK i \in Ids : i = Id(w)
  BY <1>1, SocketOfWorker
<1>3. Serving(i) /\ ~Unused(i) /\ \A j \in Ids : j # i /\ j[1] = w => session[w] # j[2]
  BY <1>1, <1>2, SocketOfWorker DEF WorkerReply
<1>4. PICK a \in Attempts : a = job[w]
  BY <1>1 DEF WorkerReply, WorkerTypes
<1>5. /\ wstate[w] = "busy" /\ up' = [up EXCEPT ![i] = Append(@, REPLY(a))]
      /\ wstate' = [wstate EXCEPT ![w] = "recv"] /\ served' = [served EXCEPT ![a] = @ + 1]
      /\ UNCHANGED <<broker, expired, down, asked, answers, session, job, clientVars, faults>>
  BY <1>2, <1>4 DEF WorkerReply
<1>6. PICK u \in Seq(FromWorkers) : u = up[i]
  BY <1>1 DEF NetTypes
<1>7. PICK e : e = Append(u, REPLY(a))
  OBVIOUS
<1>8. /\ Lacks(u, "REPLY") /\ Lacks(down[i], "REQUEST") /\ Sole(down[i], "REQUEST")
      /\ i \notin ToSet(broker.waiting) /\ READY \notin ToSet(u)
  <2>1. SocketOK(i)
    BY <1>1
  <2> QED
    BY <1>3, <1>6, <2>1 DEF SocketOK, Fits
<1>9. e \in Seq(FromWorkers) /\ ToSet(e) = ToSet(u) \cup {REPLY(a)} /\ Sole(e, "REPLY")
  <2>1. REPLY(a) \in FromWorkers
    BY Sent
  <2>2. /\ Append(u, REPLY(a)) \in Seq(FromWorkers)
        /\ ToSet(Append(u, REPLY(a))) = ToSet(u) \cup {REPLY(a)}
    BY <2>1, Posted
  <2>3. Sole(Append(u, REPLY(a)), "REPLY")
    BY <1>8, <2>1, Mail
  <2> QED
    BY <1>7, <2>2, <2>3
<1>10. up'[i] = e /\ \A j \in Ids : j # i => up'[j] = up[j]
  BY <1>1, <1>5, <1>6, <1>7 DEF NetTypes
<1>11. wstate'[w] = "recv" /\ \A v \in Workers : v # w => wstate'[v] = wstate[v]
  BY <1>1, <1>5 DEF WorkerTypes
<1>12. ASSUME NEW j \in Ids PROVE (Serving(j)' => Serving(j)) /\ (Unused(j)' => Unused(j))
  <2>1. j[1] \in Workers
    BY DEF Ids
  <2> QED
    BY <1>5, <1>11, <2>1 DEF Serving, Unused
<1>13. ~Serving(i)' /\ ~Unused(i)'
  <2>1. i[1] = w
    BY <1>1, <1>2, SocketOfWorker
  <2> QED
    BY <1>3, <1>11, <1>12, <2>1 DEF Serving
<1>14. ASSUME NEW j \in Ids PROVE SocketOK(j)'
  <2>1. CASE j = i
    <3>1. READY \notin ToSet(e)
      BY <1>8, <1>9, Commands
    <3>2. up'[i] = e /\ down'[i] = down[i] /\ broker' = broker
      BY <1>5, <1>10
    <3> QED
      BY <1>8, <1>9, <1>13, <2>1, <3>1, <3>2 DEF SocketOK, Fits
  <2>2. CASE j # i
    <3>1. SocketOK(j) /\ up'[j] = up[j] /\ down'[j] = down[j]
      BY <1>1, <1>5, <1>10, <2>2
    <3> QED
      BY <1>5, <1>12, <3>1, SocketKept
  <2> QED
    BY <2>1, <2>2
<1>15. \A x \in Attempts : RR!Made(x)' <=> RR!Made(x)
  BY <1>5, MadeSame DEF clientVars
<1>16. Held(<<"job", w>>, a) /\ ~Held(<<"job", w>>, a)'
  BY <1>4, <1>5, <1>11, At, AtNext
<1>17. RR!Made(a) /\ served[a] = 0
  BY <1>1, <1>16 DEF HeldOK
<1>18. /\ served'[a] = 1 /\ (\A x \in Attempts : x # a => served'[x] = served[x])
       /\ served' \in [Attempts -> Nat] /\ served' = [served EXCEPT ![a] = 1]
  BY <1>1, <1>5, <1>17 DEF ClientTypes
<1>19. OnePlace' /\ HeldOK'
  <2>1. PICK T : T = <<"up", i>>
    OBVIOUS
  <2>2. \A x \in Attempts : \A L : Held(L, x)' => Held(L, x) \/ (L = T /\ x = a)
    <3>1. PICK moved : moved = {<<T, a>>}
      OBVIOUS
    <3>2. ASSUME NEW x \in Attempts, NEW j \in Ids, REPLY(x) \in ToSet(up'[j])
          PROVE  REPLY(x) \in ToSet(up[j]) \/ <<<<"up", j>>, x>> \in moved
      <4>1. CASE j = i
        <5>1. REPLY(x) \in ToSet(u) \/ REPLY(x) = REPLY(a)
          BY <1>9, <1>10, <3>2, <4>1
        <5>2. REPLY(x) \in ToSet(u) \/ x = a
          BY <5>1, Commands
        <5> QED
          BY <1>6, <2>1, <3>1, <4>1, <5>2
      <4>2. CASE j # i
        BY <1>10, <3>2, <4>2
      <4> QED
        BY <4>1, <4>2
    <3>3. \A v \in Workers : wstate'[v] = "busy" => wstate[v] = "busy" /\ job'[v] = job[v]
      BY <1>5, <1>11
    <3>4. \A x \in Attempts : \A L : Held(L, x)' => Held(L, x) \/ <<L, x>> \in moved
      BY <1>5, <3>2, <3>3, HeldMoves
    <3> QED
      BY <3>1, <3>4
  <2>3. Counted(T, a)' /\ RR!Made(a)'
    BY <1>15, <1>17, <1>18, <2>1 DEF Counted
  <2>4. \A M : Held(M, a)' => ~Held(M, a)
    BY <1>1, <1>16, OnlyPlace
  <2> QED
    BY <1>1, <1>15, <1>18, <2>2, <2>3, <2>4, OneMove
<1>20. NetTypes'
  <2>1. up' = [up EXCEPT ![i] = e] /\ up \in [Ids -> Seq(FromWorkers)]
    BY <1>1, <1>5, <1>6, <1>7 DEF NetTypes
  <2>2. up' \in [Ids -> Seq(FromWorkers)]
    BY <1>9, <2>1
  <2> QED
    BY <1>1, <1>5, <2>2 DEF NetTypes
<1>21. WorkerTypes'
  <2>1. wstate' \in [Workers -> {"recv", "busy", "dead"}]
    BY <1>1, <1>5 DEF WorkerTypes
  <2>2. \A v \in Workers : wstate'[v] = "busy" => job'[v] \in Attempts
    BY <1>1, <1>5, <1>11 DEF WorkerTypes
  <2> QED
    BY <1>1, <1>5, <2>1, <2>2 DEF WorkerTypes
<1>22. ClientTypes'
  <2>1. \A x \in Attempts : served'[x] # 0 => RR!Made(x)'
    BY <1>1, <1>15, <1>17, <1>18 DEF ClientTypes
  <2> QED
    BY <1>1, <1>5, <1>18, <2>1 DEF ClientTypes, clientVars
<1>23. InStep(broker)' /\ \A s \in Services : Paced(broker, s)'
  BY <1>1, <1>5 DEF InStep, Paced
<1>24. RR!Serve(a)
  BY <1>5, <1>17, <1>18 DEF RR!Serve, clientVars
<1> QED
  BY <1>4, <1>14, <1>19, <1>20, <1>21, <1>22, <1>23, <1>24 DEF MajordomoInv

-----------------------------------------------------------------------------
(* What a client does                                                      *)

\* The broker and the workers are not disturbed by what a client does.
LEMMA ClientAlone ==
  ASSUME MajordomoInv, UNCHANGED <<broker, expired, up, down, workerVars, faults>>,
         asked' \subseteq Attempts, answers' \subseteq answers, ClientTypes', OnePlace', HeldOK'
  PROVE  MajordomoInv'
<1>1. /\ NetTypes /\ WorkerTypes /\ InStep(broker)
      /\ (\A t \in Services : Paced(broker, t)) /\ (\A j \in Ids : SocketOK(j))
  BY DEF MajordomoInv
<1>2. broker' = broker /\ up' = up /\ down' = down /\ UNCHANGED <<session, wstate, job>>
  BY DEF workerVars
<1>3. WorkerTypes' /\ \A i \in Ids : (Serving(i)' <=> Serving(i)) /\ (Unused(i)' <=> Unused(i))
  BY <1>1, <1>2, WorkersSame
<1>4. ASSUME NEW j \in Ids PROVE SocketOK(j)'
  BY <1>1, <1>2, <1>3, SocketKept
<1>5. NetTypes'
  BY <1>1 DEF NetTypes
<1>6. InStep(broker)' /\ \A t \in Services : Paced(broker, t)'
  BY <1>1, <1>2 DEF InStep, Paced
<1> QED
  BY <1>3, <1>4, <1>5, <1>6 DEF MajordomoInv

\* A client makes an attempt.
LEMMA Asked ==
  ASSUME MajordomoInv, UNCHANGED <<broker, expired, up, down, workerVars, faults>>,
         NEW x \in Attempts, ~RR!Made(x), RR!Made(x)',
         \A a \in Attempts : RR!Made(a) => RR!Made(a)',
         asked' \subseteq asked \cup {x}, answers' \subseteq answers
  PROVE  OnePlace' /\ HeldOK'
<1>1. OnePlace /\ HeldOK /\ ClientTypes
  BY DEF MajordomoInv
<1>2. /\ broker' = broker /\ up' = up /\ down' = down /\ wstate' = wstate /\ job' = job
      /\ served' = served
  BY DEF workerVars
<1>3. PICK T : T = <<"asked">>
  OBVIOUS
<1>4. \A a \in Attempts : \A L : Held(L, a)' => Held(L, a) \/ (L = T /\ a = x)
  <2>1. PICK moved : moved = {<<T, x>>}
    OBVIOUS
  <2>2. \A a \in Attempts : \A L : Held(L, a)' => Held(L, a) \/ <<L, a>> \in moved
    BY <1>2, <1>3, <2>1, HeldMoves
  <2> QED
    BY <2>1, <2>2
<1>5. \A L : ~Held(L, x)
  BY <1>1 DEF HeldOK
<1>6. served[x] = 0
  BY <1>1 DEF ClientTypes
<1>7. Counted(T, x)'
  BY <1>2, <1>3, <1>6 DEF Counted
<1> QED
  BY <1>1, <1>2, <1>4, <1>5, <1>7, OneMove

\* A client makes the first attempt of a call.
LEMMA ClientSendStep ==
  ASSUME MajordomoInv, NEW c \in Clients, ClientSend(c)
  PROVE  MajordomoInv' /\ RR!Try(c)
<1>1. NetTypes /\ ClientTypes
  BY DEF MajordomoInv
<1>2. PICK x : x = [client |-> c, call |-> call[c], try |-> 1]
  OBVIOUS
<1>3. /\ try[c] = 0 /\ call[c] <= Len(Calls[c]) /\ try' = [try EXCEPT ![c] = 1]
      /\ asked' = asked \cup {x} /\ answers' = answers /\ call' = call /\ results' = results
      /\ UNCHANGED <<broker, expired, up, down, workerVars, faults>>
  BY <1>2 DEF ClientSend
<1>4. /\ call[c] \in Nat \ {0} /\ Calls[c] \in Seq(Services \cup {MMI}) /\ Retries \in Nat \ {0}
      /\ call \in [Clients -> Nat] /\ try \in [Clients -> 0 .. Retries]
  BY <1>1, MajordomoAssumption DEF ClientTypes
<1>5. x \in Attempts
  <2>1. call[c] \in DOMAIN Calls[c] /\ 1 \in 1 .. Retries
    BY <1>3, <1>4
  <2> QED
    BY <1>2, <2>1 DEF Attempts
<1>6. try'[c] = 1 /\ \A d \in Clients : d # c => try'[d] = try[d]
  BY <1>4, <1>3
<1>7. ~RR!Made(x) /\ RR!Made(x)'
  BY <1>2, <1>3, <1>4, <1>6 DEF RR!Made
<1>8. ASSUME NEW a \in Attempts, RR!Made(a) PROVE RR!Made(a)'
  <2>1. a.client \in Clients /\ a.call \in Nat /\ a.try \in Nat
    BY <1>4, MajordomoAssumption DEF Attempts
  <2> QED
    BY <1>3, <1>4, <1>6, <1>8, <2>1 DEF RR!Made
<1>9. OnePlace' /\ HeldOK'
  BY <1>3, <1>5, <1>7, <1>8, Asked
<1>10. ClientTypes'
  <2>1. served' = served
    BY <1>3 DEF workerVars
  <2>2. try' \in [Clients -> 0 .. Retries]
    BY <1>3, <1>4
  <2>3. \A d \in Clients : /\ call'[d] # 0 /\ call'[d] <= Len(Calls[d]) + 1
                           /\ try'[d] # 0 => call'[d] <= Len(Calls[d])
    BY <1>1, <1>3, <1>6 DEF ClientTypes
  <2>4. \A a \in Attempts : served'[a] # 0 => RR!Made(a)'
    BY <1>1, <1>8, <2>1 DEF ClientTypes
  <2> QED
    BY <1>1, <1>3, <2>1, <2>2, <2>3, <2>4 DEF ClientTypes
<1>11. asked' \subseteq Attempts /\ answers' \subseteq answers
  BY <1>1, <1>3, <1>5 DEF NetTypes
<1>12. MajordomoInv'
  BY <1>3, <1>9, <1>10, <1>11, ClientAlone
<1>13. RR!Try(c)
  BY <1>3, <1>4 DEF RR!Try, workerVars
<1> QED
  BY <1>12, <1>13

\* A call is over: its attempts, and those of earlier calls, stay made.
LEMMA Returned ==
  ASSUME MajordomoInv, UNCHANGED <<broker, expired, up, down, workerVars, faults>>,
         NEW c \in Clients, NEW r \in {"200", "404", "reply", "none"}, try[c] # 0, Return(c, r),
         asked' \subseteq asked, answers' \subseteq answers
  PROVE  MajordomoInv'
<1>1. NetTypes /\ ClientTypes /\ OnePlace /\ HeldOK
  BY DEF MajordomoInv
<1>2. /\ broker' = broker /\ up' = up /\ down' = down /\ wstate' = wstate /\ job' = job
      /\ served' = served
  BY DEF workerVars
<1>3. /\ Calls[c] \in Seq(Services \cup {MMI})
      /\ call \in [Clients -> Nat] /\ try \in [Clients -> 0 .. Retries] /\ Retries \in Nat
      /\ results \in [Clients -> Seq({"200", "404", "reply", "none"})]
  BY <1>1, MajordomoAssumption DEF ClientTypes
<1>4. PICK n \in Nat : n = Len(Calls[c])
  BY <1>3
<1>5. call[c] \in Nat /\ call[c] # 0 /\ call[c] <= n
  BY <1>1, <1>3, <1>4 DEF ClientTypes
<1>6. PICK k \in Nat : k = IF r = "none" THEN n + 1 ELSE call[c] + 1
  BY <1>4, <1>5
<1>7. k > call[c] /\ k # 0 /\ k <= n + 1
  BY <1>4, <1>5, <1>6
<1>8. /\ call' = [call EXCEPT ![c] = k] /\ try' = [try EXCEPT ![c] = 0]
      /\ results' = [results EXCEPT ![c] = Append(@, r)]
  BY <1>4, <1>6 DEF Return
<1>9. /\ call'[c] = k /\ try'[c] = 0
      /\ \A d \in Clients : d # c => call'[d] = call[d] /\ try'[d] = try[d]
  BY <1>3, <1>8
<1>10. ASSUME NEW a \in Attempts, RR!Made(a) PROVE RR!Made(a)'
  <2>1. a.client \in Clients /\ a.call \in Nat /\ a.try \in Nat
    BY MajordomoAssumption DEF Attempts
  <2>2. CASE a.client = c
    <3>1. a.call <= call[c]
      BY <1>5, <1>10, <2>1, <2>2 DEF RR!Made
    <3>2. a.call < call'[c]
      BY <1>5, <1>7, <1>9, <2>1, <3>1
    <3> QED
      BY <2>2, <3>2 DEF RR!Made
  <2>3. CASE a.client # c
    BY <1>9, <1>10, <2>1, <2>3 DEF RR!Made
  <2> QED
    BY <2>2, <2>3
<1>11. OnePlace' /\ HeldOK'
  BY <1>1, <1>2, <1>10, HeldLess
<1>12. ClientTypes'
  <2>1. call' \in [Clients -> Nat] /\ try' \in [Clients -> 0 .. Retries]
    BY <1>3, <1>8
  <2>2. results' \in [Clients -> Seq({"200", "404", "reply", "none"})]
    <3>1. Append(results[c], r) \in Seq({"200", "404", "reply", "none"})
      BY <1>3
    <3> QED
      BY <1>3, <1>8, <3>1
  <2>3. \A d \in Clients : /\ call'[d] # 0 /\ call'[d] <= Len(Calls[d]) + 1
                           /\ try'[d] # 0 => call'[d] <= Len(Calls[d])
    BY <1>1, <1>4, <1>7, <1>9 DEF ClientTypes
  <2>4. \A a \in Attempts : served'[a] # 0 => RR!Made(a)'
    BY <1>1, <1>2, <1>10 DEF ClientTypes
  <2> QED
    BY <1>1, <1>2, <2>1, <2>2, <2>3, <2>4 DEF ClientTypes
<1>13. asked' \subseteq Attempts
  BY <1>1 DEF NetTypes
<1> QED
  BY <1>11, <1>12, <1>13, ClientAlone

\* A client takes the reply to its attempt: the call was served.
LEMMA ClientRecvStep ==
  ASSUME MajordomoInv, NEW c \in Clients, NEW r \in {"200", "404", "reply"}, ClientRecv(c, r)
  PROVE  MajordomoInv' /\ RR!Return(c, r)
<1>1. NetTypes /\ ClientTypes /\ HeldOK
  BY DEF MajordomoInv
<1>2. /\ try[c] # 0 /\ <<Attempt(c), r>> \in answers /\ Return(c, r)
      /\ answers' \subseteq answers /\ asked' = asked
      /\ UNCHANGED <<broker, expired, up, down, workerVars, faults>>
  BY DEF ClientRecv
<1>3. MajordomoInv'
  BY <1>2, Returned
<1>4. Attempt(c) \in Attempts /\ Held(<<"answered", r>>, Attempt(c))
  BY <1>1, <1>2, At DEF NetTypes
<1>5. served[Attempt(c)] = 1
  BY <1>1, <1>4 DEF HeldOK
<1>6. RR!Answered(c)
  <2>1. Attempt(c) \in RR!Attempts /\ Attempt(c).client = c /\ Attempt(c).call = call[c]
    BY <1>4 DEF Attempt, Attempts, RR!Attempts
  <2> QED
    BY <1>5, <2>1 DEF RR!Answered
<1>7. RR!Return(c, r)
  BY <1>2, <1>6 DEF RR!Return, Return, workerVars
<1> QED
  BY <1>3, <1>7

\* A client makes another attempt, or gives up after the last.
LEMMA ClientTimeoutStep ==
  ASSUME MajordomoInv, NEW c \in Clients, ClientTimeout(c)
  PROVE  MajordomoInv' /\ (RR!Try(c) \/ RR!Abandon(c))
<1>1. NetTypes /\ ClientTypes
  BY DEF MajordomoInv
<1>2. PICK x : x = [Attempt(c) EXCEPT !.try = @ + 1]
  OBVIOUS
<1>3. /\ try[c] # 0 /\ answers' \subseteq answers
      /\ UNCHANGED <<broker, expired, up, down, workerVars, faults>>
      /\ \/ /\ try[c] < Retries /\ try' = [try EXCEPT ![c] = @ + 1]
            /\ asked' \subseteq asked \cup {x} /\ UNCHANGED <<call, results>>
         \/ ~(try[c] < Retries) /\ Return(c, "none") /\ asked' \subseteq asked
  BY <1>2 DEF ClientTimeout
<1>4. /\ call[c] \in Nat \ {0} /\ Calls[c] \in Seq(Services \cup {MMI}) /\ Retries \in Nat \ {0}
      /\ call \in [Clients -> Nat] /\ try \in [Clients -> 0 .. Retries]
      /\ call[c] <= Len(Calls[c])
  BY <1>1, <1>3, MajordomoAssumption DEF ClientTypes
<1>5. ASSUME try[c] < Retries, try' = [try EXCEPT ![c] = @ + 1],
             asked' \subseteq asked \cup {x}, UNCHANGED <<call, results>>
      PROVE  MajordomoInv' /\ RR!Try(c)
  <2>1. x = [client |-> c, call |-> call[c], try |-> try[c] + 1]
    BY <1>2 DEF Attempt
  <2>2. x \in Attempts
    <3>1. call[c] \in DOMAIN Calls[c] /\ try[c] + 1 \in 1 .. Retries
      BY <1>4, <1>5
    <3> QED
      BY <2>1, <3>1 DEF Attempts
  <2>3. try'[c] = try[c] + 1 /\ \A d \in Clients : d # c => try'[d] = try[d]
    BY <1>4, <1>5
  <2>4. ~RR!Made(x) /\ RR!Made(x)'
    BY <1>4, <1>5, <2>1, <2>3 DEF RR!Made
  <2>5. ASSUME NEW a \in Attempts, RR!Made(a) PROVE RR!Made(a)'
    <3>1. a.client \in Clients /\ a.call \in Nat /\ a.try \in Nat
      BY MajordomoAssumption DEF Attempts
    <3> QED
      BY <1>4, <1>5, <2>3, <2>5, <3>1 DEF RR!Made
  <2>6. OnePlace' /\ HeldOK'
    BY <1>3, <1>5, <2>2, <2>4, <2>5, Asked
  <2>7. ClientTypes'
    <3>1. served' = served
      BY <1>3 DEF workerVars
    <3>2. try' \in [Clients -> 0 .. Retries]
      BY <1>4, <1>5
    <3>3. \A d \in Clients : /\ call'[d] # 0 /\ call'[d] <= Len(Calls[d]) + 1
                             /\ try'[d] # 0 => call'[d] <= Len(Calls[d])
      BY <1>1, <1>4, <1>5, <2>3 DEF ClientTypes
    <3>4. \A a \in Attempts : served'[a] # 0 => RR!Made(a)'
      BY <1>1, <2>5, <3>1 DEF ClientTypes
    <3> QED
      BY <1>1, <1>5, <3>1, <3>2, <3>3, <3>4 DEF ClientTypes
  <2>8. asked' \subseteq Attempts
    BY <1>1, <1>5, <2>2 DEF NetTypes
  <2>9. MajordomoInv'
    BY <1>3, <2>6, <2>7, <2>8, ClientAlone
  <2>10. RR!Try(c)
    BY <1>3, <1>4, <1>5 DEF RR!Try, workerVars
  <2> QED
    BY <2>9, <2>10
<1>6. ASSUME ~(try[c] < Retries), Return(c, "none"), asked' \subseteq asked
      PROVE  MajordomoInv' /\ RR!Abandon(c)
  <2>1. MajordomoInv'
    BY <1>3, <1>6, Returned
  <2>2. try[c] = Retries
    BY <1>4, <1>6
  <2>3. RR!Abandon(c)
    BY <1>3, <1>6, <2>2 DEF RR!Abandon, Return, workerVars
  <2> QED
    BY <2>1, <2>3
<1> QED
  BY <1>3, <1>5, <1>6

-----------------------------------------------------------------------------
(* The invariant holds at first and is kept                                *)

\* The invariant holds at first, and the abstract pattern starts as it does.
LEMMA Starting ==
  ASSUME MajordomoInit
  PROVE  MajordomoInv /\ RR!Init
<1>1. /\ broker = Fresh /\ expired = {} /\ asked = {} /\ answers = {}
      /\ up = [i \in Ids |-> IF i[2] = 1 THEN <<READY>> ELSE <<>>]
      /\ down = [i \in Ids |-> <<>>] /\ session = [w \in Workers |-> 1]
      /\ wstate = [w \in Workers |-> "recv"] /\ job = [w \in Workers |-> {}]
      /\ call = [c \in Clients |-> 1] /\ try = [c \in Clients |-> 0]
      /\ results = [c \in Clients |-> <<>>] /\ served = [a \in Attempts |-> 0] /\ faults = 0
  BY DEF MajordomoInit
<1>2. <<READY>> \in Seq(FromWorkers)
  <2>1. READY \in FromWorkers
    BY DEF FromWorkers
  <2> QED
    BY <2>1
<1>3. PICK q \in Seq(FromWorkers) : q = <<READY>>
  BY <1>2
<1>4. ToSet(q) = {READY} /\ Lacks(q, "REPLY") /\ Sole(q, "REPLY")
  <2>1. DOMAIN q = {1} /\ q[1] = READY
    BY <1>3
  <2> QED
    BY <2>1, Commands DEF ToSet, Lacks, Sole
<1>5. \A i \in Ids : (up[i] = q \/ up[i] = <<>>) /\ (i[2] # 1 => up[i] = <<>>) /\ down[i] = <<>>
  BY <1>1, <1>3
<1>6. ASSUME NEW i \in Ids PROVE SocketOK(i)
  <2>1. /\ i[1] \in Workers /\ session[i[1]] = 1 /\ wstate[i[1]] = "recv"
        /\ i \notin broker.workers /\ i \notin ToSet(broker.waiting)
    BY <1>1, FreshInStep DEF Ids
  <2>2. ~Serving(i)
    BY <2>1 DEF Serving
  <2>3. Unused(i) => i[2] # 1
    BY <2>1 DEF Unused
  <2>4. Unused(i) => up[i] = <<>>
    BY <1>5, <2>3
  <2>5. down[i] = <<>>
    BY <1>5
  <2>6. PICK u : u = up[i]
    OBVIOUS
  <2>7. CASE u = q
    BY <1>3, <1>4, <2>1, <2>2, <2>4, <2>5, <2>6, <2>7, NoMail DEF SocketOK, Fits
  <2>8. CASE u = <<>>
    BY <2>1, <2>2, <2>5, <2>6, <2>8, NoMail DEF SocketOK, Fits
  <2> QED
    BY <1>5, <2>6, <2>7, <2>8
<1>7. ASSUME NEW a \in Attempts, NEW L PROVE ~Held(L, a)
  <2>1. \A i \in Ids : REPLY(a) \notin ToSet(up[i]) /\ REQUEST(a) \notin ToSet(down[i])
    <3>1. REPLY(a) # READY
      BY Commands
    <3> QED
      BY <1>4, <1>5, <3>1, NoMail
  <2>2. \A s \in Services : a \notin ToSet(broker.requests[s])
    BY <1>1, FreshInStep, NoMail
  <2>3. \A w \in Workers : wstate[w] # "busy"
    BY <1>1
  <2> QED
    BY <1>1, <2>1, <2>2, <2>3 DEF Held
<1>8. OnePlace /\ HeldOK
  BY <1>7 DEF OnePlace, HeldOK
<1>9. NetTypes
  <2>1. up \in [Ids -> Seq(FromWorkers)]
    <3>1. \A i \in Ids : up[i] \in Seq(FromWorkers)
      BY <1>5, NoMail
    <3> QED
      BY <1>1, <3>1
  <2>2. down \in [Ids -> Seq(ToWorkers)]
    <3>1. PICK e \in Seq(ToWorkers) : e = <<>>
      BY NoMail
    <3> QED
      BY <1>1, <3>1
  <2> QED
    BY <1>1, <2>1, <2>2, MajordomoAssumption DEF NetTypes
<1>10. WorkerTypes
  BY <1>1, MajordomoAssumption DEF WorkerTypes
<1>11. ClientTypes
  <2>1. \A c \in Clients : call[c] = 1 /\ try[c] = 0 /\ 1 <= Len(Calls[c]) + 1
    BY <1>1, MajordomoAssumption
  <2>2. results \in [Clients -> Seq({"200", "404", "reply", "none"})]
    BY <1>1, NoMail
  <2> QED
    BY <1>1, <2>1, <2>2, MajordomoAssumption DEF ClientTypes
<1>12. InStep(broker) /\ \A s \in Services : Paced(broker, s)
  BY <1>1, FreshInStep
<1>13. RR!Init
  BY <1>1 DEF RR!Init, RR!Attempts, Attempts
<1> QED
  BY <1>6, <1>8, <1>9, <1>10, <1>11, <1>12, <1>13 DEF MajordomoInv

\* The broker's handlers keep the invariant; only the reply it makes itself serves.
LEMMA BrokerStep ==
  ASSUME MajordomoInv, Broker
  PROVE  MajordomoInv' /\ [RR!Next]_(RR!vars)
<1> USE DEF RR!vars
<1>1. ASSUME NEW i \in Ids, BrokerReady(i) PROVE MajordomoInv' /\ UNCHANGED RR!vars
  BY <1>1, BrokerReadyStep DEF BrokerReady, FromWorker, workerVars, clientVars
<1>2. ASSUME NEW i \in Ids, BrokerHeartbeat(i) PROVE MajordomoInv' /\ UNCHANGED RR!vars
  BY <1>2, BrokerHeartbeatStep DEF BrokerHeartbeat, FromWorker, workerVars, clientVars
<1>3. ASSUME NEW i \in Ids, BrokerUnknown(i) PROVE MajordomoInv' /\ UNCHANGED RR!vars
  BY <1>3, BrokerUnknownStep DEF BrokerUnknown, FromWorker, workerVars, clientVars
<1>4. ASSUME NEW i \in Ids, NEW a \in Attempts, BrokerReply(i, a)
      PROVE  MajordomoInv' /\ UNCHANGED RR!vars
  BY <1>4, BrokerReplyStep DEF BrokerReply, FromWorker, workerVars, clientVars
<1>5. ASSUME NEW a \in asked, BrokerRequest(a) PROVE MajordomoInv' /\ UNCHANGED RR!vars
  BY <1>5, BrokerRequestStep DEF BrokerRequest, workerVars, clientVars
<1>6. ASSUME NEW a \in asked, NEW s \in Services, BrokerMmi(a, s)
      PROVE  MajordomoInv' /\ RR!Next
  <2>1. MajordomoInv' /\ a \in RR!Attempts /\ RR!Serve(a)
    BY <1>6, BrokerMmiStep DEF RR!Attempts, Attempts
  <2> QED
    BY <2>1 DEF RR!Next
<1> QED
  BY <1>1, <1>2, <1>3, <1>4, <1>5, <1>6, Zenon DEF Broker

\* The workers keep the invariant; a reply serves, the rest stutters.
LEMMA WorkerStep ==
  ASSUME MajordomoInv, NEW w \in Workers,
         Worker(w) \/ WorkerTimeout(w) \/ WorkerDies(w) \/ WorkerStarts(w)
  PROVE  MajordomoInv' /\ [RR!Next]_(RR!vars)
<1> USE DEF RR!vars
<1>1. CASE WorkerRequest(w)
  BY <1>1, WorkerRequestStep DEF WorkerRequest, clientVars
<1>2. CASE WorkerDisconnect(w)
  BY <1>2, WorkerDisconnectStep DEF WorkerDisconnect, clientVars
<1>3. CASE WorkerSendHeartbeat(w)
  BY <1>3, WorkerSendHeartbeatStep DEF WorkerSendHeartbeat, workerVars, clientVars
<1>4. CASE WorkerReply(w)
  <2>1. MajordomoInv' /\ job[w] \in RR!Attempts /\ RR!Serve(job[w])
    BY <1>4, WorkerReplyStep DEF RR!Attempts, Attempts
  <2> QED
    BY <2>1 DEF RR!Next
<1>5. CASE WorkerTimeout(w)
  BY <1>5, WorkerTimeoutStep DEF WorkerTimeout, clientVars
<1>6. CASE WorkerDies(w)
  BY <1>6, WorkerDiesStep DEF WorkerDies, clientVars
<1>7. CASE WorkerStarts(w)
  BY <1>7, WorkerStartsStep DEF WorkerStarts, clientVars
<1> QED
  BY <1>1, <1>2, <1>3, <1>4, <1>5, <1>6, <1>7 DEF Worker

\* The clients keep the invariant and make the steps of the abstract clients.
LEMMA ClientStep ==
  ASSUME MajordomoInv, NEW c \in Clients, Client(c)
  PROVE  MajordomoInv' /\ [RR!Next]_(RR!vars)
<1>1. CASE ClientSend(c)
  BY <1>1, ClientSendStep DEF RR!Next, RR!Client
<1>2. CASE ClientTimeout(c)
  BY <1>2, ClientTimeoutStep DEF RR!Next, RR!Client
<1>3. ASSUME NEW r \in {"200", "404", "reply"}, ClientRecv(c, r)
      PROVE  MajordomoInv' /\ RR!Next
  BY <1>3, ClientRecvStep DEF RR!Next, RR!Client
<1> QED
  BY <1>1, <1>2, <1>3 DEF Client

\* Every step keeps the invariant, and is a step of RequestReply or stutters.
LEMMA MajordomoStep ==
  ASSUME MajordomoInv, [MajordomoNext]_majordomoVars
  PROVE  MajordomoInv' /\ [RR!Next]_(RR!vars)
<1>1. CASE Broker
  BY <1>1, BrokerStep
<1>2. CASE BrokerTimer
  BY <1>2, BrokerTimerStep DEF BrokerTimer, workerVars, clientVars, RR!vars
<1>3. CASE BrokerRestarts
  BY <1>3, BrokerRestartsStep DEF BrokerRestarts, workerVars, clientVars, RR!vars
<1>4. ASSUME NEW i \in Ids, Expire(i) PROVE MajordomoInv' /\ UNCHANGED RR!vars
  BY <1>4, ExpireStep DEF Expire, workerVars, clientVars, RR!vars
<1>5. ASSUME NEW w \in Workers,
             Worker(w) \/ WorkerTimeout(w) \/ WorkerDies(w) \/ WorkerStarts(w)
      PROVE  MajordomoInv' /\ [RR!Next]_(RR!vars)
  BY <1>5, WorkerStep, Zenon
<1>6. ASSUME NEW c \in Clients, Client(c) PROVE MajordomoInv' /\ [RR!Next]_(RR!vars)
  BY <1>6, ClientStep, Zenon
<1>7. CASE UNCHANGED majordomoVars
  <2>1. /\ UNCHANGED <<broker, expired, up, down, asked, answers, session, wstate, job, served,
                       call, try, results, faults>>
    BY <1>7 DEF majordomoVars, netVars, workerVars, clientVars
  <2>2. UNCHANGED <<workerVars, clientVars>>
    BY <2>1 DEF workerVars, clientVars
  <2>3. /\ NetTypes /\ InStep(broker) /\ (\A t \in Services : Paced(broker, t))
        /\ (\A j \in Ids : SocketOK(j)) /\ OnePlace /\ HeldOK
    BY DEF MajordomoInv
  <2>4. /\ WorkerTypes' /\ ClientTypes' /\ served' = served /\ wstate' = wstate /\ job' = job
        /\ \A j \in Ids : (Serving(j)' <=> Serving(j)) /\ (Unused(j)' <=> Unused(j))
        /\ \A a \in Attempts : RR!Made(a)' <=> RR!Made(a)
    BY <2>2, Elsewhere
  <2>5. ASSUME NEW j \in Ids PROVE SocketOK(j)'
    BY <2>1, <2>3, <2>4, SocketKept
  <2>6. OnePlace' /\ HeldOK'
    BY <2>1, <2>3, <2>4, HeldLess
  <2>7. NetTypes'
    BY <2>1, <2>3 DEF NetTypes
  <2>8. InStep(broker)' /\ \A t \in Services : Paced(broker, t)'
    BY <2>1, <2>3 DEF InStep, Paced
  <2>9. MajordomoInv'
    BY <2>4, <2>5, <2>6, <2>7, <2>8 DEF MajordomoInv
  <2> QED
    BY <2>1, <2>9 DEF RR!vars
<1> QED
  BY <1>1, <1>2, <1>3, <1>4, <1>5, <1>6, <1>7, Zenon DEF MajordomoNext

-----------------------------------------------------------------------------
(* What follows from it                                                    *)

\* The invariant says that the lists agree.
LEMMA ListsOK ==
  ASSUME MajordomoInv
  PROVE  ListsConsistent
<1>1. /\ NetTypes /\ WorkerTypes /\ ClientTypes /\ InStep(broker)
      /\ (\A s \in Services : Paced(broker, s)) /\ (\A i \in Ids : SocketOK(i))
  BY DEF MajordomoInv
<1>2. MajordomoTypeOK
  <2>1. up \in [Ids -> Seq(Messages)] /\ down \in [Ids -> Seq(Messages)]
    <3>1. FromWorkers \subseteq Messages /\ ToWorkers \subseteq Messages
      BY DEF FromWorkers, ToWorkers, Messages
    <3>2. /\ \A q \in Seq(FromWorkers) : q \in Seq(Messages)
          /\ \A q \in Seq(ToWorkers) : q \in Seq(Messages)
      BY <3>1
    <3>3. up \in [Ids -> Seq(FromWorkers)] /\ down \in [Ids -> Seq(ToWorkers)]
      BY <1>1 DEF NetTypes
    <3> QED
      BY <3>2, <3>3
  <2>2. broker \in Lists
    BY <1>1 DEF InStep
  <2>3. /\ session \in [Workers -> 1 .. MaxSessions]
        /\ wstate \in [Workers -> {"recv", "busy", "dead"}]
        /\ \A w \in Workers : wstate[w] = "busy" => job[w] \in Attempts
    BY <1>1 DEF WorkerTypes
  <2>4. /\ call \in [Clients -> Nat] /\ try \in [Clients -> 0 .. Retries]
        /\ results \in [Clients -> Seq({"200", "404", "reply", "none"})]
        /\ served \in [Attempts -> Nat]
    BY <1>1 DEF ClientTypes
  <2>5. /\ expired \subseteq Ids /\ faults \in 0 .. MaxFaults
        /\ asked \subseteq Attempts /\ answers \subseteq Attempts \X {"200", "404", "reply"}
    BY <1>1 DEF NetTypes
  <2> QED
    BY <2>1, <2>2, <2>3, <2>4, <2>5 DEF MajordomoTypeOK, Lists
<1>3. ListsAgree
  <2>1. /\ broker.waiting \in Seq(Ids) /\ Once(broker.waiting)
        /\ ToSet(broker.waiting) \subseteq broker.workers /\ broker.workers \subseteq Ids
    BY <1>1 DEF InStep, Lists
  <2>2. Cardinality(ToSet(broker.waiting)) = Len(broker.waiting)
    BY <2>1, OnceLength
  <2>3. ASSUME NEW s \in Services
        PROVE  /\ broker.idle[s] = Only(broker.waiting, {i \in Ids : Service(i) = s})
               /\ broker.count[s] = Cardinality({i \in broker.workers : Service(i) = s})
               /\ broker.requests[s] = <<>> \/ broker.idle[s] = <<>>
    <3>1. /\ broker.idle[s] = Only(broker.waiting, OfService(s))
          /\ broker.count[s] = Cardinality(broker.workers \cap OfService(s))
          /\ Paced(broker, s)
      BY <1>1 DEF InStep
    <3>2. broker.workers \cap OfService(s) = {i \in broker.workers : Service(i) = s}
      BY <2>1 DEF OfService
    <3> QED
      BY <3>1, <3>2 DEF OfService, Paced
  <2> QED
    BY <2>1, <2>2, <2>3 DEF ListsAgree
<1>4. WaitingHaveNoJob
  <2>1. ASSUME NEW i \in ToSet(broker.waiting)
        PROVE  /\ \A k \in DOMAIN down[i] : down[i][k].command # "REQUEST"
               /\ \A k \in DOMAIN up[i] : up[i][k].command # "REPLY"
               /\ session[i[1]] = i[2] => wstate[i[1]] # "busy"
    <3>1. i \in Ids
      BY <1>1 DEF InStep, Lists
    <3>2. Lacks(down[i], "REQUEST") /\ Lacks(up[i], "REPLY") /\ ~Serving(i)
      BY <1>1, <3>1 DEF SocketOK, Fits
    <3> QED
      BY <3>2 DEF Lacks, Serving
  <2> QED
    BY <2>1 DEF WaitingHaveNoJob
<1> QED
  BY <1>2, <1>3, <1>4 DEF ListsConsistent

\* Element p of the places of attempt a stands for L.
Stands(p, L, a) ==
  \/ p = L /\ (L = <<"asked">> \/ \E x : L = <<"answered", x>> \/ L = <<"job", x>>)
  \/ \E s \in Services : \E k \in DOMAIN broker.requests[s] :
       L = <<"queued", s>> /\ p = <<"queued", s, k>> /\ broker.requests[s][k] = a
  \/ \E i \in Ids : \E k \in DOMAIN up[i] :
       L = <<"up", i>> /\ p = <<"up", i, k>> /\ up[i][k] = REPLY(a)
  \/ \E i \in Ids : \E k \in DOMAIN down[i] :
       L = <<"down", i>> /\ p = <<"down", i, k>> /\ down[i][k] = REQUEST(a)

\* The elements of Places that stand for lists.
InQueues(a) ==
  UNION {{<<"queued", s, k>> : k \in {n \in DOMAIN broker.requests[s] :
                                        broker.requests[s][n] = a}} : s \in Services}
OnWayUp(a) ==
  UNION {{<<"up", i, k>> : k \in {n \in DOMAIN up[i] : up[i][n] = REPLY(a)}} : i \in Ids}
OnWayDown(a) ==
  UNION {{<<"down", i, k>> : k \in {n \in DOMAIN down[i] : down[i][n] = REQUEST(a)}}
          : i \in Ids}

\* Each element of Places(a) stands for a place where a is.
LEMMA PlaceStands ==
  ASSUME NetTypes, NEW a \in Attempts, NEW p \in Places(a)
  PROVE  \E L : Held(L, a) /\ Stands(p, L, a)
<1>1. CASE p \in {<<"asked">> : x \in asked \cap {a}}
  <2>1. p = <<"asked">> /\ a \in asked
    BY <1>1
  <2> QED
    BY <2>1, At DEF Stands
<1>2. CASE p \in {<<"answered", x[2]>> : x \in {r \in answers : r[1] = a}}
  <2>1. PICK x \in answers : x[1] = a /\ p = <<"answered", x[2]>>
    BY <1>2
  <2>2. PICK b \in Attempts, r \in {"200", "404", "reply"} : x = <<b, r>>
    BY <2>1 DEF NetTypes
  <2>5. b = a /\ r = x[2]
    BY <2>1, <2>2
  <2>6. <<a, r>> \in answers
    BY <2>2, <2>5
  <2>3. Held(<<"answered", r>>, a)
    BY <2>6, At
  <2>4. Stands(p, <<"answered", r>>, a)
    BY <2>1, <2>5 DEF Stands
  <2> QED
    BY <2>3, <2>4
<1>3. ASSUME NEW s \in Services, NEW k \in DOMAIN broker.requests[s],
             broker.requests[s][k] = a, p = <<"queued", s, k>>
      PROVE  \E L : Held(L, a) /\ Stands(p, L, a)
  <2>3. a \in ToSet(broker.requests[s])
    BY <1>3 DEF ToSet
  <2>1. Held(<<"queued", s>>, a)
    BY <2>3, At
  <2>2. Stands(p, <<"queued", s>>, a)
    BY <1>3 DEF Stands
  <2> QED
    BY <2>1, <2>2
<1>4. ASSUME NEW i \in Ids, NEW k \in DOMAIN up[i], up[i][k] = REPLY(a), p = <<"up", i, k>>
      PROVE  \E L : Held(L, a) /\ Stands(p, L, a)
  <2>3. REPLY(a) \in ToSet(up[i])
    <3> PICK m : m = REPLY(a)
      OBVIOUS
    <3> QED
      BY <1>4 DEF ToSet
  <2>1. Held(<<"up", i>>, a)
    BY <2>3, At
  <2>2. Stands(p, <<"up", i>>, a)
    BY <1>4 DEF Stands
  <2> QED
    BY <2>1, <2>2
<1>5. ASSUME NEW i \in Ids, NEW k \in DOMAIN down[i], down[i][k] = REQUEST(a),
             p = <<"down", i, k>>
      PROVE  \E L : Held(L, a) /\ Stands(p, L, a)
  <2>3. REQUEST(a) \in ToSet(down[i])
    <3> PICK m : m = REQUEST(a)
      OBVIOUS
    <3> QED
      BY <1>5 DEF ToSet
  <2>1. Held(<<"down", i>>, a)
    BY <2>3, At
  <2>2. Stands(p, <<"down", i>>, a)
    BY <1>5 DEF Stands
  <2> QED
    BY <2>1, <2>2
<1>6. ASSUME NEW w \in Workers, wstate[w] = "busy", job[w] = a, p = <<"job", w>>
      PROVE  \E L : Held(L, a) /\ Stands(p, L, a)
  <2>1. Held(<<"job", w>>, a)
    BY <1>6, At
  <2>2. Stands(p, <<"job", w>>, a)
    BY <1>6 DEF Stands
  <2> QED
    BY <2>1, <2>2
<1>7. \/ p \in {<<"asked">> : x \in asked \cap {a}}
      \/ p \in {<<"answered", x[2]>> : x \in {r \in answers : r[1] = a}}
      \/ \E s \in Services : \E k \in DOMAIN broker.requests[s] :
           broker.requests[s][k] = a /\ p = <<"queued", s, k>>
      \/ \E i \in Ids : \E k \in DOMAIN up[i] : up[i][k] = REPLY(a) /\ p = <<"up", i, k>>
      \/ \E i \in Ids : \E k \in DOMAIN down[i] :
           down[i][k] = REQUEST(a) /\ p = <<"down", i, k>>
      \/ \E w \in Workers : wstate[w] = "busy" /\ job[w] = a /\ p = <<"job", w>>
  <2> DEFINE A == {<<"asked">> : x \in asked \cap {a}}
             B == {<<"answered", x[2]>> : x \in {r \in answers : r[1] = a}}
             J == {<<"job", w>> : w \in {v \in Workers : wstate[v] = "busy" /\ job[v] = a}}
  <2>1. Places(a) = A \cup B \cup InQueues(a) \cup OnWayUp(a) \cup OnWayDown(a) \cup J
    BY DEF Places, InQueues, OnWayUp, OnWayDown
  <2>2. p \in InQueues(a) =>
          \E s \in Services : \E k \in DOMAIN broker.requests[s] :
            broker.requests[s][k] = a /\ p = <<"queued", s, k>>
    BY DEF InQueues
  <2>3. p \in OnWayUp(a) =>
          \E i \in Ids : \E k \in DOMAIN up[i] : up[i][k] = REPLY(a) /\ p = <<"up", i, k>>
    BY DEF OnWayUp
  <2>4. p \in OnWayDown(a) =>
          \E i \in Ids : \E k \in DOMAIN down[i] :
            down[i][k] = REQUEST(a) /\ p = <<"down", i, k>>
    BY DEF OnWayDown
  <2>5. p \in J => \E w \in Workers : wstate[w] = "busy" /\ job[w] = a /\ p = <<"job", w>>
    OBVIOUS
  <2>6. \/ p \in A \/ p \in B \/ p \in InQueues(a) \/ p \in OnWayUp(a)
        \/ p \in OnWayDown(a) \/ p \in J
    <3> HIDE DEF A, B, J
    <3> QED
      BY <2>1
  <2> QED
    BY <2>2, <2>3, <2>4, <2>5, <2>6
<1> QED
  BY <1>1, <1>2, <1>3, <1>4, <1>5, <1>6, <1>7, Zenon

\* One place has one element.
LEMMA StandsAlone ==
  ASSUME InStep(broker), \A i \in Ids : SocketOK(i), NEW a \in Attempts, NEW L, NEW p, NEW q,
         Stands(p, L, a), Stands(q, L, a)
  PROVE  p = q
<1>1. ASSUME NEW s \in Services, L = <<"queued", s>> PROVE p = q
  <2>1. PICK k \in DOMAIN broker.requests[s] :
          p = <<"queued", s, k>> /\ broker.requests[s][k] = a
    BY <1>1 DEF Stands
  <2>2. PICK l \in DOMAIN broker.requests[s] :
          q = <<"queued", s, l>> /\ broker.requests[s][l] = a
    BY <1>1 DEF Stands
  <2>3. k = l
    BY <2>1, <2>2, Shares DEF Once
  <2> QED
    BY <2>1, <2>2, <2>3
<1>2. ASSUME NEW i \in Ids, L = <<"up", i>> PROVE p = q
  <2>1. PICK k \in DOMAIN up[i] : p = <<"up", i, k>> /\ up[i][k] = REPLY(a)
    BY <1>2 DEF Stands
  <2>2. PICK l \in DOMAIN up[i] : q = <<"up", i, l>> /\ up[i][l] = REPLY(a)
    BY <1>2 DEF Stands
  <2>3. Sole(up[i], "REPLY")
    BY DEF SocketOK, Fits
  <2>4. k = l
    BY <2>1, <2>2, <2>3, Commands DEF Sole
  <2> QED
    BY <2>1, <2>2, <2>4
<1>3. ASSUME NEW i \in Ids, L = <<"down", i>> PROVE p = q
  <2>1. PICK k \in DOMAIN down[i] : p = <<"down", i, k>> /\ down[i][k] = REQUEST(a)
    BY <1>3 DEF Stands
  <2>2. PICK l \in DOMAIN down[i] : q = <<"down", i, l>> /\ down[i][l] = REQUEST(a)
    BY <1>3 DEF Stands
  <2>3. Sole(down[i], "REQUEST")
    BY DEF SocketOK, Fits
  <2>4. k = l
    BY <2>1, <2>2, <2>3, Commands DEF Sole
  <2> QED
    BY <2>1, <2>2, <2>4
<1>4. ASSUME L = <<"asked">> \/ \E x : L = <<"answered", x>> \/ L = <<"job", x>>
      PROVE  p = q
  BY <1>4 DEF Stands
<1> QED
  BY <1>1, <1>2, <1>3, <1>4 DEF Stands

\* The invariant says that an attempt is in one place.
LEMMA PlacesOK ==
  ASSUME MajordomoInv
  PROVE  EachAttemptInOnePlace
<1>1. NetTypes /\ InStep(broker) /\ (\A i \in Ids : SocketOK(i)) /\ OnePlace
  BY DEF MajordomoInv
<1>2. ASSUME NEW a \in Attempts PROVE Cardinality(Places(a)) <= 1
  <2>1. ASSUME NEW p \in Places(a), NEW q \in Places(a) PROVE p = q
    <3>1. PICK L : Held(L, a) /\ Stands(p, L, a)
      BY <1>1, PlaceStands
    <3>2. PICK M : Held(M, a) /\ Stands(q, M, a)
      BY <1>1, PlaceStands
    <3>3. L = M
      BY <1>1, <3>1, <3>2 DEF OnePlace
    <3> QED
      BY <1>1, <3>1, <3>2, <3>3, StandsAlone
  <2>2. CASE Places(a) = {}
    BY <2>2, FS_EmptySet
  <2>3. CASE Places(a) # {}
    <3>1. PICK p : p \in Places(a)
      BY <2>3
    <3>2. Places(a) = {p}
      BY <2>1, <3>1
    <3> QED
      BY <3>2, FS_Singleton
  <2> QED
    BY <2>2, <2>3
<1> QED
  BY <1>2 DEF EachAttemptInOnePlace

\* The lists of the broker agree with one another, with the counts and with what the workers
\* are doing, through every handler of mdbroker.c, restarts and purges, for any numbers of
\* workers, services, clients, calls, sessions and faults.
THEOREM MajordomoListsConsistent == MajordomoSpec => []ListsConsistent
<1>1. MajordomoInit => MajordomoInv
  BY Starting
<1>2. MajordomoInv /\ [MajordomoNext]_majordomoVars => MajordomoInv'
  BY MajordomoStep
<1>3. MajordomoInv => ListsConsistent
  BY ListsOK
<1> QED
  BY <1>1, <1>2, <1>3, PTL DEF MajordomoSpec

\* An attempt is at one place only, from mdcli_send until its reply is returned or lost: it is
\* never queued twice, handed to two workers, or both queued and answered.
THEOREM AttemptInOnePlace == MajordomoSpec => []EachAttemptInOnePlace
<1>1. MajordomoInit => MajordomoInv
  BY Starting
<1>2. MajordomoInv /\ [MajordomoNext]_majordomoVars => MajordomoInv'
  BY MajordomoStep
<1>3. MajordomoInv => EachAttemptInOnePlace
  BY PlacesOK
<1> QED
  BY <1>1, <1>2, <1>3, PTL DEF MajordomoSpec

\* The pattern implements RequestReply, but for its fairness: what mdcli_send returns answers
\* the call it was made for, and no attempt is served twice (see ImplementsRequestReply).
THEOREM MajordomoImplementsRequestReply == MajordomoSpec => RR!Spec
<1>1. MajordomoInit => MajordomoInv /\ RR!Init
  BY Starting
<1>2. MajordomoInv /\ [MajordomoNext]_majordomoVars => MajordomoInv' /\ [RR!Next]_(RR!vars)
  BY MajordomoStep
<1> QED
  BY <1>1, <1>2, PTL DEF MajordomoSpec, RR!Spec
=============================================================================
