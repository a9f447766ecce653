----------------------------- MODULE ProxyProofs -----------------------------
(* Proofs about the proxy, for every number of reader threads, dispatchers  *)
(* and mutations, and every bound of a queue.                               *)
EXTENDS Proxy, Functions, FunctionTheorems, FiniteSetTheorems, SequenceTheorems, TLAPS

\* Every mark was queued for an event that was dropped.
MarksInv ==
  /\ covered \in [Mutations -> 0 .. marks]
  /\ \A n \in 1 .. marks : \E m \in Mutations : covered[m] = n

\* The place past the bound is that of a mark.
RoomInv == Len(queue) > MaxQueued => QueuedMarks # {}

\* A reader begins with an empty buffer.
EmptyInv == \A r \in Readers : rpc[r] = "read" => buff[r] = <<>>

TypeInv == TypeOK /\ MarksInv /\ RoomInv /\ EmptyInv

LEMMA ItemsFinite == IsFiniteSet(Items) /\ IsFiniteSet(Marks)
<1>1. Cardinality(Mutations) \in Nat
  BY ProxyAssumption, FS_CardinalityType
<1>2. IsFiniteSet(Marks)
  BY <1>1, FS_Interval DEF Marks
<1> QED
  BY <1>2, ProxyAssumption, FS_Union DEF Items

\* There is a number left for the mark of an event that was not dropped before.
LEMMA MarkFits ==
  ASSUME TypeInv, NEW m \in Mutations, covered[m] = 0
  PROVE  marks + 1 \in Marks
<1> DEFINE C == {x \in Mutations : covered[x] # 0}
           f == [x \in C |-> covered[x]]
<1>1. IsFiniteSet(C) /\ Cardinality(C) \in Nat
  BY ProxyAssumption, FS_Subset, FS_CardinalityType
<1>2. f \in [C -> 1 .. marks]
  BY DEF TypeInv, TypeOK, MarksInv
<1>3. ASSUME NEW n \in 1 .. marks PROVE \E x \in C : f[x] = n
  <2>1. PICK x \in Mutations : covered[x] = n
    BY DEF TypeInv, MarksInv
  <2>2. x \in C
    BY <2>1
  <2> QED
    BY <2>1, <2>2
<1>4. Cardinality(1 .. marks) <= Cardinality(C)
  <2>1. f \in Surjection(C, 1 .. marks)
    BY <1>2, <1>3, Fun_IsSurj
  <2> HIDE DEF C, f
  <2> QED
    BY <2>1, <1>1, FS_Surjection
<1>5. marks <= Cardinality(C)
  <2>1. marks \in Int /\ marks >= 0
    BY DEF TypeInv, TypeOK
  <2>2. Cardinality(1 .. marks) = marks
    BY <2>1, FS_Interval
  <2> QED
    BY <1>4, <2>2
<1>6. Cardinality(C \cup {m}) = Cardinality(C) + 1 /\ IsFiniteSet(C \cup {m})
  BY <1>1, FS_AddElement
<1>7. Cardinality(C \cup {m}) <= Cardinality(Mutations)
  BY ProxyAssumption, FS_Subset
<1>8. Cardinality(Mutations) \in Nat
  BY ProxyAssumption, FS_CardinalityType
<1> HIDE DEF C
<1> QED
  BY <1>1, <1>5, <1>6, <1>7, <1>8 DEF TypeInv, TypeOK, Marks

LEMMA NowIsNatural == ASSUME TypeInv PROVE Now \in Nat
<1>1. IsFiniteSet({x \in Items : stamp[x] # 0})
  BY ItemsFinite, FS_Subset
<1> QED
  BY <1>1, FS_CardinalityType DEF Now

LEMMA InitTypeInv == Init => TypeInv
<1> SUFFICES ASSUME Init PROVE TypeInv
  OBVIOUS
<1>1. TypeOK
  BY ProxyAssumption DEF Init, TypeOK, Blocks
<1>2. MarksInv
  BY DEF Init, MarksInv
<1>3. RoomInv /\ EmptyInv
  BY ProxyAssumption DEF Init, RoomInv, EmptyInv
<1> QED
  BY <1>1, <1>2, <1>3 DEF TypeInv

\* The kernel's actions.
LEMMA KernelTypeInv == TypeInv /\ Kernel => TypeInv'
<1> SUFFICES ASSUME TypeInv, NEW m \in Mutations,
                    QueueEvent(m) \/ DropAndMark(m) \/ DropMarked(m)
             PROVE  TypeInv'
  BY DEF Kernel
<1> USE DEF TypeInv
<1>e. EmptyInv'
  BY DEF EmptyInv, QueueEvent, DropAndMark, DropMarked, readerVars
<1>1. Now \in Nat
  BY NowIsNatural
<1>2. m \in Items
  BY DEF Items
<1>3. CASE QueueEvent(m)
  <2> USE <1>3 DEF QueueEvent, readerVars, pipeVars
  <2>1. queue' \in Blocks /\ Len(queue') = Len(queue) + 1
    BY <1>2 DEF TypeOK, Blocks
  <2>2. TypeOK'
    BY <1>1, <1>2, <2>1, ProxyAssumption DEF TypeOK
  <2>3. MarksInv'
    BY DEF MarksInv
  <2>4. RoomInv'
    BY <2>1, ProxyAssumption DEF RoomInv, TypeOK, Blocks
  <2> QED
    BY <1>e, <2>2, <2>3, <2>4
<1>4. CASE DropAndMark(m)
  <2> USE <1>4 DEF DropAndMark, readerVars, pipeVars
  <2>1. covered[m] = 0
    BY DEF Happened, TypeOK
  <2>2. marks + 1 \in Marks /\ marks + 1 \in Items
    BY <2>1, MarkFits DEF Items
  <2>3. /\ queue' \in Blocks /\ Len(queue') = Len(queue) + 1
        /\ queue'[Len(queue')] = marks + 1
    BY <2>2 DEF TypeOK, Blocks
  <2>4. Len(queue) <= MaxQueued
    BY ProxyAssumption DEF RoomInv, TypeOK, Blocks
  <2>5. TypeOK'
    BY <1>1, <2>2, <2>3, <2>4, ProxyAssumption DEF TypeOK, Blocks
  <2>6. MarksInv'
    <3>1. covered' \in [Mutations -> 0 .. marks']
      BY DEF MarksInv, TypeOK
    <3>2. \A n \in 1 .. marks' : \E x \in Mutations : covered'[x] = n
      BY <2>1 DEF MarksInv, TypeOK
    <3> QED
      BY <3>1, <3>2 DEF MarksInv
  <2>7. marks + 1 \in QueuedMarks'
    BY <2>2, <2>3 DEF QueuedMarks, TypeOK, Blocks, Marks
  <2>8. RoomInv'
    BY <2>7 DEF RoomInv
  <2> QED
    BY <1>e, <2>5, <2>6, <2>8
<1>5. CASE DropMarked(m)
  <2> USE <1>5 DEF DropMarked, readerVars, pipeVars
  <2>1. TypeOK'
    BY DEF TypeOK
  <2>2. covered[m] = 0
    BY DEF Happened, TypeOK
  <2>3. MarksInv'
    <3>1. covered' \in [Mutations -> 0 .. marks']
      BY DEF MarksInv, TypeOK
    <3>2. ASSUME NEW n \in 1 .. marks' PROVE \E x \in Mutations : covered'[x] = n
      <4>1. PICK x \in Mutations : covered[x] = n
        BY DEF MarksInv
      <4>2. n # 0 /\ x # m
        BY <4>1, <2>2 DEF TypeOK
      <4> QED
        BY <4>1, <4>2 DEF TypeOK
    <3> QED
      BY <3>1, <3>2 DEF MarksInv
  <2>4. RoomInv'
    BY DEF RoomInv, QueuedMarks
  <2> QED
    BY <1>e, <2>1, <2>3, <2>4
<1> QED
  BY <1>3, <1>4, <1>5

\* Taking an item makes room.
LEMMA TakeTypes ==
  ASSUME TypeInv, NEW r \in Readers, Take(r), Len(buff[r]) < BatchSize
  PROVE  /\ queue' \in Blocks /\ Len(queue') = Len(queue) - 1
         /\ Len(queue') <= MaxQueued
         /\ buff' \in [Readers -> Blocks]
         /\ \A q \in Readers : Len(buff'[q]) <= BatchSize
<1> USE DEF TypeInv, TypeOK, Take, Blocks
<1>1. Head(queue) \in Items /\ Tail(queue) \in Blocks /\ Len(Tail(queue)) = Len(queue) - 1
  OBVIOUS
<1>2. Append(buff[r], Head(queue)) \in Blocks
      /\ Len(Append(buff[r], Head(queue))) = Len(buff[r]) + 1
  BY <1>1
<1>3. buff' \in [Readers -> Blocks]
  BY <1>2
<1>4. \A q \in Readers : Len(buff'[q]) <= BatchSize
  BY <1>2, ProxyAssumption
<1> QED
  BY <1>1, <1>3, <1>4, ProxyAssumption

\* The reader threads.
LEMMA ReaderTypeInv ==
  ASSUME TypeInv, NEW r \in Readers, Reader(r)
  PROVE  TypeInv'
<1> USE DEF TypeInv, pipeVars, kernelVars
<1>m. MarksInv'
  BY DEF MarksInv, Reader, ReadFirst, ReadMore, ReadReturns, SendBlock
<1>1. CASE ReadFirst(r) \/ ReadMore(r)
  <2>1. Take(r) /\ Len(buff[r]) < BatchSize
    BY <1>1, ProxyAssumption DEF ReadFirst, ReadMore, EmptyInv, TypeOK
  <2>2. UNCHANGED <<marks, covered, stamp, work, flushing, connected, outbox,
                    received, lost>>
    BY <1>1 DEF ReadFirst, ReadMore
  <2>3. rpc' \in [Readers -> {"read", "copy", "send"}]
    BY <1>1 DEF ReadFirst, ReadMore, TypeOK
  <2>4. TypeOK'
    BY SMTT(40), <2>1, <2>2, <2>3, TakeTypes, ProxyAssumption DEF TypeOK
  <2>5. RoomInv'
    BY <2>1, TakeTypes, ProxyAssumption DEF RoomInv, TypeOK, Blocks
  <2>6. EmptyInv'
    BY <1>1 DEF EmptyInv, ReadFirst, ReadMore, Take, TypeOK
  <2> QED
    BY <1>m, <2>4, <2>5, <2>6
<1>2. CASE ReadReturns(r)
  <2> USE <1>2 DEF ReadReturns
  <2>1. TypeOK'
    BY DEF TypeOK
  <2>2. RoomInv' /\ EmptyInv'
    BY DEF RoomInv, QueuedMarks, EmptyInv, TypeOK
  <2> QED
    BY <1>m, <2>1, <2>2
<1>3. CASE SendBlock(r)
  <2> USE <1>3 DEF SendBlock
  <2>1. Append(work[r], buff[r]) \in Seq(Blocks)
        /\ Len(Append(work[r], buff[r])) = Len(work[r]) + 1
    BY DEF TypeOK
  <2>2. /\ work' \in [Readers -> Seq(Blocks)]
        /\ \A q \in Readers : Len(work'[q]) <= WorkSize
    BY <2>1, ProxyAssumption DEF TypeOK
  <2>3. /\ buff' \in [Readers -> Blocks]
        /\ \A q \in Readers : Len(buff'[q]) <= BatchSize
    BY ProxyAssumption DEF TypeOK, Blocks
  <2>4. rpc' \in [Readers -> {"read", "copy", "send"}]
    BY DEF TypeOK
  <2>5. TypeOK'
    BY <2>2, <2>3, <2>4 DEF TypeOK
  <2>6. RoomInv' /\ EmptyInv'
    BY DEF RoomInv, QueuedMarks, EmptyInv, TypeOK
  <2> QED
    BY <1>m, <2>5, <2>6
<1> QED
  BY <1>1, <1>2, <1>3 DEF Reader

\* The main thread.
LEMMA MainTypeInv == TypeInv /\ Main => TypeInv'
<1> SUFFICES ASSUME TypeInv, Main PROVE TypeInv'
  OBVIOUS
<1> USE DEF TypeInv, kernelVars, readerVars, pipeVars
<1>m. MarksInv' /\ RoomInv' /\ EmptyInv'
  BY DEF MarksInv, RoomInv, EmptyInv, QueuedMarks, Main, FlusherRecv, Flush
<1>1. ASSUME NEW r \in Readers, FlusherRecv(r) PROVE TypeOK'
  <2>1. /\ Head(work[r]) \in Blocks
        /\ Tail(work[r]) \in Seq(Blocks)
        /\ Len(Tail(work[r])) = Len(work[r]) - 1
    BY <1>1 DEF FlusherRecv, TypeOK
  <2>2. /\ work' \in [Readers -> Seq(Blocks)]
        /\ \A q \in Readers : Len(work'[q]) <= WorkSize
    BY <1>1, <2>1, ProxyAssumption DEF FlusherRecv, TypeOK
  <2> QED
    BY <1>1, <2>1, <2>2 DEF FlusherRecv, TypeOK
<1>2. ASSUME NEW d \in Dispatchers, Flush(d) PROVE TypeOK'
  <2>1. /\ Append(outbox[d], flushing) \in Seq(Blocks)
        /\ Len(Append(outbox[d], flushing)) = Len(outbox[d]) + 1
    BY DEF TypeOK
  <2>2. /\ outbox' \in [Dispatchers -> Seq(Blocks)]
        /\ \A q \in Dispatchers :
             Len(outbox'[q]) <= IF q \in connected' THEN OutboxSize ELSE 0
    BY <1>2, <2>1, ProxyAssumption DEF Flush, TypeOK
  <2>3. flushing' \in Blocks
    BY <1>2 DEF Flush, Blocks
  <2> QED
    BY <1>2, <2>2, <2>3 DEF Flush, TypeOK
<1> QED
  BY <1>m, <1>1, <1>2 DEF Main

\* The dispatchers.
LEMMA DispatcherTypeInv ==
  ASSUME TypeInv, NEW d \in Dispatchers, Dispatcher(d)
  PROVE  TypeInv'
<1> USE DEF TypeInv, kernelVars, readerVars
<1>m. MarksInv' /\ RoomInv' /\ EmptyInv'
  BY DEF MarksInv, RoomInv, EmptyInv, QueuedMarks, Dispatcher, DispatcherConnects,
         DispatcherDies, DispatcherRecv
<1>1. CASE DispatcherConnects(d)
  BY <1>m, <1>1, ProxyAssumption DEF DispatcherConnects, TypeOK
<1>2. CASE DispatcherDies(d)
  <2>1. lost' \in SUBSET Blocks
    BY <1>2 DEF DispatcherDies, TypeOK
  <2>2. /\ outbox' \in [Dispatchers -> Seq(Blocks)]
        /\ \A q \in Dispatchers :
             Len(outbox'[q]) <= IF q \in connected' THEN OutboxSize ELSE 0
    BY <1>2, ProxyAssumption DEF DispatcherDies, TypeOK
  <2> QED
    BY <1>m, <1>2, <2>1, <2>2 DEF DispatcherDies, TypeOK
<1>3. CASE DispatcherRecv(d)
  <2>1. /\ Head(outbox[d]) \in Blocks
        /\ Tail(outbox[d]) \in Seq(Blocks)
        /\ Len(Tail(outbox[d])) = Len(outbox[d]) - 1
    BY <1>3 DEF DispatcherRecv, TypeOK
  <2>2. /\ outbox' \in [Dispatchers -> Seq(Blocks)]
        /\ \A q \in Dispatchers :
             Len(outbox'[q]) <= IF q \in connected' THEN OutboxSize ELSE 0
    BY <1>3, <2>1, ProxyAssumption DEF DispatcherRecv, TypeOK
  <2>3. received' \in [Dispatchers -> Seq(Blocks)]
    BY <1>3, <2>1 DEF DispatcherRecv, TypeOK
  <2> QED
    BY <1>m, <1>3, <2>2, <2>3 DEF DispatcherRecv, TypeOK
<1> QED
  BY <1>1, <1>2, <1>3 DEF Dispatcher

LEMMA NextTypeInv == TypeInv /\ [Next]_vars => TypeInv'
<1> SUFFICES ASSUME TypeInv, [Next]_vars PROVE TypeInv'
  OBVIOUS
<1>1. CASE UNCHANGED vars
  BY <1>1 DEF vars, kernelVars, readerVars, pipeVars, TypeInv, TypeOK, MarksInv,
              RoomInv, EmptyInv, QueuedMarks
<1> QED
  BY <1>1, KernelTypeInv, ReaderTypeInv, MainTypeInv, DispatcherTypeInv DEF Next

\* Every variable of the proxy stays in its type and every pipe within its
\* high-water mark, also when the kernel drops events; the marks it queues never
\* outnumber what happened to the files (proxy.c:66-94).
THEOREM TypeCorrect == Spec => []TypeOK
<1>1. TypeInv => TypeOK
  BY DEF TypeInv
<1> QED
  BY <1>1, InitTypeInv, NextTypeInv, PTL DEF Spec

-----------------------------------------------------------------------------
(* The order of the items                                                  *)

Increasing(b) ==
  \A i, j \in 1 .. Len(b) :
    stamp[b[i]] # 0 /\ (i < j => stamp[b[i]] < stamp[b[j]])

\* The queue and all blocks are in order, and what a reader has taken is older
\* than what it may still take; the next stamp is larger than all others.
OrderInv ==
  /\ \A b \in AllBlocks \cup {queue} : Increasing(b)
  /\ \A r \in Readers : \A i \in 1 .. Len(buff[r]), j \in 1 .. Len(queue) :
       stamp[buff[r][i]] < stamp[queue[j]]
  /\ \A x \in Items : stamp[x] < Now
  /\ \A n \in Marks : n > marks => stamp[n] = 0

\* What it means to be one of the blocks of a family of pipes...
LEMMA InPipes ==
  ASSUME NEW S, NEW f, NEW b
  PROVE  b \in UNION {{f[x][k] : k \in 1 .. Len(f[x])} : x \in S}
           <=> \E x \in S : \E k \in 1 .. Len(f[x]) : b = f[x][k]
<1>1. ASSUME NEW x \in S, NEW k \in 1 .. Len(f[x]), b = f[x][k]
      PROVE  b \in UNION {{f[y][j] : j \in 1 .. Len(f[y])} : y \in S}
  <2>1. b \in {f[x][j] : j \in 1 .. Len(f[x])}
    BY <1>1
  <2> QED
    BY <2>1
<1>2. ASSUME b \in UNION {{f[y][j] : j \in 1 .. Len(f[y])} : y \in S}
      PROVE  \E x \in S : \E k \in 1 .. Len(f[x]) : b = f[x][k]
  <2>1. PICK x \in S : b \in {f[x][j] : j \in 1 .. Len(f[x])}
    BY <1>2
  <2> QED
    BY <2>1
<1> QED
  BY <1>1, <1>2

Somewhere(b) ==
  \/ \E r \in Readers : b = buff[r]
  \/ b = flushing
  \/ b \in lost
  \/ \E r \in Readers : \E k \in 1 .. Len(work[r]) : b = work[r][k]
  \/ \E d \in Dispatchers : \E k \in 1 .. Len(outbox[d]) : b = outbox[d][k]
  \/ \E d \in Dispatchers : \E k \in 1 .. Len(received[d]) : b = received[d][k]

\* ...and one of the blocks of the proxy, in a state and in the next.
LEMMA BlockCases ==
  ASSUME NEW b
  PROVE  (b \in AllBlocks <=> Somewhere(b)) /\ (b \in AllBlocks' <=> Somewhere(b)')
<1>1. b \in AllBlocks <=> Somewhere(b)
  <2> DEFINE W == UNION {{work[r][k] : k \in 1 .. Len(work[r])} : r \in Readers}
             O == UNION {{outbox[d][k] : k \in 1 .. Len(outbox[d])} : d \in Dispatchers}
             R == UNION {{received[d][k] : k \in 1 .. Len(received[d])} : d \in Dispatchers}
  <2>1. b \in W <=> \E r \in Readers : \E k \in 1 .. Len(work[r]) : b = work[r][k]
    BY InPipes
  <2>2. b \in O <=> \E d \in Dispatchers : \E k \in 1 .. Len(outbox[d]) : b = outbox[d][k]
    BY InPipes
  <2>3. b \in R <=>
          \E d \in Dispatchers : \E k \in 1 .. Len(received[d]) : b = received[d][k]
    BY InPipes
  <2>4. AllBlocks = {buff[r] : r \in Readers} \cup {flushing} \cup lost
                        \cup W \cup O \cup R
    BY DEF AllBlocks
  <2> HIDE DEF W, O, R
  <2> QED
    BY <2>1, <2>2, <2>3, <2>4 DEF Somewhere
<1>2. b \in AllBlocks' <=> Somewhere(b)'
  <2> DEFINE W == UNION {{work'[r][k] : k \in 1 .. Len(work'[r])} : r \in Readers}
             O == UNION {{outbox'[d][k] : k \in 1 .. Len(outbox'[d])} : d \in Dispatchers}
             R == UNION {{received'[d][k] : k \in 1 .. Len(received'[d])} : d \in Dispatchers}
  <2>1. b \in W <=> \E r \in Readers : \E k \in 1 .. Len(work'[r]) : b = work'[r][k]
    BY InPipes
  <2>2. b \in O <=> \E d \in Dispatchers : \E k \in 1 .. Len(outbox'[d]) : b = outbox'[d][k]
    BY InPipes
  <2>3. b \in R <=>
          \E d \in Dispatchers : \E k \in 1 .. Len(received'[d]) : b = received'[d][k]
    BY InPipes
  <2>4. AllBlocks' = {buff'[r] : r \in Readers} \cup {flushing'} \cup lost'
                        \cup W \cup O \cup R
    BY DEF AllBlocks
  <2> HIDE DEF W, O, R
  <2> QED
    BY <2>1, <2>2, <2>3, <2>4 DEF Somewhere
<1> QED
  BY <1>1, <1>2

LEMMA BlocksTyped == TypeInv => AllBlocks \subseteq Blocks
<1> SUFFICES ASSUME TypeInv, NEW b, Somewhere(b) PROVE b \in Blocks
  BY BlockCases
<1> QED
  BY DEF TypeInv, TypeOK, Somewhere

\* Stamping an item leaves room for the next stamp.
LEMMA StampGrows ==
  ASSUME TypeInv, OrderInv, NEW x \in Items, stamp[x] = 0,
         stamp' = [stamp EXCEPT ![x] = Now]
  PROVE  Now' = Now + 1 /\ \A y \in Items : stamp'[y] < Now'
<1> DEFINE S == {y \in Items : stamp[y] # 0}
<1>1. IsFiniteSet(S) /\ x \notin S
  BY ItemsFinite, FS_Subset
<1>2. Cardinality(S) \in Nat /\ Cardinality(S \cup {x}) = Cardinality(S) + 1
  BY <1>1, FS_AddElement, FS_CardinalityType
<1>3. Now # 0 /\ Now \in Nat
  BY <1>2 DEF Now
<1>4. {y \in Items : stamp'[y] # 0} = S \cup {x}
  BY <1>3 DEF TypeInv, TypeOK
<1>5. Now' = Now + 1
  <2>1. Now' = 1 + Cardinality({y \in Items : stamp'[y] # 0})
    BY DEF Now
  <2>2. Now' = 1 + Cardinality(S \cup {x})
    BY <1>4, <2>1
  <2> QED
    BY <1>2, <2>2 DEF Now
<1> HIDE DEF S
<1> QED
  BY <1>3, <1>5 DEF TypeInv, TypeOK, OrderInv

\* Stamping an item that is in no block leaves their order as it is.
LEMMA StampKeeps ==
  ASSUME TypeInv, NEW x \in Items, stamp[x] = 0,
         stamp' = [stamp EXCEPT ![x] = Now],
         NEW b \in Blocks, Increasing(b)
  PROVE  /\ Increasing(b)'
         /\ \A i \in 1 .. Len(b) : stamp'[b[i]] = stamp[b[i]]
<1>1. \A i \in 1 .. Len(b) : b[i] \in Items
  BY DEF Blocks
<1>2. \A i \in 1 .. Len(b) : stamp'[b[i]] = stamp[b[i]]
  BY <1>1 DEF Increasing, TypeInv, TypeOK
<1> QED
  BY <1>2 DEF Increasing

LEMMA AppendIncreasing ==
  ASSUME NEW b \in Blocks, NEW x \in Items, Increasing(b), stamp[x] # 0,
         \A i \in 1 .. Len(b) : stamp[b[i]] < stamp[x]
  PROVE  Increasing(Append(b, x))
<1>1. Len(Append(b, x)) = Len(b) + 1 /\ Len(b) \in Nat
  BY DEF Blocks
<1>2. \A i \in 1 .. Len(b) + 1 :
        Append(b, x)[i] = IF i = Len(b) + 1 THEN x ELSE b[i]
  BY DEF Blocks
<1> QED
  BY <1>1, <1>2 DEF Increasing

\* A new item is the youngest of the queue.
LEMMA StampInv ==
  ASSUME TypeInv, OrderInv, NEW x \in Items, stamp[x] = 0,
         stamp' = [stamp EXCEPT ![x] = Now],
         queue' = Append(queue, x),
         UNCHANGED <<readerVars, work, flushing, pipeVars>>,
         \A n \in Marks : n > marks' => n > marks /\ n # x
  PROVE  OrderInv'
<1>1. Now \in Nat /\ Now # 0
  BY NowIsNatural, ItemsFinite, FS_Subset, FS_CardinalityType DEF Now
<1>2. AllBlocks' = AllBlocks
  BY DEF AllBlocks, readerVars, pipeVars
<1>3. \A b \in AllBlocks' : Increasing(b)'
  BY <1>2, BlocksTyped, StampKeeps DEF OrderInv
<1>4. queue \in Blocks /\ Increasing(queue)
  BY DEF TypeInv, TypeOK, OrderInv
<1>5. /\ Len(queue') = Len(queue) + 1 /\ Len(queue) \in Nat
      /\ \A j \in 1 .. Len(queue) + 1 :
           queue'[j] = IF j = Len(queue) + 1 THEN x ELSE queue[j]
  BY <1>4 DEF Blocks
<1>6. /\ \A j \in 1 .. Len(queue) : stamp'[queue[j]] = stamp[queue[j]]
      /\ \A j \in 1 .. Len(queue) : queue[j] \in Items
  <2>1. \A j \in 1 .. Len(queue) : stamp'[queue[j]] = stamp[queue[j]]
    BY <1>4, StampKeeps
  <2> QED
    BY <1>4, <2>1 DEF Blocks
<1>7. stamp'[x] = Now
  BY DEF TypeInv, TypeOK
<1>8. Increasing(queue)'
  <2>1. \A j \in 1 .. Len(queue) : stamp[queue[j]] < Now /\ stamp[queue[j]] # 0
    BY <1>4, <1>6 DEF OrderInv, Increasing
  <2> QED
    BY <1>1, <1>4, <1>5, <1>6, <1>7, <2>1 DEF Increasing
<1>9. ASSUME NEW r \in Readers, NEW i \in 1 .. Len(buff'[r]), NEW j \in 1 .. Len(queue')
      PROVE  stamp'[buff'[r][i]] < stamp'[queue'[j]]
  <2>1. buff' = buff /\ buff[r] \in AllBlocks /\ buff[r] \in Blocks
    BY BlockCases DEF readerVars, Somewhere, TypeInv, TypeOK
  <2>2. stamp'[buff[r][i]] = stamp[buff[r][i]] /\ buff[r][i] \in Items
    <3>1. Increasing(buff[r]) /\ i \in 1 .. Len(buff[r])
      BY <2>1 DEF OrderInv
    <3>2. stamp'[buff[r][i]] = stamp[buff[r][i]]
      BY <2>1, <3>1, StampKeeps
    <3> QED
      BY <2>1, <3>1, <3>2 DEF Blocks
  <2>3. CASE j = Len(queue) + 1
    BY <1>5, <1>7, <2>1, <2>2, <2>3 DEF OrderInv
  <2>4. CASE j # Len(queue) + 1
    BY <1>5, <1>6, <2>1, <2>2, <2>4 DEF OrderInv
  <2> QED
    BY <2>3, <2>4
<1>10. \A n \in Marks : n > marks' => stamp'[n] = 0
  BY DEF OrderInv, TypeInv, TypeOK, Items
<1> QED
  BY <1>3, <1>8, <1>9, <1>10, StampGrows DEF OrderInv

LEMMA KernelOrder == TypeInv /\ OrderInv /\ Kernel => OrderInv'
<1> SUFFICES ASSUME TypeInv, OrderInv, NEW m \in Mutations,
                    QueueEvent(m) \/ DropAndMark(m) \/ DropMarked(m)
             PROVE  OrderInv'
  BY DEF Kernel
<1>1. CASE QueueEvent(m)
  <2>1. m \in Items /\ stamp[m] = 0
    BY <1>1 DEF QueueEvent, Happened, Items
  <2>2. \A n \in Marks : n > marks' => n > marks /\ n # m
    BY <1>1, ProxyAssumption, FS_CardinalityType DEF QueueEvent, Marks
  <2> QED
    BY <1>1, <2>1, <2>2, StampInv DEF QueueEvent
<1>2. CASE DropAndMark(m)
  <2>1. covered[m] = 0
    BY <1>2 DEF DropAndMark, Happened, TypeInv, TypeOK
  <2>2. marks + 1 \in Items /\ marks + 1 \in Marks
    BY <2>1, MarkFits DEF Items
  <2>3. stamp[marks + 1] = 0
    BY <2>2 DEF OrderInv, TypeInv, TypeOK
  <2>4. \A n \in Marks : n > marks' => n > marks /\ n # marks + 1
    BY <1>2, ProxyAssumption, FS_CardinalityType DEF DropAndMark, Marks, TypeInv, TypeOK
  <2> QED
    BY <1>2, <2>2, <2>3, <2>4, StampInv DEF DropAndMark
<1>3. CASE DropMarked(m)
  <2>1. UNCHANGED <<queue, marks, stamp, buff, work, flushing, outbox, received, lost>>
    BY <1>3 DEF DropMarked, readerVars, pipeVars
  <2>2. AllBlocks' = AllBlocks /\ Now' = Now
    BY <2>1 DEF AllBlocks, Now
  <2>3. \A b : Increasing(b)' <=> Increasing(b)
    BY <2>1 DEF Increasing
  <2> QED
    BY <2>1, <2>2, <2>3 DEF OrderInv
<1> QED
  BY <1>1, <1>2, <1>3

\* A step that takes nothing from the queue only has to add no block out of order.
LEMMA MoveInv ==
  ASSUME OrderInv, UNCHANGED kernelVars,
         AllBlocks' \subseteq AllBlocks \cup {<<>>},
         \A r \in Readers : buff'[r] \in {buff[r], <<>>}
  PROVE  OrderInv'
<1> USE DEF kernelVars
<1>1. \A b \in AllBlocks' \cup {queue'} : Increasing(b)'
  BY DEF OrderInv, Increasing
<1>2. \A x \in Items : stamp'[x] < Now'
  BY DEF OrderInv, Now
<1> QED
  BY <1>1, <1>2 DEF OrderInv

\* The oldest item of the queue is younger than those the reader has.
LEMMA TakeInv ==
  ASSUME TypeInv, OrderInv, NEW r \in Readers, Take(r),
         UNCHANGED <<marks, covered, stamp, work, flushing, pipeVars>>
  PROVE  OrderInv'
<1> DEFINE x == Head(queue)
           b == Append(buff[r], x)
<1>1. /\ queue \in Blocks /\ queue # <<>> /\ x = queue[1] /\ x \in Items
      /\ 1 \in 1 .. Len(queue) /\ Len(queue) \in Nat
      /\ Len(Tail(queue)) = Len(queue) - 1
      /\ \A j \in 1 .. Len(queue) - 1 : Tail(queue)[j] = queue[j + 1]
  BY DEF Take, TypeInv, TypeOK, Blocks
<1>2. buff' = [buff EXCEPT ![r] = b] /\ queue' = Tail(queue) /\ buff[r] \in Blocks
  BY DEF Take, TypeInv, TypeOK
<1>3. Increasing(queue) /\ Increasing(buff[r]) /\ stamp[x] # 0
  <2>1. buff[r] \in AllBlocks
    BY BlockCases DEF Somewhere
  <2>2. Increasing(queue) /\ Increasing(buff[r])
    BY <2>1 DEF OrderInv
  <2> QED
    BY <1>1, <2>2 DEF Increasing
<1>4. \A i \in 1 .. Len(buff[r]) : stamp[buff[r][i]] < stamp[x]
  BY <1>1 DEF OrderInv
<1>5. Increasing(b)
  BY <1>1, <1>2, <1>3, <1>4, AppendIncreasing
<1>6. Increasing(Tail(queue))
  BY <1>1, <1>3 DEF Increasing
<1>7. AllBlocks' \subseteq AllBlocks \cup {b}
  <2>1. \A q \in Readers : buff'[q] \in {buff[q], b}
    BY <1>2 DEF TypeInv, TypeOK
  <2> HIDE DEF b
  <2> QED
    BY <2>1, BlockCases DEF Somewhere, pipeVars
<1>8. \A c \in AllBlocks' \cup {queue'} : Increasing(c)'
  BY <1>2, <1>5, <1>6, <1>7 DEF OrderInv, Increasing
<1>9. ASSUME NEW q \in Readers, NEW i \in 1 .. Len(buff'[q]), NEW j \in 1 .. Len(queue')
      PROVE  stamp[buff'[q][i]] < stamp[queue'[j]]
  <2>1. j + 1 \in 1 .. Len(queue) /\ queue'[j] = queue[j + 1]
    BY <1>1, <1>2
  <2>2. CASE q = r
    <3>1. buff'[q] = b /\ Len(b) = Len(buff[r]) + 1 /\ Len(buff[r]) \in Nat
      BY <1>1, <1>2, <2>2 DEF TypeInv, TypeOK, Blocks
    <3>2. CASE i = Len(b)
      <4>1. b[i] = x
        BY <1>1, <1>2, <3>1, <3>2 DEF Blocks
      <4>2. 1 < j + 1
        OBVIOUS
      <4> QED
        BY <1>1, <1>3, <2>1, <3>1, <4>1, <4>2 DEF Increasing
    <3>3. CASE i # Len(b)
      <4>1. i \in 1 .. Len(buff[r]) /\ b[i] = buff[r][i]
        BY <1>1, <1>2, <3>1, <3>3 DEF Blocks
      <4> QED
        BY <2>1, <3>1, <4>1 DEF OrderInv
    <3> QED
      BY <3>2, <3>3
  <2>3. CASE q # r
    BY <1>2, <2>1, <2>3 DEF OrderInv, TypeInv, TypeOK
  <2> QED
    BY <2>2, <2>3
<1>10. \A y \in Items : stamp'[y] < Now'
  BY DEF OrderInv, Now
<1> HIDE DEF b, x
<1> QED
  BY <1>8, <1>9, <1>10 DEF OrderInv

LEMMA ReaderOrder ==
  ASSUME TypeInv, OrderInv, NEW r \in Readers, Reader(r)
  PROVE  OrderInv'
<1>1. CASE ReadFirst(r) \/ ReadMore(r)
  BY <1>1, TakeInv DEF ReadFirst, ReadMore
<1>2. CASE ReadReturns(r)
  <2>1. AllBlocks' = AllBlocks
    BY ZenonT(60), <1>2, BlockCases DEF ReadReturns, Somewhere, pipeVars
  <2> QED
    BY <1>2, <2>1, MoveInv DEF ReadReturns
<1>3. CASE SendBlock(r)
  <2>1. ASSUME NEW q \in Readers, NEW k \in 1 .. Len(work'[q])
        PROVE  work'[q][k] \in AllBlocks
    <3>1. CASE q = r /\ k = Len(work[r]) + 1
      <4>1. work'[q][k] = buff[r]
        BY <1>3, <3>1 DEF SendBlock, TypeInv, TypeOK
      <4> QED
        BY <4>1, BlockCases DEF Somewhere
    <3>2. CASE ~(q = r /\ k = Len(work[r]) + 1)
      <4>1. k \in 1 .. Len(work[q]) /\ work'[q][k] = work[q][k]
        BY <1>3, <3>2 DEF SendBlock, TypeInv, TypeOK
      <4> QED
        BY <4>1, BlockCases DEF Somewhere
    <3> QED
      BY <3>1, <3>2
  <2>2. \A q \in Readers : buff'[q] \in {buff[q], <<>>}
    BY <1>3 DEF SendBlock, TypeInv, TypeOK
  <2>3. AllBlocks' \subseteq AllBlocks \cup {<<>>}
    BY <1>3, <2>1, <2>2, BlockCases DEF SendBlock, Somewhere, pipeVars
  <2> QED
    BY <1>3, <2>2, <2>3, MoveInv DEF SendBlock
<1> QED
  BY <1>1, <1>2, <1>3 DEF Reader

LEMMA MainOrder == TypeInv /\ OrderInv /\ Main => OrderInv'
<1> SUFFICES ASSUME TypeInv, OrderInv, Main PROVE OrderInv'
  OBVIOUS
<1>1. ASSUME NEW r \in Readers, FlusherRecv(r) PROVE OrderInv'
  <2> USE <1>1 DEF FlusherRecv
  <2>1. Head(work[r]) \in AllBlocks
    <3>1. Head(work[r]) = work[r][1] /\ 1 \in 1 .. Len(work[r])
      BY DEF TypeInv, TypeOK
    <3> QED
      BY <3>1, BlockCases DEF Somewhere
  <2>2. ASSUME NEW q \in Readers, NEW k \in 1 .. Len(work'[q])
        PROVE  work'[q][k] \in AllBlocks
    <3>1. CASE q = r
      <4>1. k + 1 \in 1 .. Len(work[r]) /\ work'[q][k] = work[r][k + 1]
        BY <3>1 DEF TypeInv, TypeOK
      <4> QED
        BY <4>1, BlockCases DEF Somewhere
    <3>2. CASE q # r
      <4>1. work'[q] = work[q]
        BY <3>2 DEF TypeInv, TypeOK
      <4> QED
        BY <4>1, BlockCases DEF Somewhere
    <3> QED
      BY <3>1, <3>2
  <2>3. AllBlocks' \subseteq AllBlocks
    BY <2>1, <2>2, BlockCases DEF Somewhere, readerVars, pipeVars
  <2> QED
    BY <2>3, MoveInv DEF readerVars
<1>2. ASSUME NEW d \in Dispatchers, Flush(d) PROVE OrderInv'
  <2> USE <1>2 DEF Flush
  <2>1. ASSUME NEW q \in Dispatchers, NEW k \in 1 .. Len(outbox'[q])
        PROVE  outbox'[q][k] \in AllBlocks
    <3>1. CASE q = d /\ k = Len(outbox[d]) + 1
      <4>1. outbox'[q][k] = flushing
        BY <3>1 DEF TypeInv, TypeOK
      <4> QED
        BY <4>1, BlockCases DEF Somewhere
    <3>2. CASE ~(q = d /\ k = Len(outbox[d]) + 1)
      <4>1. k \in 1 .. Len(outbox[q]) /\ outbox'[q][k] = outbox[q][k]
        BY <3>2 DEF TypeInv, TypeOK
      <4> QED
        BY <4>1, BlockCases DEF Somewhere
    <3> QED
      BY <3>1, <3>2
  <2>2. AllBlocks' \subseteq AllBlocks \cup {<<>>}
    BY <2>1, BlockCases DEF Somewhere, readerVars
  <2> QED
    BY <2>2, MoveInv DEF readerVars
<1> QED
  BY <1>1, <1>2 DEF Main

LEMMA DispatcherOrder ==
  ASSUME TypeInv, OrderInv, NEW d \in Dispatchers, Dispatcher(d)
  PROVE  OrderInv'
<1> SUFFICES AllBlocks' \subseteq AllBlocks \cup {<<>>}
  BY MoveInv DEF Dispatcher, DispatcherConnects, DispatcherDies, DispatcherRecv, readerVars
<1>1. CASE DispatcherConnects(d)
  BY <1>1, BlockCases DEF DispatcherConnects, Somewhere, readerVars
<1>2. CASE DispatcherDies(d)
  <2> USE <1>2 DEF DispatcherDies
  <2>1. lost' \subseteq AllBlocks
    BY BlockCases DEF Somewhere
  <2>2. ASSUME NEW q \in Dispatchers, NEW k \in 1 .. Len(outbox'[q])
        PROVE  outbox'[q][k] \in AllBlocks
    <3>1. q # d /\ outbox'[q] = outbox[q]
      BY DEF TypeInv, TypeOK
    <3> QED
      BY <3>1, BlockCases DEF Somewhere
  <2> QED
    BY <2>1, <2>2, BlockCases DEF Somewhere, readerVars
<1>3. CASE DispatcherRecv(d)
  <2> USE <1>3 DEF DispatcherRecv
  <2>1. Head(outbox[d]) = outbox[d][1] /\ 1 \in 1 .. Len(outbox[d])
    BY DEF TypeInv, TypeOK
  <2>2. ASSUME NEW q \in Dispatchers, NEW k \in 1 .. Len(outbox'[q])
        PROVE  outbox'[q][k] \in AllBlocks
    <3>1. CASE q = d
      <4>1. k + 1 \in 1 .. Len(outbox[d]) /\ outbox'[q][k] = outbox[d][k + 1]
        BY <3>1 DEF TypeInv, TypeOK
      <4> QED
        BY <4>1, BlockCases DEF Somewhere
    <3>2. CASE q # d
      <4>1. outbox'[q] = outbox[q]
        BY <3>2 DEF TypeInv, TypeOK
      <4> QED
        BY <4>1, BlockCases DEF Somewhere
    <3> QED
      BY <3>1, <3>2
  <2>3. ASSUME NEW q \in Dispatchers, NEW k \in 1 .. Len(received'[q])
        PROVE  received'[q][k] \in AllBlocks
    <3>0. Head(outbox[d]) \in Blocks
      BY DEF TypeInv, TypeOK
    <3>1. CASE q = d /\ k = Len(received[d]) + 1
      <4>1. received'[q][k] = outbox[d][1]
        BY <2>1, <3>0, <3>1 DEF TypeInv, TypeOK
      <4> QED
        BY <2>1, <4>1, BlockCases DEF Somewhere
    <3>2. CASE ~(q = d /\ k = Len(received[d]) + 1)
      <4>1. k \in 1 .. Len(received[q]) /\ received'[q][k] = received[q][k]
        BY <3>0, <3>2 DEF TypeInv, TypeOK
      <4> QED
        BY <4>1, BlockCases DEF Somewhere
    <3> QED
      BY <3>1, <3>2
  <2> QED
    BY <2>2, <2>3, BlockCases DEF Somewhere, readerVars
<1> QED
  BY <1>1, <1>2, <1>3 DEF Dispatcher

LEMMA InitOrder == Init => OrderInv
<1> SUFFICES ASSUME Init PROVE OrderInv
  OBVIOUS
<1>1. Now = 1
  <2>1. {x \in Items : stamp[x] # 0} = {}
    BY DEF Init
  <2> QED
    BY <2>1, FS_EmptySet DEF Now
<1>2. AllBlocks \cup {queue} \subseteq {<<>>}
  BY DEF Init, AllBlocks
<1>3. \A b \in AllBlocks \cup {queue} : Increasing(b)
  BY <1>2 DEF Increasing
<1>4. \A n \in Marks : stamp[n] = 0
  BY DEF Init, Items
<1> QED
  BY <1>1, <1>3, <1>4 DEF Init, OrderInv

LEMMA NextOrder == TypeInv /\ OrderInv /\ [Next]_vars => OrderInv'
<1> SUFFICES ASSUME TypeInv, OrderInv, [Next]_vars PROVE OrderInv'
  OBVIOUS
<1>1. CASE UNCHANGED vars
  <2>1. AllBlocks' = AllBlocks
    BY <1>1 DEF vars, readerVars, pipeVars, AllBlocks
  <2> QED
    BY <1>1, <2>1, MoveInv DEF vars, readerVars
<1> QED
  BY <1>1, KernelOrder, ReaderOrder, MainOrder, DispatcherOrder DEF Next

\* Every block, wherever it is, holds items in the order in which the kernel
\* queued them, however many threads read the descriptor at the same time
\* (proxy.c:83-94).
THEOREM BlocksKeepOrder == Spec => []BlocksInKernelOrder
<1>1. OrderInv => BlocksInKernelOrder
  BY DEF OrderInv, BlocksInKernelOrder, Increasing
<1> QED
  BY <1>1, InitTypeInv, NextTypeInv, InitOrder, NextOrder, PTL DEF Spec

-----------------------------------------------------------------------------
(* Nothing lost, nothing twice: a step moves items from place to place.     *)

\* The occurrences of x in a block, and in the blocks of a family of pipes.
InBlock(x, part, o, k, b, p) == \E i \in 1 .. Len(b) : b[i] = x /\ p = <<part, o, k, i>>

InBlocks(x, part, S, f, p) ==
  \E o \in S : \E k \in 1 .. Len(f[o]) : InBlock(x, part, o, k, f[o][k], p)

AtAll(x, part, S, f) == UNION {AtAny(x, part, o, f[o]) : o \in S}

Spot(x, p) ==
  \/ InBlock(x, "queue", 0, 0, queue, p)
  \/ InBlock(x, "flusher", 0, 0, flushing, p)
  \/ \E r \in Readers : InBlock(x, "buff", r, 0, buff[r], p)
  \/ InBlocks(x, "work", Readers, work, p)
  \/ InBlocks(x, "outbox", Dispatchers, outbox, p)
  \/ InBlocks(x, "received", Dispatchers, received, p)
  \/ \E b \in lost : InBlock(x, "lost", b, 0, b, p)

LEMMA AtMember ==
  ASSUME NEW x, NEW part, NEW o, NEW k, NEW b, NEW p
  PROVE  p \in At(x, part, o, k, b) <=> InBlock(x, part, o, k, b, p)
  BY DEF At, InBlock

LEMMA AtAllMember ==
  ASSUME NEW x, NEW part, NEW S, NEW f, NEW p
  PROVE  p \in AtAll(x, part, S, f) <=> InBlocks(x, part, S, f, p)
<1>1. p \in AtAll(x, part, S, f) <=> \E o \in S : p \in AtAny(x, part, o, f[o])
  BY DEF AtAll
<1>2. ASSUME NEW o \in S
      PROVE  p \in AtAny(x, part, o, f[o])
               <=> \E k \in 1 .. Len(f[o]) : p \in At(x, part, o, k, f[o][k])
  BY DEF AtAny
<1> QED
  BY <1>1, <1>2, AtMember DEF InBlocks

\* The places of an item, in a state and in the next.
LEMMA SpotCases ==
  ASSUME NEW x, NEW p
  PROVE  (p \in Places(x) <=> Spot(x, p)) /\ (p \in Places(x)' <=> Spot(x, p)')
<1>1. p \in Places(x) <=> Spot(x, p)
  <2>1. Places(x) =
          At(x, "queue", 0, 0, queue) \cup At(x, "flusher", 0, 0, flushing)
          \cup (UNION {At(x, "buff", r, 0, buff[r]) : r \in Readers})
          \cup AtAll(x, "work", Readers, work) \cup AtAll(x, "outbox", Dispatchers, outbox)
          \cup AtAll(x, "received", Dispatchers, received)
          \cup (UNION {At(x, "lost", b, 0, b) : b \in lost})
    BY DEF Places, AtAll
  <2> QED
    BY <2>1, AtMember, AtAllMember DEF Spot
<1>2. p \in Places(x)' <=> Spot(x, p)'
  <2>1. Places(x)' =
          At(x, "queue", 0, 0, queue') \cup At(x, "flusher", 0, 0, flushing')
          \cup (UNION {At(x, "buff", r, 0, buff'[r]) : r \in Readers})
          \cup AtAll(x, "work", Readers, work')
          \cup AtAll(x, "outbox", Dispatchers, outbox')
          \cup AtAll(x, "received", Dispatchers, received')
          \cup (UNION {At(x, "lost", b, 0, b) : b \in lost'})
    BY DEF Places, AtAll
  <2> QED
    BY <2>1, AtMember, AtAllMember DEF Spot
<1> QED
  BY <1>1, <1>2

PlacesInv ==
  \A x \in Items : IF stamp[x] # 0 THEN \E p : Places(x) = {p} ELSE Places(x) = {}

\* A step that only moves items, each from its place to another.
LEMMA MovedOnce ==
  ASSUME PlacesInv, UNCHANGED stamp, NEW F,
         \A x \in Items : \A p : Spot(x, p) => Spot(x, F[p])',
         \A x \in Items : \A q : Spot(x, q)' => \E p : Spot(x, p) /\ q = F[p]
  PROVE  PlacesInv'
<1> SUFFICES ASSUME NEW x \in Items
             PROVE  IF stamp[x] # 0 THEN \E p : Places(x)' = {p} ELSE Places(x)' = {}
  BY DEF PlacesInv
<1>1. \A p \in Places(x) : F[p] \in Places(x)'
  BY SpotCases
<1>2. \A q \in Places(x)' : \E p \in Places(x) : q = F[p]
  BY SpotCases
<1>3. CASE stamp[x] # 0
  <2>1. PICK p : Places(x) = {p}
    BY <1>3 DEF PlacesInv
  <2>2. Places(x)' = {F[p]}
    BY <1>1, <1>2, <2>1
  <2> QED
    BY <1>3, <2>2
<1>4. CASE stamp[x] = 0
  BY <1>2, <1>4 DEF PlacesInv
<1> QED
  BY <1>3, <1>4

\* A block that moves takes its items along.
LEMMA Relabel ==
  ASSUME NEW x, NEW part, NEW o, NEW k, NEW b, NEW p, InBlock(x, part, o, k, b, p)
  PROVE  /\ p[1] = part /\ p[2] = o /\ p[3] = k /\ p = <<part, o, k, p[4]>>
         /\ \A part2, o2, k2 : InBlock(x, part2, o2, k2, b, <<part2, o2, k2, p[4]>>)
  BY DEF InBlock

\* There is nothing in an empty block.
LEMMA EmptyBlock ==
  ASSUME NEW x, NEW part, NEW o, NEW k, NEW p PROVE ~InBlock(x, part, o, k, <<>>, p)
  BY DEF InBlock

Occupied == UNION {Places(x) : x \in Items}

LEMMA SpotOccupied == ASSUME NEW x \in Items, NEW p, Spot(x, p) PROVE p \in Occupied
  BY SpotCases DEF Occupied

\* What a pipe holds when a block enters it, ...
Push(f, o, b) == [f EXCEPT ![o] = Append(@, b)]
Pop(f, o) == [f EXCEPT ![o] = Tail(@)]

LEMMA Pushed ==
  ASSUME NEW x, NEW part, NEW S, NEW f \in [S -> Seq(Blocks)], NEW o \in S,
         NEW b \in Blocks, NEW p
  PROVE  InBlocks(x, part, S, Push(f, o, b), p) <=>
           \/ InBlocks(x, part, S, f, p)
           \/ InBlock(x, part, o, Len(f[o]) + 1, b, p)
<1> DEFINE g == Push(f, o, b)
<1>1. /\ f[o] \in Seq(Blocks) /\ Len(f[o]) \in Nat /\ Len(g[o]) = Len(f[o]) + 1
      /\ \A k \in 1 .. Len(f[o]) + 1 : g[o][k] = IF k = Len(f[o]) + 1 THEN b ELSE f[o][k]
      /\ \A y \in S : y # o => g[y] = f[y]
  BY DEF Push
<1> HIDE DEF g
<1>2. ASSUME InBlocks(x, part, S, f, p) PROVE InBlocks(x, part, S, g, p)
  <2>1. PICK y \in S : \E k \in 1 .. Len(f[y]) : InBlock(x, part, y, k, f[y][k], p)
    BY <1>2 DEF InBlocks
  <2>2. PICK k \in 1 .. Len(f[y]) : InBlock(x, part, y, k, f[y][k], p)
    BY <2>1
  <2>3. k \in 1 .. Len(g[y]) /\ g[y][k] = f[y][k]
    BY <1>1
  <2> QED
    BY <2>2, <2>3 DEF InBlocks
<1>3. ASSUME InBlock(x, part, o, Len(f[o]) + 1, b, p) PROVE InBlocks(x, part, S, g, p)
  <2>1. Len(f[o]) + 1 \in 1 .. Len(g[o]) /\ g[o][Len(f[o]) + 1] = b
    BY <1>1
  <2> QED
    BY <1>3, <2>1 DEF InBlocks
<1>4. ASSUME InBlocks(x, part, S, g, p)
      PROVE  \/ InBlocks(x, part, S, f, p)
             \/ InBlock(x, part, o, Len(f[o]) + 1, b, p)
  <2>1. PICK y \in S : \E k \in 1 .. Len(g[y]) : InBlock(x, part, y, k, g[y][k], p)
    BY <1>4 DEF InBlocks
  <2>2. PICK k \in 1 .. Len(g[y]) : InBlock(x, part, y, k, g[y][k], p)
    BY <2>1
  <2>3. \/ y = o /\ k = Len(f[o]) + 1 /\ g[y][k] = b
        \/ k \in 1 .. Len(f[y]) /\ g[y][k] = f[y][k]
    BY <1>1
  <2> QED
    BY <2>2, <2>3 DEF InBlocks
<1> QED
  BY <1>2, <1>3, <1>4 DEF g

\* ... and when its oldest block leaves it: the others move up.
LEMMA PopOld ==
  ASSUME NEW x, NEW part, NEW S, NEW f \in [S -> Seq(Blocks)], NEW o \in S,
         f[o] # <<>>, NEW p,
         InBlocks(x, part, S, f, p), ~InBlock(x, part, o, 1, Head(f[o]), p)
  PROVE  \/ p[1] = part /\ p[2] = o /\ p[3] # 1
              /\ InBlocks(x, part, S, Pop(f, o), <<part, o, p[3] - 1, p[4]>>)
         \/ p[1] = part /\ p[2] # o /\ InBlocks(x, part, S, Pop(f, o), p)
<1> DEFINE g == Pop(f, o)
<1>1. /\ f[o] \in Seq(Blocks) /\ Len(f[o]) \in Nat /\ Len(f[o]) # 0
      /\ Len(g[o]) = Len(f[o]) - 1
      /\ \A k \in 1 .. Len(f[o]) - 1 : g[o][k] = f[o][k + 1]
      /\ Head(f[o]) = f[o][1]
      /\ \A y \in S : y # o => g[y] = f[y]
  BY DEF Pop
<1> SUFFICES \/ p[1] = part /\ p[2] = o /\ p[3] # 1
                  /\ InBlocks(x, part, S, g, <<part, o, p[3] - 1, p[4]>>)
             \/ p[1] = part /\ p[2] # o /\ InBlocks(x, part, S, g, p)
  OBVIOUS
<1> HIDE DEF g
<1>2. PICK y \in S : \E k \in 1 .. Len(f[y]) : InBlock(x, part, y, k, f[y][k], p)
  BY DEF InBlocks
<1>3. PICK k \in 1 .. Len(f[y]) : InBlock(x, part, y, k, f[y][k], p)
  BY <1>2
<1>4. p[1] = part /\ p[2] = y /\ p[3] = k
  BY <1>3, Relabel
<1>5. CASE y # o
  BY <1>1, <1>3, <1>4, <1>5 DEF InBlocks
<1>6. CASE y = o /\ k = 1
  BY <1>1, <1>3, <1>6
<1>7. CASE y = o /\ k # 1
  <2>1. k - 1 \in 1 .. Len(g[o]) /\ g[o][k - 1] = f[o][k]
    BY <1>1, <1>7
  <2>2. InBlock(x, part, o, k - 1, g[o][k - 1], <<part, o, k - 1, p[4]>>)
    BY <1>3, <1>7, <2>1, Relabel
  <2> QED
    BY <1>4, <1>7, <2>1, <2>2 DEF InBlocks
<1> QED
  BY <1>5, <1>6, <1>7

LEMMA PopNew ==
  ASSUME NEW x, NEW part, NEW S, NEW f \in [S -> Seq(Blocks)], NEW o \in S,
         f[o] # <<>>, NEW p,
         InBlocks(x, part, S, Pop(f, o), p)
  PROVE  \/ /\ p = <<part, o, p[3], p[4]>> /\ p[3] \in Nat \ {0}
            /\ InBlocks(x, part, S, f, <<part, o, p[3] + 1, p[4]>>)
         \/ p[1] = part /\ p[2] # o /\ InBlocks(x, part, S, f, p)
<1> DEFINE g == Pop(f, o)
<1>1. /\ f[o] \in Seq(Blocks) /\ Len(f[o]) \in Nat /\ Len(f[o]) # 0
      /\ Len(g[o]) = Len(f[o]) - 1
      /\ \A k \in 1 .. Len(f[o]) - 1 : g[o][k] = f[o][k + 1]
      /\ Head(f[o]) = f[o][1]
      /\ \A y \in S : y # o => g[y] = f[y]
  BY DEF Pop
<1> HIDE DEF g
<1>2. PICK y \in S : \E k \in 1 .. Len(g[y]) : InBlock(x, part, y, k, g[y][k], p)
  BY DEF InBlocks, g
<1>3. PICK k \in 1 .. Len(g[y]) : InBlock(x, part, y, k, g[y][k], p)
  BY <1>2
<1>4. p[1] = part /\ p[2] = y /\ p[3] = k /\ p = <<part, y, k, p[4]>>
  BY <1>3, Relabel
<1>5. CASE y # o
  BY <1>1, <1>3, <1>4, <1>5 DEF InBlocks
<1>6. CASE y = o
  <2>1. k + 1 \in 1 .. Len(f[o]) /\ g[o][k] = f[o][k + 1] /\ k \in Nat \ {0}
    BY <1>1, <1>6
  <2>2. InBlock(x, part, o, k + 1, f[o][k + 1], <<part, o, k + 1, p[4]>>)
    BY <1>3, <1>6, <2>1, Relabel
  <2> QED
    BY <1>4, <1>6, <2>1, <2>2 DEF InBlocks
<1> QED
  BY <1>5, <1>6 DEF g

LEMMA OldestIn ==
  ASSUME NEW x, NEW part, NEW S, NEW f \in [S -> Seq(Blocks)], NEW o \in S,
         f[o] # <<>>, NEW p, InBlock(x, part, o, 1, Head(f[o]), p)
  PROVE  InBlocks(x, part, S, f, p)
<1>1. 1 \in 1 .. Len(f[o]) /\ Head(f[o]) = f[o][1]
  OBVIOUS
<1> QED
  BY <1>1 DEF InBlocks

\* What is known of a place in a pipe.
LEMMA BlocksPart ==
  ASSUME NEW x, NEW part, NEW S, NEW f, NEW p, InBlocks(x, part, S, f, p) PROVE p[1] = part
  BY Relabel DEF InBlocks

\* A reader puts its block into its pipe.
LEMMA SendBlockMoves ==
  ASSUME TypeInv, PlacesInv, NEW r \in Readers, SendBlock(r)
  PROVE  PlacesInv'
<1>1. PICK n : n = Len(work[r]) + 1
  OBVIOUS
<1> DEFINE To(p) == IF p[1] = "buff" /\ p[2] = r THEN <<"work", r, n, p[4]>> ELSE p
<1>2. /\ work \in [Readers -> Seq(Blocks)] /\ buff[r] \in Blocks
      /\ work' = Push(work, r, buff[r])
      /\ buff'[r] = <<>> /\ \A q \in Readers : q # r => buff'[q] = buff[q]
      /\ UNCHANGED <<queue, stamp, flushing, outbox, received, lost>>
  BY DEF SendBlock, kernelVars, pipeVars, TypeInv, TypeOK, Push
<1>3. ASSUME NEW x, NEW p
      PROVE  InBlocks(x, "work", Readers, work', p) <=>
               \/ InBlocks(x, "work", Readers, work, p)
               \/ InBlock(x, "work", r, n, buff[r], p)
  BY <1>1, <1>2, Pushed
<1>4. ASSUME NEW x \in Items, NEW p, Spot(x, p) PROVE Spot(x, To(p))'
  <2>1. CASE InBlock(x, "buff", r, 0, buff[r], p)
    <3>1. To(p) = <<"work", r, n, p[4]>> /\ InBlock(x, "work", r, n, buff[r], To(p))
      BY <2>1, Relabel
    <3> QED
      BY <1>3, <3>1 DEF Spot
  <2>2. CASE ~InBlock(x, "buff", r, 0, buff[r], p)
    <3>1. To(p) = p
      BY <1>4, <2>2, Relabel, BlocksPart DEF Spot
    <3> QED
      BY <1>2, <1>3, <1>4, <2>2, <3>1 DEF Spot
  <2> QED
    BY <2>1, <2>2
<1>5. ASSUME NEW x \in Items, NEW q, Spot(x, q)' PROVE \E p : Spot(x, p) /\ q = To(p)
  <2>1. CASE InBlock(x, "work", r, n, buff[r], q)
    <3>1. /\ InBlock(x, "buff", r, 0, buff[r], <<"buff", r, 0, q[4]>>)
          /\ q = <<"work", r, n, q[4]>>
      BY <2>1, Relabel
    <3> QED
      BY <3>1 DEF Spot
  <2>2. CASE ~InBlock(x, "work", r, n, buff[r], q)
    <3>1. Spot(x, q) /\ ~InBlock(x, "buff", r, 0, buff'[r], q)
      BY <1>2, <1>3, <1>5, <2>2, EmptyBlock DEF Spot
    <3>2. To(q) = q
      BY <1>2, <1>5, <3>1, Relabel, BlocksPart DEF Spot
    <3> QED
      BY <3>1, <3>2
  <2> QED
    BY <2>1, <2>2
<1>6. PICK F : F = [p \in Occupied |-> To(p)]
  OBVIOUS
<1>7. \A x \in Items : \A p : Spot(x, p) => F[p] = To(p)
  BY <1>6, SpotOccupied
<1>8. UNCHANGED stamp
  BY <1>2
<1> HIDE DEF To
<1> QED
  BY <1>4, <1>5, <1>7, <1>8, MovedOnce

\* The main thread takes the oldest block of a pipe, ...
LEMMA FlusherRecvMoves ==
  ASSUME TypeInv, PlacesInv, NEW r \in Readers, FlusherRecv(r)
  PROVE  PlacesInv'
<1> DEFINE To(p) == IF p[1] = "work" /\ p[2] = r
                    THEN IF p[3] = 1 THEN <<"flusher", 0, 0, p[4]>>
                         ELSE <<"work", r, p[3] - 1, p[4]>>
                    ELSE p
<1>1. /\ work \in [Readers -> Seq(Blocks)] /\ work[r] # <<>>
      /\ work' = Pop(work, r)
      /\ flushing = <<>> /\ flushing' = Head(work[r])
      /\ UNCHANGED <<queue, stamp, buff, outbox, received, lost>>
  BY DEF FlusherRecv, kernelVars, readerVars, pipeVars, TypeInv, TypeOK, Pop
<1>2. ASSUME NEW x \in Items, NEW p, Spot(x, p) PROVE Spot(x, To(p))'
  <2>1. CASE InBlocks(x, "work", Readers, work, p)
    <3>1. CASE InBlock(x, "work", r, 1, Head(work[r]), p)
      <4>1. To(p) = <<"flusher", 0, 0, p[4]>>
            /\ InBlock(x, "flusher", 0, 0, Head(work[r]), <<"flusher", 0, 0, p[4]>>)
        BY <3>1, Relabel
      <4> QED
        BY <1>1, <4>1 DEF Spot
    <3>2. CASE ~InBlock(x, "work", r, 1, Head(work[r]), p)
      <4>1. \/ p[1] = "work" /\ p[2] = r /\ p[3] # 1
                /\ InBlocks(x, "work", Readers, Pop(work, r), <<"work", r, p[3] - 1, p[4]>>)
            \/ p[1] = "work" /\ p[2] # r /\ InBlocks(x, "work", Readers, Pop(work, r), p)
        BY <1>1, <2>1, <3>2, PopOld
      <4> QED
        BY <1>1, <4>1 DEF Spot
    <3> QED
      BY <3>1, <3>2
  <2>2. CASE ~InBlocks(x, "work", Readers, work, p)
    <3>1. ~InBlock(x, "flusher", 0, 0, flushing, p)
      BY <1>1, EmptyBlock
    <3>2. To(p) = p
      BY <1>2, <2>2, Relabel, BlocksPart DEF Spot
    <3> QED
      BY <1>1, <1>2, <2>2, <3>1, <3>2 DEF Spot
  <2> QED
    BY <2>1, <2>2
<1>3. ASSUME NEW x \in Items, NEW q, Spot(x, q)' PROVE \E p : Spot(x, p) /\ q = To(p)
  <2>1. CASE InBlock(x, "flusher", 0, 0, Head(work[r]), q)
    <3>1. /\ InBlock(x, "work", r, 1, Head(work[r]), <<"work", r, 1, q[4]>>)
          /\ q = <<"flusher", 0, 0, q[4]>>
      BY <2>1, Relabel
    <3>2. InBlocks(x, "work", Readers, work, <<"work", r, 1, q[4]>>)
      BY <1>1, <3>1, OldestIn
    <3> QED
      BY <3>1, <3>2 DEF Spot
  <2>2. CASE InBlocks(x, "work", Readers, work', q)
    <3>1. \/ /\ q = <<"work", r, q[3], q[4]>> /\ q[3] \in Nat \ {0}
             /\ InBlocks(x, "work", Readers, work, <<"work", r, q[3] + 1, q[4]>>)
          \/ q[1] = "work" /\ q[2] # r /\ InBlocks(x, "work", Readers, work, q)
      BY <1>1, <2>2, PopNew
    <3>2. CASE q[2] = r
      <4>1. To(<<"work", r, q[3] + 1, q[4]>>) = q
        BY <3>1, <3>2
      <4> QED
        BY <3>1, <3>2, <4>1 DEF Spot
    <3>3. CASE q[2] # r
      <4>1. To(q) = q
        BY <3>3
      <4> QED
        BY <3>1, <3>3, <4>1 DEF Spot
    <3> QED
      BY <3>2, <3>3
  <2>3. CASE /\ ~InBlock(x, "flusher", 0, 0, Head(work[r]), q)
             /\ ~InBlocks(x, "work", Readers, work', q)
    <3>1. To(q) = q /\ Spot(x, q)
      BY <1>1, <1>3, <2>3, Relabel, BlocksPart DEF Spot
    <3> QED
      BY <3>1
  <2> QED
    BY <2>1, <2>2, <2>3
<1>4. PICK F : F = [p \in Occupied |-> To(p)]
  OBVIOUS
<1>5. \A x \in Items : \A p : Spot(x, p) => F[p] = To(p)
  BY <1>4, SpotOccupied
<1>6. UNCHANGED stamp
  BY <1>1
<1> HIDE DEF To
<1> QED
  BY <1>2, <1>3, <1>5, <1>6, MovedOnce

\* ... and puts it into the pipe of a dispatcher.
LEMMA FlushMoves ==
  ASSUME TypeInv, PlacesInv, NEW d \in Dispatchers, Flush(d)
  PROVE  PlacesInv'
<1>1. PICK n : n = Len(outbox[d]) + 1
  OBVIOUS
<1> DEFINE To(p) == IF p[1] = "flusher" THEN <<"outbox", d, n, p[4]>> ELSE p
<1>2. /\ outbox \in [Dispatchers -> Seq(Blocks)] /\ flushing \in Blocks
      /\ outbox' = Push(outbox, d, flushing)
      /\ flushing' = <<>>
      /\ UNCHANGED <<queue, stamp, buff, work, received, lost>>
  BY DEF Flush, kernelVars, readerVars, TypeInv, TypeOK, Push
<1>3. ASSUME NEW x, NEW p
      PROVE  InBlocks(x, "outbox", Dispatchers, outbox', p) <=>
               \/ InBlocks(x, "outbox", Dispatchers, outbox, p)
               \/ InBlock(x, "outbox", d, n, flushing, p)
  BY <1>1, <1>2, Pushed
<1>4. ASSUME NEW x \in Items, NEW p, Spot(x, p) PROVE Spot(x, To(p))'
  <2>1. CASE InBlock(x, "flusher", 0, 0, flushing, p)
    <3>1. To(p) = <<"outbox", d, n, p[4]>> /\ InBlock(x, "outbox", d, n, flushing, To(p))
      BY <2>1, Relabel
    <3> QED
      BY <1>3, <3>1 DEF Spot
  <2>2. CASE ~InBlock(x, "flusher", 0, 0, flushing, p)
    <3>1. To(p) = p
      BY <1>4, <2>2, Relabel, BlocksPart DEF Spot
    <3> QED
      BY <1>2, <1>3, <1>4, <2>2, <3>1 DEF Spot
  <2> QED
    BY <2>1, <2>2
<1>5. ASSUME NEW x \in Items, NEW q, Spot(x, q)' PROVE \E p : Spot(x, p) /\ q = To(p)
  <2>1. CASE InBlock(x, "outbox", d, n, flushing, q)
    <3>1. /\ InBlock(x, "flusher", 0, 0, flushing, <<"flusher", 0, 0, q[4]>>)
          /\ q = <<"outbox", d, n, q[4]>>
      BY <2>1, Relabel
    <3> QED
      BY <3>1 DEF Spot
  <2>2. CASE ~InBlock(x, "outbox", d, n, flushing, q)
    <3>1. Spot(x, q) /\ ~InBlock(x, "flusher", 0, 0, flushing', q)
      BY <1>2, <1>3, <1>5, <2>2, EmptyBlock DEF Spot
    <3>2. To(q) = q
      BY <1>2, <1>5, <3>1, Relabel, BlocksPart DEF Spot
    <3> QED
      BY <3>1, <3>2
  <2> QED
    BY <2>1, <2>2
<1>6. PICK F : F = [p \in Occupied |-> To(p)]
  OBVIOUS
<1>7. \A x \in Items : \A p : Spot(x, p) => F[p] = To(p)
  BY <1>6, SpotOccupied
<1>8. UNCHANGED stamp
  BY <1>2
<1> HIDE DEF To
<1> QED
  BY <1>4, <1>5, <1>7, <1>8, MovedOnce

\* A dispatcher takes the oldest block of its pipe, ...
LEMMA DispatcherRecvMoves ==
  ASSUME TypeInv, PlacesInv, NEW d \in Dispatchers, DispatcherRecv(d)
  PROVE  PlacesInv'
<1>1. PICK n : n = Len(received[d]) + 1
  OBVIOUS
<1> DEFINE b == Head(outbox[d])
           To(p) == IF p[1] = "outbox" /\ p[2] = d
                    THEN IF p[3] = 1 THEN <<"received", d, n, p[4]>>
                         ELSE <<"outbox", d, p[3] - 1, p[4]>>
                    ELSE p
<1>2. /\ outbox \in [Dispatchers -> Seq(Blocks)] /\ outbox[d] # <<>> /\ b \in Blocks
      /\ received \in [Dispatchers -> Seq(Blocks)]
      /\ outbox' = Pop(outbox, d)
      /\ received' = Push(received, d, b)
      /\ UNCHANGED <<queue, stamp, buff, work, flushing, lost>>
  BY DEF DispatcherRecv, kernelVars, readerVars, TypeInv, TypeOK, Pop, Push
<1> HIDE DEF b
<1>3. ASSUME NEW x, NEW p
      PROVE  InBlocks(x, "received", Dispatchers, received', p) <=>
               \/ InBlocks(x, "received", Dispatchers, received, p)
               \/ InBlock(x, "received", d, n, b, p)
  BY <1>1, <1>2, Pushed
<1>4. ASSUME NEW x \in Items, NEW p, Spot(x, p) PROVE Spot(x, To(p))'
  <2>1. CASE InBlocks(x, "outbox", Dispatchers, outbox, p)
    <3>1. CASE InBlock(x, "outbox", d, 1, b, p)
      <4>1. To(p) = <<"received", d, n, p[4]>>
            /\ InBlock(x, "received", d, n, b, <<"received", d, n, p[4]>>)
        BY <3>1, Relabel
      <4> QED
        BY <1>3, <4>1 DEF Spot
    <3>2. CASE ~InBlock(x, "outbox", d, 1, b, p)
      <4>1. \/ p[1] = "outbox" /\ p[2] = d /\ p[3] # 1
                /\ InBlocks(x, "outbox", Dispatchers, Pop(outbox, d),
                            <<"outbox", d, p[3] - 1, p[4]>>)
            \/ p[1] = "outbox" /\ p[2] # d
                /\ InBlocks(x, "outbox", Dispatchers, Pop(outbox, d), p)
        BY <1>2, <2>1, <3>2, PopOld DEF b
      <4> QED
        BY <1>2, <4>1 DEF Spot
    <3> QED
      BY <3>1, <3>2
  <2>2. CASE ~InBlocks(x, "outbox", Dispatchers, outbox, p)
    <3>1. To(p) = p
      BY <1>4, <2>2, Relabel, BlocksPart DEF Spot
    <3> QED
      BY <1>2, <1>3, <1>4, <2>2, <3>1 DEF Spot
  <2> QED
    BY <2>1, <2>2
<1>5. ASSUME NEW x \in Items, NEW q, Spot(x, q)' PROVE \E p : Spot(x, p) /\ q = To(p)
  <2>1. CASE InBlock(x, "received", d, n, b, q)
    <3>1. /\ InBlock(x, "outbox", d, 1, b, <<"outbox", d, 1, q[4]>>)
          /\ q = <<"received", d, n, q[4]>>
      BY <2>1, Relabel
    <3>2. InBlocks(x, "outbox", Dispatchers, outbox, <<"outbox", d, 1, q[4]>>)
      BY <1>2, <3>1, OldestIn DEF b
    <3> QED
      BY <3>1, <3>2 DEF Spot
  <2>2. CASE InBlocks(x, "outbox", Dispatchers, outbox', q)
    <3>1. \/ /\ q = <<"outbox", d, q[3], q[4]>> /\ q[3] \in Nat \ {0}
             /\ InBlocks(x, "outbox", Dispatchers, outbox, <<"outbox", d, q[3] + 1, q[4]>>)
          \/ q[1] = "outbox" /\ q[2] # d /\ InBlocks(x, "outbox", Dispatchers, outbox, q)
      BY <1>2, <2>2, PopNew
    <3>2. CASE q[2] = d
      <4>1. To(<<"outbox", d, q[3] + 1, q[4]>>) = q
        BY <3>1, <3>2
      <4> QED
        BY <3>1, <3>2, <4>1 DEF Spot
    <3>3. CASE q[2] # d
      <4>1. To(q) = q
        BY <3>3
      <4> QED
        BY <3>1, <3>3, <4>1 DEF Spot
    <3> QED
      BY <3>2, <3>3
  <2>3. CASE /\ ~InBlock(x, "received", d, n, b, q)
             /\ ~InBlocks(x, "outbox", Dispatchers, outbox', q)
    <3>1. To(q) = q /\ Spot(x, q)
      BY <1>2, <1>3, <1>5, <2>3, Relabel, BlocksPart DEF Spot
    <3> QED
      BY <3>1
  <2> QED
    BY <2>1, <2>2, <2>3
<1>6. PICK F : F = [p \in Occupied |-> To(p)]
  OBVIOUS
<1>7. \A x \in Items : \A p : Spot(x, p) => F[p] = To(p)
  BY <1>6, SpotOccupied
<1>8. UNCHANGED stamp
  BY <1>2
<1> HIDE DEF To
<1> QED
  BY <1>4, <1>5, <1>7, <1>8, MovedOnce

\* ... and the pipe of a dispatcher that dies takes its blocks down.
LEMMA DispatcherDiesMoves ==
  ASSUME TypeInv, PlacesInv, NEW d \in Dispatchers, DispatcherDies(d)
  PROVE  PlacesInv'
<1>1. PICK old : old = outbox[d]
  OBVIOUS
<1> DEFINE To(p) == IF p[1] = "outbox" /\ p[2] = d
                    THEN <<"lost", old[p[3]], 0, p[4]>> ELSE p
<1>2. /\ outbox' [d] = <<>>
      /\ \A e \in Dispatchers : e # d => outbox'[e] = outbox[e]
      /\ lost' = lost \cup {old[k] : k \in 1 .. Len(old)}
      /\ UNCHANGED <<queue, stamp, buff, work, flushing, received>>
  BY <1>1 DEF DispatcherDies, kernelVars, readerVars, TypeInv, TypeOK
<1>3. ASSUME NEW x, NEW p
      PROVE  InBlocks(x, "outbox", Dispatchers, outbox, p) <=>
               \/ \E k \in 1 .. Len(old) : InBlock(x, "outbox", d, k, old[k], p)
               \/ InBlocks(x, "outbox", Dispatchers, outbox', p)
  BY <1>1, <1>2 DEF InBlocks
<1>4. ASSUME NEW x, NEW p, InBlocks(x, "outbox", Dispatchers, outbox', p)
      PROVE  p[2] # d
  BY <1>2, <1>4, Relabel DEF InBlocks
<1>5. ASSUME NEW x, NEW p
      PROVE  (\E b \in lost' : InBlock(x, "lost", b, 0, b, p)) <=>
               \/ \E k \in 1 .. Len(old) : InBlock(x, "lost", old[k], 0, old[k], p)
               \/ \E b \in lost : InBlock(x, "lost", b, 0, b, p)
  BY <1>2
<1>6. ASSUME NEW x \in Items, NEW p, Spot(x, p) PROVE Spot(x, To(p))'
  <2>1. ASSUME NEW k \in 1 .. Len(old), InBlock(x, "outbox", d, k, old[k], p)
        PROVE  Spot(x, To(p))'
    <3>1. To(p) = <<"lost", old[k], 0, p[4]>>
          /\ InBlock(x, "lost", old[k], 0, old[k], <<"lost", old[k], 0, p[4]>>)
      BY <2>1, Relabel
    <3> QED
      BY <1>5, <3>1 DEF Spot
  <2>2. CASE ~ \E k \in 1 .. Len(old) : InBlock(x, "outbox", d, k, old[k], p)
    <3>1. To(p) = p
      BY <1>3, <1>4, <1>6, <2>2, Relabel, BlocksPart DEF Spot
    <3> QED
      BY <1>2, <1>3, <1>5, <1>6, <2>2, <3>1 DEF Spot
  <2> QED
    BY <2>1, <2>2
<1>7. ASSUME NEW x \in Items, NEW q, Spot(x, q)' PROVE \E p : Spot(x, p) /\ q = To(p)
  <2>1. ASSUME NEW k \in 1 .. Len(old), InBlock(x, "lost", old[k], 0, old[k], q)
        PROVE  \E p : Spot(x, p) /\ q = To(p)
    <3>1. /\ InBlock(x, "outbox", d, k, old[k], <<"outbox", d, k, q[4]>>)
          /\ q = <<"lost", old[k], 0, q[4]>>
      BY <2>1, Relabel
    <3>2. Spot(x, <<"outbox", d, k, q[4]>>)
      BY <1>3, <3>1 DEF Spot
    <3> QED
      BY <3>1, <3>2
  <2>2. CASE ~ \E k \in 1 .. Len(old) : InBlock(x, "lost", old[k], 0, old[k], q)
    <3>1. Spot(x, q)
      BY <1>2, <1>3, <1>5, <1>7, <2>2 DEF Spot
    <3>2. To(q) = q
      BY <1>4, <1>7, Relabel, BlocksPart DEF Spot
    <3> QED
      BY <3>1, <3>2
  <2> QED
    BY <2>1, <2>2
<1>8. PICK F : F = [p \in Occupied |-> To(p)]
  OBVIOUS
<1>9. \A x \in Items : \A p : Spot(x, p) => F[p] = To(p)
  BY <1>8, SpotOccupied
<1>10. UNCHANGED stamp
  BY <1>2
<1> HIDE DEF To
<1> QED
  BY <1>6, <1>7, <1>9, <1>10, MovedOnce

\* One item more at the end of a block, and one less at its head.
LEMMA BlockAppend ==
  ASSUME NEW x, NEW part, NEW o, NEW k, NEW b \in Blocks, NEW y \in Items, NEW p
  PROVE  InBlock(x, part, o, k, Append(b, y), p) <=>
           InBlock(x, part, o, k, b, p) \/ (x = y /\ p = <<part, o, k, Len(b) + 1>>)
<1>1. /\ Len(b) \in Nat /\ Len(Append(b, y)) = Len(b) + 1
      /\ \A i \in 1 .. Len(b) + 1 : Append(b, y)[i] = IF i = Len(b) + 1 THEN y ELSE b[i]
  BY DEF Blocks
<1>2. Len(b) + 1 \in 1 .. Len(b) + 1 /\ \A i \in 1 .. Len(b) : i \in 1 .. Len(b) + 1
  BY <1>1
<1> QED
  BY <1>1, <1>2 DEF InBlock

LEMMA BlockTail ==
  ASSUME NEW x, NEW part, NEW o, NEW k, NEW b \in Blocks, b # <<>>, NEW p
  PROVE  /\ InBlock(x, part, o, k, b, p) =>
              \/ x = Head(b) /\ p = <<part, o, k, 1>>
              \/ p[4] # 1 /\ InBlock(x, part, o, k, Tail(b), <<part, o, k, p[4] - 1>>)
         /\ InBlock(x, part, o, k, Tail(b), p) =>
              /\ p = <<part, o, k, p[4]>> /\ p[4] \in Nat \ {0}
              /\ InBlock(x, part, o, k, b, <<part, o, k, p[4] + 1>>)
         /\ x = Head(b) => InBlock(x, part, o, k, b, <<part, o, k, 1>>)
<1>1. /\ Len(b) \in Nat /\ Len(b) # 0 /\ Head(b) = b[1]
      /\ Len(Tail(b)) = Len(b) - 1
      /\ \A i \in 1 .. Len(b) - 1 : Tail(b)[i] = b[i + 1]
  BY DEF Blocks
<1>2. ASSUME NEW i \in 1 .. Len(b), b[i] = x, p = <<part, o, k, i>>
      PROVE  \/ x = Head(b) /\ p = <<part, o, k, 1>>
             \/ p[4] # 1 /\ InBlock(x, part, o, k, Tail(b), <<part, o, k, p[4] - 1>>)
  <2>1. CASE i = 1
    BY <1>1, <1>2, <2>1
  <2>2. CASE i # 1
    <3>1. i - 1 \in 1 .. Len(Tail(b)) /\ Tail(b)[i - 1] = x /\ p[4] = i
      BY <1>1, <1>2, <2>2
    <3> QED
      BY <2>2, <3>1 DEF InBlock
  <2> QED
    BY <2>1, <2>2
<1>3. ASSUME NEW i \in 1 .. Len(Tail(b)), Tail(b)[i] = x, p = <<part, o, k, i>>
      PROVE  /\ p = <<part, o, k, p[4]>> /\ p[4] \in Nat \ {0}
             /\ InBlock(x, part, o, k, b, <<part, o, k, p[4] + 1>>)
  <2>1. i + 1 \in 1 .. Len(b) /\ b[i + 1] = x /\ p[4] = i /\ i \in Nat \ {0}
    BY <1>1, <1>3
  <2> QED
    BY <1>3, <2>1 DEF InBlock
<1>4. 1 \in 1 .. Len(b)
  BY <1>1
<1> QED
  BY <1>1, <1>2, <1>3, <1>4 DEF InBlock

\* A read() takes the oldest item of the queue.
LEMMA TakeMoves ==
  ASSUME TypeInv, PlacesInv, NEW r \in Readers, Take(r),
         UNCHANGED <<stamp, work, flushing, pipeVars>>
  PROVE  PlacesInv'
<1>1. PICK n : n = Len(buff[r]) + 1
  OBVIOUS
<1> DEFINE To(p) == IF p[1] = "queue"
                    THEN IF p[4] = 1 THEN <<"buff", r, 0, n>> ELSE <<"queue", 0, 0, p[4] - 1>>
                    ELSE p
<1>2. /\ queue \in Blocks /\ queue # <<>> /\ Head(queue) \in Items
      /\ queue' = Tail(queue)
      /\ buff[r] \in Blocks /\ buff'[r] = Append(buff[r], Head(queue))
      /\ \A q \in Readers : q # r => buff'[q] = buff[q]
      /\ UNCHANGED <<stamp, work, flushing, outbox, received, lost>>
  BY DEF Take, pipeVars, TypeInv, TypeOK, Blocks
<1>3. ASSUME NEW x, NEW p
      PROVE  (\E q \in Readers : InBlock(x, "buff", q, 0, buff'[q], p)) <=>
               \/ \E q \in Readers : InBlock(x, "buff", q, 0, buff[q], p)
               \/ x = Head(queue) /\ p = <<"buff", r, 0, n>>
  <2>1. InBlock(x, "buff", r, 0, Append(buff[r], Head(queue)), p) <=>
          \/ InBlock(x, "buff", r, 0, buff[r], p)
          \/ x = Head(queue) /\ p = <<"buff", r, 0, n>>
    BY <1>1, <1>2, BlockAppend
  <2> QED
    BY <1>2, <2>1
<1>4. ASSUME NEW x \in Items, NEW p, Spot(x, p) PROVE Spot(x, To(p))'
  <2>1. CASE InBlock(x, "queue", 0, 0, queue, p)
    <3>1. \/ x = Head(queue) /\ p = <<"queue", 0, 0, 1>>
          \/ p[4] # 1 /\ InBlock(x, "queue", 0, 0, Tail(queue), <<"queue", 0, 0, p[4] - 1>>)
      BY <1>2, <2>1, BlockTail
    <3>2. p[1] = "queue"
      BY <2>1, Relabel
    <3>3. CASE x = Head(queue) /\ p = <<"queue", 0, 0, 1>>
      <4>1. To(p) = <<"buff", r, 0, n>>
        BY <3>3
      <4> QED
        BY <1>3, <3>3, <4>1 DEF Spot
    <3>4. CASE /\ p[4] # 1
               /\ InBlock(x, "queue", 0, 0, Tail(queue), <<"queue", 0, 0, p[4] - 1>>)
      BY <1>2, <3>2, <3>4 DEF Spot
    <3> QED
      BY <3>1, <3>3, <3>4
  <2>2. CASE ~InBlock(x, "queue", 0, 0, queue, p)
    <3>1. To(p) = p
      BY <1>4, <2>2, Relabel, BlocksPart DEF Spot
    <3> QED
      BY <1>2, <1>3, <1>4, <2>2, <3>1 DEF Spot
  <2> QED
    BY <2>1, <2>2
<1>5. ASSUME NEW x \in Items, NEW q, Spot(x, q)' PROVE \E p : Spot(x, p) /\ q = To(p)
  <2>1. CASE InBlock(x, "queue", 0, 0, queue', q)
    <3>1. /\ q = <<"queue", 0, 0, q[4]>> /\ q[4] \in Nat \ {0}
          /\ InBlock(x, "queue", 0, 0, queue, <<"queue", 0, 0, q[4] + 1>>)
      BY <1>2, <2>1, BlockTail
    <3>2. To(<<"queue", 0, 0, q[4] + 1>>) = q
      BY <3>1
    <3> QED
      BY <3>1, <3>2 DEF Spot
  <2>2. CASE x = Head(queue) /\ q = <<"buff", r, 0, n>>
    <3>1. InBlock(x, "queue", 0, 0, queue, <<"queue", 0, 0, 1>>)
      BY <1>2, <2>2, BlockTail
    <3>2. To(<<"queue", 0, 0, 1>>) = q
      BY <2>2
    <3> QED
      BY <3>1, <3>2 DEF Spot
  <2>3. CASE /\ ~InBlock(x, "queue", 0, 0, queue', q)
             /\ ~(x = Head(queue) /\ q = <<"buff", r, 0, n>>)
    <3>1. To(q) = q /\ Spot(x, q)
      BY SMTT(40), <1>2, <1>3, <1>5, <2>3, Relabel, BlocksPart DEF Spot
    <3> QED
      BY <3>1
  <2> QED
    BY <2>1, <2>2, <2>3
<1>6. PICK F : F = [p \in Occupied |-> To(p)]
  OBVIOUS
<1>7. \A x \in Items : \A p : Spot(x, p) => F[p] = To(p)
  BY <1>6, SpotOccupied
<1>8. UNCHANGED stamp
  BY <1>2
<1> HIDE DEF To
<1> QED
  BY <1>4, <1>5, <1>7, <1>8, MovedOnce

\* What the kernel queues was nowhere before.
LEMMA QueuedOnce ==
  ASSUME TypeInv, PlacesInv, NEW y \in Items, stamp[y] = 0,
         stamp' = [stamp EXCEPT ![y] = Now],
         queue' = Append(queue, y),
         UNCHANGED <<readerVars, work, flushing, pipeVars>>
  PROVE  PlacesInv'
<1>1. Now \in Nat /\ Now # 0
  BY NowIsNatural, ItemsFinite, FS_Subset, FS_CardinalityType DEF Now
<1>2. /\ stamp \in [Items -> Nat] /\ stamp'[y] # 0
      /\ \A x \in Items : x # y => stamp'[x] = stamp[x]
      /\ queue \in Blocks
      /\ UNCHANGED <<buff, work, flushing, outbox, received, lost>>
  BY <1>1 DEF TypeInv, TypeOK, readerVars, pipeVars
<1>3. ASSUME NEW x \in Items, NEW p
      PROVE  p \in Places(x)' <=>
               p \in Places(x) \/ (x = y /\ p = <<"queue", 0, 0, Len(queue) + 1>>)
  <2>1. InBlock(x, "queue", 0, 0, queue', p) <=>
          \/ InBlock(x, "queue", 0, 0, queue, p)
          \/ x = y /\ p = <<"queue", 0, 0, Len(queue) + 1>>
    BY <1>2, BlockAppend
  <2>2. Spot(x, p)' <=> Spot(x, p) \/ (x = y /\ p = <<"queue", 0, 0, Len(queue) + 1>>)
    BY <1>2, <2>1 DEF Spot
  <2> QED
    BY <2>2, SpotCases
<1>4. ASSUME NEW x \in Items
      PROVE  (IF stamp[x] # 0 THEN \E p : Places(x) = {p} ELSE Places(x) = {})'
  <2>1. CASE x = y
    <3>1. Places(x)' = {<<"queue", 0, 0, Len(queue) + 1>>}
      BY <1>3, <2>1 DEF PlacesInv
    <3> QED
      BY <1>2, <2>1, <3>1
  <2>2. CASE x # y
    <3>1. Places(x)' = Places(x)
      BY <1>3, <2>2
    <3> QED
      BY <1>2, <2>2, <3>1 DEF PlacesInv
  <2> QED
    BY <2>1, <2>2
<1> QED
  BY <1>4 DEF PlacesInv

\* A step that moves nothing.
LEMMA StayPut ==
  ASSUME PlacesInv, UNCHANGED <<queue, stamp, buff, work, flushing, outbox, received, lost>>
  PROVE  PlacesInv'
<1>1. \A x \in Items : Places(x)' = Places(x)
  BY DEF Places
<1> QED
  BY <1>1 DEF PlacesInv

LEMMA InitPlaces == Init => PlacesInv
<1> SUFFICES ASSUME Init, NEW x \in Items PROVE stamp[x] = 0 /\ Places(x) = {}
  BY DEF PlacesInv
<1>1. stamp[x] = 0
  BY DEF Init
<1>2. \A p : ~Spot(x, p)
  BY EmptyBlock DEF Init, Spot, InBlocks
<1>3. Places(x) = {}
  BY <1>2, SpotCases
<1> QED
  BY <1>1, <1>3

LEMMA NextPlaces == TypeInv /\ OrderInv /\ PlacesInv /\ [Next]_vars => PlacesInv'
<1> SUFFICES ASSUME TypeInv, OrderInv, PlacesInv, [Next]_vars PROVE PlacesInv'
  OBVIOUS
<1>1. ASSUME NEW m \in Mutations, QueueEvent(m) PROVE PlacesInv'
  <2>1. m \in Items /\ stamp[m] = 0
    BY <1>1 DEF QueueEvent, Happened, Items
  <2> QED
    BY <1>1, <2>1, QueuedOnce DEF QueueEvent
<1>2. ASSUME NEW m \in Mutations, DropAndMark(m) PROVE PlacesInv'
  <2>1. covered[m] = 0
    BY <1>2 DEF DropAndMark, Happened, TypeInv, TypeOK
  <2>2. marks + 1 \in Items /\ marks + 1 \in Marks
    BY <2>1, MarkFits DEF Items
  <2>3. stamp[marks + 1] = 0
    BY <2>2 DEF OrderInv, TypeInv, TypeOK
  <2> QED
    BY <1>2, <2>2, <2>3, QueuedOnce DEF DropAndMark
<1>3. ASSUME NEW m \in Mutations, DropMarked(m) PROVE PlacesInv'
  BY <1>3, StayPut DEF DropMarked, readerVars, pipeVars
<1>4. ASSUME NEW r \in Readers, ReadFirst(r) \/ ReadMore(r) PROVE PlacesInv'
  BY <1>4, TakeMoves DEF ReadFirst, ReadMore
<1>5. ASSUME NEW r \in Readers, ReadReturns(r) PROVE PlacesInv'
  BY <1>5, StayPut DEF ReadReturns, kernelVars, pipeVars
<1>6. ASSUME NEW r \in Readers, SendBlock(r) PROVE PlacesInv'
  BY <1>6, SendBlockMoves
<1>7. CASE Main
  BY <1>7, FlusherRecvMoves, FlushMoves DEF Main
<1>8. ASSUME NEW d \in Dispatchers, DispatcherConnects(d) PROVE PlacesInv'
  BY <1>8, StayPut DEF DispatcherConnects, kernelVars, readerVars
<1>9. ASSUME NEW d \in Dispatchers, DispatcherDies(d) \/ DispatcherRecv(d) PROVE PlacesInv'
  BY <1>9, DispatcherDiesMoves, DispatcherRecvMoves
<1>10. CASE UNCHANGED vars
  BY <1>10, StayPut DEF vars, kernelVars, readerVars, pipeVars
<1> QED
  BY <1>1, <1>2, <1>3, <1>4, <1>5, <1>6, <1>7, <1>8, <1>9, <1>10
  DEF Next, Kernel, Reader, Dispatcher

\* Between the kernel and the dispatchers no item is lost or doubled: it is in exactly one
\* place, at the latest in the pipe that went down with a dispatcher (proxy.c:66-94).
THEOREM NothingLostOrTwice == Spec => []EachItemInOnePlace
<1>1. PlacesInv => EachItemInOnePlace
  <2> SUFFICES ASSUME PlacesInv, NEW x \in Items
               PROVE  Cardinality(Places(x)) = IF stamp[x] # 0 THEN 1 ELSE 0
    BY DEF EachItemInOnePlace
  <2>1. CASE stamp[x] # 0
    <3>1. PICK p : Places(x) = {p}
      BY <2>1 DEF PlacesInv
    <3> QED
      BY <2>1, <3>1, FS_Singleton
  <2>2. CASE stamp[x] = 0
    BY <2>2, FS_EmptySet DEF PlacesInv
  <2> QED
    BY <2>1, <2>2
<1> QED
  BY <1>1, InitTypeInv, NextTypeInv, InitOrder, NextOrder, InitPlaces, NextPlaces,
     PTL DEF Spec

=============================================================================
