---------------------------- MODULE WorkerProofs ----------------------------
(***************************************************************************)
(* Proofs about the queue of the worker's messages and about the clients   *)
(* whose messages these are.                                               *)
(*                                                                         *)
(* ParallelQueue, for every set of types and keys and every MaxItems: its  *)
(* invariant, the mutual exclusion it gives, and that it implements        *)
(* OrderedDispatch.                                                        *)
(*                                                                         *)
(* ClientSession, for every set of clients and every bound: a burst is     *)
(* given once per connection of the network, what the network says reaches *)
(* every client that is registered, and nobody is away with clients        *)
(* attached.                                                               *)
(***************************************************************************)
EXTENDS ParallelQueue, ClientSession, SequenceTheorems, WellFoundedInduction, TLAPS

\* The list of queue k of block b after a step.
NextList(b, k) == blocks'[b].queues[k].list

\* push() changes one list of one block and nothing else of it.
LEMMA PushShape ==
    ASSUME NEW block \in Block, NEW key \in Keys, NEW item \in Nat
    PROVE  /\ Push(block, key, item) \in Block
           /\ Push(block, key, item).type = block.type
           /\ \A k \in Keys :
                /\ Push(block, key, item).queues[k].inProgress
                      = block.queues[k].inProgress
                /\ Push(block, key, item).queues[k].list
                      = IF k = key THEN Append(block.queues[k].list, item)
                                   ELSE block.queues[k].list
<1>1. block.queues \in [Keys -> Queue]
  BY DEF Block
<1>2. Append(block.queues[key].list, item) \in Seq(Nat)
  BY <1>1 DEF Queue
<1>3. QED
  BY <1>1, <1>2 DEF Push, Block, Queue

LEMMA NewBlockShape ==
    ASSUME NEW type \in Types
    PROVE  /\ NewBlock(type) \in Block
           /\ NewBlock(type).type = type
           /\ \A k \in Keys :
                /\ NewBlock(type).queues[k].inProgress = FALSE
                /\ NewBlock(type).queues[k].list = <<>>
BY DEF NewBlock, NoQueue, Block, Queue

\* add() extends one list of the last block ...
Extended(r) ==
    /\ Len(blocks) > 0
    /\ blocks[Len(blocks)].type = r.type
    /\ Len(blocks') = Len(blocks)
    /\ \A b \in 1..Len(blocks) : blocks'[b].type = blocks[b].type
    /\ \A b \in 1..Len(blocks), k \in Keys :
          /\ blocks'[b].queues[k].inProgress = blocks[b].queues[k].inProgress
          /\ List(b, k)' = IF b = Len(blocks) /\ k = r.key
                           THEN Append(List(b, k), Len(arrivals) + 1)
                           ELSE List(b, k)

\* ... or puts a block that holds the one item behind the others.
NewLast(r) ==
    /\ Len(blocks') = Len(blocks) + 1
    /\ \A b \in 1..Len(blocks) : blocks'[b] = blocks[b]
    /\ blocks'[Len(blocks) + 1].type = r.type
    /\ \A k \in Keys :
          /\ blocks'[Len(blocks) + 1].queues[k].inProgress = FALSE
          /\ blocks'[Len(blocks) + 1].queues[k].list
                = IF k = r.key THEN <<Len(arrivals) + 1>> ELSE <<>>

LEMMA AddShape ==
    ASSUME TypeOK, NEW r \in Routes, Add(r)
    PROVE  /\ blocks' \in Seq(Block)
           /\ Extended(r) \/ NewLast(r)
<1>. DEFINE n == Len(blocks)
            item == Len(arrivals) + 1
<1>1. n \in Nat /\ item \in Nat /\ r.type \in Types /\ r.key \in Keys
  BY DEF TypeOK, Routes
<1>2. CASE n > 0 /\ blocks[n].type = r.type
  <2>1. blocks[n] \in Block
    BY <1>2 DEF TypeOK
  <2>2. blocks # <<>>
    BY <1>2
  <2>3. blocks' = [blocks EXCEPT ![n] = Push(blocks[n], r.key, item)]
    BY <1>2, <2>2 DEF Add, AddTo
  <2>4. Push(blocks[n], r.key, item) \in Block
    BY <1>1, <2>1, PushShape
  <2>5. /\ blocks' \in Seq(Block)
        /\ Len(blocks') = n
        /\ \A b \in 1..n : blocks'[b] = IF b = n THEN Push(blocks[n], r.key, item)
                                                 ELSE blocks[b]
    <3>1. blocks \in Seq(Block) /\ n \in 1..Len(blocks)
      BY <1>1, <1>2 DEF TypeOK
    <3>2. QED
      BY <2>3, <2>4, <3>1, ExceptSeq
  <2>6. \A k \in Keys :
          /\ blocks'[n].queues[k].inProgress = blocks[n].queues[k].inProgress
          /\ blocks'[n].queues[k].list = IF k = r.key
                                         THEN Append(blocks[n].queues[k].list, item)
                                         ELSE blocks[n].queues[k].list
    BY <1>1, <1>2, <2>1, <2>5, PushShape, SMTT(20)
  <2>7. blocks'[n].type = blocks[n].type
    BY <1>1, <1>2, <2>1, <2>5, PushShape
  <2>8. Extended(r)
    BY <1>1, <1>2, <2>5, <2>6, <2>7 DEF Extended, List
  <2>9. QED
    BY <2>5, <2>8
<1>3. CASE ~(n > 0 /\ blocks[n].type = r.type)
  <2>. DEFINE fresh == Push(NewBlock(r.type), r.key, item)
  <2>1. blocks # <<>> => n > 0
    BY DEF TypeOK
  <2>2. blocks' = Append(blocks, fresh)
    BY <1>3, <2>1 DEF Add, AddTo
  <2>3. /\ fresh \in Block
        /\ fresh.type = r.type
        /\ \A k \in Keys :
              /\ fresh.queues[k].inProgress = FALSE
              /\ fresh.queues[k].list = IF k = r.key THEN <<item>> ELSE <<>>
    <3>. DEFINE empty == NewBlock(r.type)
    <3>1. Append(<<>>, item) = <<item>>
      OBVIOUS
    <3>2. /\ empty \in Block
          /\ empty.type = r.type
          /\ \A k \in Keys :
                /\ empty.queues[k].inProgress = FALSE
                /\ empty.queues[k].list = <<>>
      BY <1>1, NewBlockShape
    <3>. HIDE DEF empty, item
    <3>3. /\ Push(empty, r.key, item) \in Block
          /\ Push(empty, r.key, item).type = empty.type
          /\ \A k \in Keys :
                /\ Push(empty, r.key, item).queues[k].inProgress
                      = empty.queues[k].inProgress
                /\ Push(empty, r.key, item).queues[k].list
                      = IF k = r.key THEN Append(empty.queues[k].list, item)
                                     ELSE empty.queues[k].list
      <4>1. empty \in Block /\ r.key \in Keys /\ item \in Nat
        BY <1>1, <3>2 DEF item
      <4>2. QED
        BY <4>1, PushShape
    <3>4. QED
      BY <1>1, <3>1, <3>2, <3>3 DEF empty
  <2>4. /\ blocks' \in Seq(Block)
        /\ Len(blocks') = n + 1
        /\ \A b \in 1..n : blocks'[b] = blocks[b]
        /\ blocks'[n + 1] = fresh
    BY <2>2, <2>3, AppendProperties DEF TypeOK
  <2>. HIDE DEF fresh
  <2>5. NewLast(r)
    BY <2>3, <2>4 DEF NewLast, List
  <2>6. QED
    BY <2>4, <2>5
<1>4. QED
  BY <1>2, <1>3

\* get() marks one queue of the first block.
LEMMA GetShape ==
    ASSUME TypeOK, NEW key \in Keys, Get(key)
    PROVE  /\ blocks' \in Seq(Block)
           /\ Len(blocks) > 0
           /\ Len(blocks') = Len(blocks)
           /\ List(1, key) # <<>>
           /\ ~blocks[1].queues[key].inProgress
           /\ \A b \in 1..Len(blocks) : blocks'[b].type = blocks[b].type
           /\ \A b \in 1..Len(blocks), k \in Keys : NextList(b, k) = List(b, k)
           /\ \A b \in 1..Len(blocks), k \in Keys :
                blocks'[b].queues[k].inProgress
                   = IF b = 1 /\ k = key THEN TRUE
                     ELSE blocks[b].queues[k].inProgress
<1>. DEFINE first == [blocks[1] EXCEPT !.queues[key].inProgress = TRUE]
<1>1. /\ blocks # <<>>
      /\ List(1, key) # <<>>
      /\ ~blocks[1].queues[key].inProgress
      /\ blocks' = [blocks EXCEPT ![1] = first]
  BY DEF Get, Idle, MarkBusy, List
<1>2. Len(blocks) > 0 /\ 1 \in 1..Len(blocks) /\ blocks[1] \in Block
  BY <1>1, EmptySeq, ElementOfSeq DEF TypeOK
<1>3. blocks[1].queues \in [Keys -> Queue]
  BY <1>2 DEF Block
<1>4. /\ first \in Block
      /\ first.type = blocks[1].type
      /\ \A k \in Keys :
           /\ first.queues[k].list = blocks[1].queues[k].list
           /\ first.queues[k].inProgress
                 = IF k = key THEN TRUE ELSE blocks[1].queues[k].inProgress
  BY <1>2, <1>3 DEF Block, Queue
<1>. HIDE DEF first
<1>5. /\ blocks' \in Seq(Block)
      /\ Len(blocks') = Len(blocks)
      /\ \A b \in 1..Len(blocks) : blocks'[b] = IF b = 1 THEN first ELSE blocks[b]
  BY <1>1, <1>2, <1>4, ExceptSeq DEF TypeOK
<1>6. ASSUME NEW b \in 1..Len(blocks), NEW k \in Keys
      PROVE  /\ blocks'[b].type = blocks[b].type
             /\ blocks'[b].queues[k].list = blocks[b].queues[k].list
             /\ blocks'[b].queues[k].inProgress
                   = IF b = 1 /\ k = key THEN TRUE
                     ELSE blocks[b].queues[k].inProgress
  <2>1. CASE b = 1
    BY <1>2, <1>4, <1>5, <2>1
  <2>2. CASE b # 1
    BY <1>5, <2>2
  <2>3. QED
    BY <2>1, <2>2
<1>7. QED
  BY <1>1, <1>2, <1>5, <1>6 DEF List, NextList

\* ack() takes the head off one queue of the first block ...
Shortened(key) ==
    /\ Len(blocks') = Len(blocks)
    /\ \E q \in Keys : List(1, q)' # <<>>
    /\ \A b \in 1..Len(blocks), k \in Keys :
          /\ blocks'[b].type = blocks[b].type
          /\ List(b, k)' = IF b = 1 /\ k = key THEN Tail(List(b, k)) ELSE List(b, k)
          /\ blocks'[b].queues[k].inProgress
                = IF b = 1 /\ k = key THEN FALSE ELSE blocks[b].queues[k].inProgress

\* ... or drops the first block with its last item.
Dropped(key) ==
    /\ Len(blocks') = Len(blocks) - 1
    /\ \A b \in 1..Len(blocks') : blocks'[b] = blocks[b + 1]
    /\ Tail(List(1, key)) = <<>>
    /\ \A k \in Keys : k # key => List(1, k) = <<>>

LEMMA AckShape ==
    ASSUME TypeOK, BlocksInUse, NEW key \in Keys, Ack(key)
    PROVE  /\ blocks' \in Seq(Block)
           /\ Len(blocks) > 0
           /\ List(1, key) # <<>>
           /\ blocks[1].queues[key].inProgress
           /\ Shortened(key) \/ Dropped(key)
<1>. DEFINE first == [blocks[1] EXCEPT !.queues[key] =
                         [list |-> Tail(@.list), inProgress |-> FALSE]]
<1>1. /\ blocks # <<>>
      /\ blocks[1].queues[key].inProgress
      /\ blocks' = IF \A q \in Keys : first.queues[q].list = <<>>
                   THEN Tail(blocks) ELSE [blocks EXCEPT ![1] = first]
  BY DEF Ack, Busy, AckIn
<1>2. Len(blocks) > 0 /\ 1 \in 1..Len(blocks) /\ blocks[1] \in Block
  BY <1>1, EmptySeq, ElementOfSeq DEF TypeOK
<1>3. List(1, key) # <<>>
  BY <1>1, <1>2 DEF BlocksInUse
<1>4. blocks[1].queues \in [Keys -> Queue] /\ blocks[1].queues[key] \in Queue
  BY <1>2 DEF Block
<1>5. Tail(blocks[1].queues[key].list) \in Seq(Nat)
  BY <1>3, <1>4 DEF Queue, List
<1>6. /\ first \in Block
      /\ first.type = blocks[1].type
      /\ \A k \in Keys :
           /\ first.queues[k].list = IF k = key THEN Tail(blocks[1].queues[k].list)
                                                ELSE blocks[1].queues[k].list
           /\ first.queues[k].inProgress
                 = IF k = key THEN FALSE ELSE blocks[1].queues[k].inProgress
  BY <1>2, <1>4, <1>5 DEF Block, Queue
<1>. HIDE DEF first
<1>7. CASE \A q \in Keys : first.queues[q].list = <<>>
  <2>1. blocks' = Tail(blocks)
    BY <1>1, <1>7
  <2>2. /\ blocks' \in Seq(Block)
        /\ Len(blocks') = Len(blocks) - 1
        /\ \A b \in 1..Len(blocks') : blocks'[b] = blocks[b + 1]
    BY <1>1, <2>1, HeadTailProperties DEF TypeOK
  <2>3. Dropped(key)
    BY <1>6, <1>7, <2>2 DEF Dropped, List
  <2>4. QED
    BY <1>1, <1>2, <1>3, <2>2, <2>3
<1>8. CASE ~ \A q \in Keys : first.queues[q].list = <<>>
  <2>1. /\ blocks' \in Seq(Block)
        /\ Len(blocks') = Len(blocks)
        /\ \A b \in 1..Len(blocks) : blocks'[b] = IF b = 1 THEN first ELSE blocks[b]
    BY <1>1, <1>2, <1>6, <1>8, ExceptSeq DEF TypeOK
  <2>2. Shortened(key)
    BY <1>2, <1>6, <1>8, <2>1 DEF Shortened, List
  <2>3. QED
    BY <1>1, <1>2, <1>3, <2>1, <2>2
<1>9. QED
  BY <1>7, <1>8

LEMMA ListType ==
    ASSUME TypeOK, NEW b \in 1..Len(blocks), NEW k \in Keys
    PROVE  List(b, k) \in Seq(Nat)
<1>1. blocks[b] \in Block
  BY ElementOfSeq DEF TypeOK
<1>2. QED
  BY <1>1 DEF Block, Queue, List

\* After add(r) an entry of a list is the one that was there, or the new item at the
\* end of the last block.
OldEntry(b, k, p) ==
    /\ b \in 1..Len(blocks)
    /\ p \in 1..Len(List(b, k))
    /\ NextList(b, k)[p] = List(b, k)[p]

NewEntry(r, b, k, p) ==
    /\ b = Len(blocks')
    /\ k = r.key
    /\ p = Len(NextList(b, k))
    /\ NextList(b, k)[p] = Len(arrivals) + 1

LEMMA AddEntries ==
    ASSUME TypeOK, NEW r \in Routes, Add(r),
           NEW b \in 1..Len(blocks'), NEW k \in Keys
    PROVE  /\ NextList(b, k) \in Seq(Nat)
           /\ b > Len(blocks) => b = Len(blocks')
           /\ b \in 1..Len(blocks) =>
                 /\ blocks'[b].type = blocks[b].type
                 /\ blocks'[b].queues[k].inProgress = blocks[b].queues[k].inProgress
                 /\ Len(NextList(b, k)) >= Len(List(b, k))
           /\ b = Len(blocks') => blocks'[b].type = r.type
           /\ b > Len(blocks) =>
                 /\ ~blocks'[b].queues[k].inProgress
                 /\ NextList(b, r.key) # <<>>
           /\ \A p \in 1..Len(NextList(b, k)) : OldEntry(b, k, p) \/ NewEntry(r, b, k, p)
<1>. DEFINE item == Len(arrivals) + 1
<1>1. /\ Len(blocks) \in Nat /\ item \in Nat /\ Len(blocks') \in Nat
      /\ r.key \in Keys
  BY AddShape, LenProperties DEF TypeOK, Routes
<1>2. CASE Extended(r)
  <2>1. b \in 1..Len(blocks) /\ Len(blocks') = Len(blocks)
    BY <1>2 DEF Extended
  <2>2. List(b, k) \in Seq(Nat)
    BY <2>1, ListType
  <2>3. /\ blocks'[b].type = blocks[b].type
        /\ blocks'[b].queues[k].inProgress = blocks[b].queues[k].inProgress
        /\ b = Len(blocks') => blocks'[b].type = r.type
        /\ NextList(b, k) = IF b = Len(blocks) /\ k = r.key
                            THEN Append(List(b, k), item) ELSE List(b, k)
    BY <1>2, <2>1 DEF Extended, NextList, List
  <2>. HIDE DEF item
  <2>4. CASE b = Len(blocks) /\ k = r.key
    <3>1. NextList(b, k) = Append(List(b, k), item)
      BY <2>3, <2>4
    <3>2. /\ NextList(b, k) \in Seq(Nat)
          /\ Len(NextList(b, k)) = Len(List(b, k)) + 1
          /\ \A p \in 1..Len(List(b, k)) : NextList(b, k)[p] = List(b, k)[p]
          /\ NextList(b, k)[Len(List(b, k)) + 1] = item
      BY <1>1, <2>2, <3>1, AppendProperties
    <3>3. \A p \in 1..Len(NextList(b, k)) : OldEntry(b, k, p) \/ NewEntry(r, b, k, p)
      BY <1>1, <2>1, <2>2, <2>4, <3>2 DEF OldEntry, NewEntry, item
    <3>4. QED
      BY <1>1, <2>1, <2>2, <2>3, <3>2, <3>3
  <2>5. CASE ~(b = Len(blocks) /\ k = r.key)
    <3>1. NextList(b, k) = List(b, k)
      BY <2>3, <2>5
    <3>2. QED
      BY <1>1, <2>1, <2>2, <2>3, <3>1 DEF OldEntry
  <2>6. QED
    BY <2>4, <2>5
<1>3. CASE NewLast(r)
  <2>1. Len(blocks') = Len(blocks) + 1
    BY <1>3 DEF NewLast
  <2>2. CASE b \in 1..Len(blocks)
    <3>1. NextList(b, k) = List(b, k) /\ blocks'[b] = blocks[b]
      BY <1>3, <2>2 DEF NewLast, NextList, List
    <3>2. QED
      BY <1>1, <2>1, <2>2, <3>1, ListType DEF OldEntry
  <2>3. CASE b = Len(blocks')
    <3>1. /\ blocks'[b].type = r.type
          /\ blocks'[b].queues[k].inProgress = FALSE
          /\ NextList(b, k) = IF k = r.key THEN <<item>> ELSE <<>>
          /\ NextList(b, r.key) = <<item>>
      BY <1>1, <1>3, <2>1, <2>3 DEF NewLast, NextList
    <3>2. /\ <<item>> \in Seq(Nat) /\ Len(<<item>>) = 1 /\ <<item>>[1] = item
          /\ <<item>> # <<>>
      BY <1>1
    <3>3. \A p \in 1..Len(NextList(b, k)) : NewEntry(r, b, k, p)
      BY <1>1, <2>3, <3>1, <3>2 DEF NewEntry
    <3>4. NextList(b, k) \in Seq(Nat)
      BY <3>1, <3>2, EmptySeq
    <3>5. b > Len(blocks) /\ b \notin 1..Len(blocks)
      BY <1>1, <2>1, <2>3
    <3>6. ~blocks'[b].queues[k].inProgress /\ NextList(b, r.key) # <<>>
      BY <3>1, <3>2
    <3>. HIDE DEF item
    <3>7. QED
      BY <2>3, <3>1, <3>3, <3>4, <3>5, <3>6
  <2>4. QED
    BY <1>1, <2>1, <2>2, <2>3
<1>4. QED
  BY <1>2, <1>3, AddShape

\* add() keeps the invariant: the new item is larger than all others and goes to the end
\* of the last block.
LEMMA AddInv ==
    ASSUME Inv, NEW r \in Routes, Add(r)
    PROVE  Inv'
<1>. DEFINE item == Len(arrivals) + 1
<1>. USE DEF Inv
<1>1. /\ Len(blocks) \in Nat /\ Len(blocks') \in Nat /\ Len(arrivals) \in Nat
      /\ Len(blocks') >= Len(blocks)
      /\ r.key \in Keys /\ r = [type |-> r.type, key |-> r.key]
  <2>1. Extended(r) \/ NewLast(r)
    BY AddShape
  <2>2. /\ Len(blocks) \in Nat /\ Len(arrivals) \in Nat
        /\ r.key \in Keys /\ r = [type |-> r.type, key |-> r.key]
    BY LenProperties DEF TypeOK, Routes
  <2>3. QED
    BY <2>1, <2>2 DEF Extended, NewLast
<1>2. /\ arrivals' \in Seq(Routes)
      /\ Len(arrivals') = item
      /\ \A i \in 1..Len(arrivals) : arrivals'[i] = arrivals[i]
      /\ arrivals'[item] = r
  BY AppendProperties DEF Add, TypeOK
<1>3. TypeOK'
  BY <1>2, AddShape DEF TypeOK
<1>4. \A b \in 1..Len(blocks), k \in Keys : List(b, k) \in Seq(Nat)
  BY ListType
<1>5. \A b \in 1..Len(blocks'), k \in Keys : NextList(b, k) \in Seq(Nat)
  BY AddEntries
<1>. HIDE DEF item
<1>6. ASSUME NEW b \in 1..Len(blocks'), NEW k \in Keys, NEW p \in 1..Len(NextList(b, k))
      PROVE  /\ NextList(b, k)[p] \in 1..Len(arrivals')
             /\ arrivals'[NextList(b, k)[p]] = [type |-> blocks'[b].type, key |-> k]
  <2>1. CASE OldEntry(b, k, p)
    <3>1. /\ List(b, k)[p] \in 1..Len(arrivals)
          /\ arrivals[List(b, k)[p]] = [type |-> blocks[b].type, key |-> k]
          /\ NextList(b, k)[p] = List(b, k)[p]
          /\ blocks'[b].type = blocks[b].type
      BY <2>1, AddEntries DEF OldEntry, Routed
    <3>2. QED
      BY <1>1, <1>2, <3>1 DEF item
  <2>2. CASE NewEntry(r, b, k, p)
    <3>1. NextList(b, k)[p] = item /\ k = r.key /\ blocks'[b].type = r.type
      BY <2>2, AddEntries DEF NewEntry, item
    <3>2. QED
      BY <1>1, <1>2, <3>1 DEF item
  <2>3. QED
    BY <2>1, <2>2, AddEntries
<1>7. Routed'
  BY <1>6 DEF Routed, List, NextList
<1>8. ASSUME NEW b \in 1..Len(blocks'), NEW k \in Keys,
             NEW p \in 1..Len(NextList(b, k)), NEW q \in 1..Len(NextList(b, k)), p < q
      PROVE  NextList(b, k)[p] < NextList(b, k)[q]
  <2>1. OldEntry(b, k, p)
    BY <1>1, <1>5, <1>8, AddEntries DEF NewEntry
  <2>2. List(b, k)[p] < item
    <3>1. List(b, k)[p] \in 1..Len(arrivals)
      BY <2>1 DEF OldEntry, Routed
    <3>2. QED
      BY <1>1, <3>1 DEF item
  <2>3. CASE OldEntry(b, k, q)
    BY <1>8, <2>1, <2>3 DEF OldEntry, ListsInOrder
  <2>4. CASE NewEntry(r, b, k, q)
    BY <2>1, <2>2, <2>4 DEF OldEntry, NewEntry, item
  <2>5. QED
    BY <2>3, <2>4, AddEntries
<1>9. ListsInOrder'
  BY <1>8 DEF ListsInOrder, List, NextList
<1>10. ASSUME NEW b \in 1..Len(blocks'), NEW c \in 1..Len(blocks'), b < c,
              NEW k \in Keys, NEW m \in Keys,
              NEW p \in 1..Len(NextList(b, k)), NEW q \in 1..Len(NextList(c, m))
       PROVE  NextList(b, k)[p] < NextList(c, m)[q]
  <2>1. OldEntry(b, k, p)
    BY <1>1, <1>10, AddEntries DEF NewEntry
  <2>2. List(b, k)[p] < item
    <3>1. List(b, k)[p] \in 1..Len(arrivals)
      BY <2>1 DEF OldEntry, Routed
    <3>2. QED
      BY <1>1, <3>1 DEF item
  <2>3. CASE OldEntry(c, m, q)
    BY <1>10, <2>1, <2>3 DEF OldEntry, BlocksInOrder
  <2>4. CASE NewEntry(r, c, m, q)
    BY <2>1, <2>2, <2>4 DEF OldEntry, NewEntry, item
  <2>5. QED
    BY <2>3, <2>4, AddEntries
<1>11. BlocksInOrder'
  BY <1>10 DEF BlocksInOrder, List, NextList
<1>12. ASSUME NEW b \in 1..Len(blocks')
       PROVE  /\ \E k \in Keys : NextList(b, k) # <<>>
              /\ \A k \in Keys : blocks'[b].queues[k].inProgress =>
                                    b = 1 /\ NextList(b, k) # <<>>
  <2>1. CASE b \in 1..Len(blocks)
    <3>1. \A k \in Keys : List(b, k) # <<>> => NextList(b, k) # <<>>
      <4>1. ASSUME NEW k \in Keys, List(b, k) # <<>>
            PROVE  NextList(b, k) # <<>>
        <5>1. Len(List(b, k)) \in Nat \ {0}
          BY <1>4, <2>1, <4>1, EmptySeq
        <5>2. Len(NextList(b, k)) >= Len(List(b, k))
          BY <2>1, AddEntries
        <5>3. QED
          BY <1>5, <5>1, <5>2, EmptySeq
      <4>2. QED
        BY <4>1
    <3>2. \A k \in Keys : blocks'[b].queues[k].inProgress = blocks[b].queues[k].inProgress
      BY <2>1, AddEntries
    <3>3. QED
      BY <2>1, <3>1, <3>2 DEF BlocksInUse
  <2>2. CASE b \notin 1..Len(blocks)
    <3>1. b > Len(blocks)
      BY <1>1, <2>2
    <3>2. QED
      BY <1>1, <3>1, AddEntries
  <2>3. QED
    BY <2>1, <2>2
<1>13. BlocksInUse'
  BY <1>12 DEF BlocksInUse, List, NextList
<1>14. QED
  BY <1>3, <1>7, <1>9, <1>11, <1>13

\* Only lists of the first block lose entries from their front.
Offset(off, b, k) == IF b = 1 THEN off[k] ELSE 0

\* A step that removes entries but reorders none keeps the invariant: every entry of a
\* list of the new block b was in block b + db, further back by the list's own offset.
LEMMA RemovalInv ==
    ASSUME Inv, blocks' \in Seq(Block), arrivals' = arrivals,
           NEW db \in Nat, NEW off \in [Keys -> Nat],
           Len(blocks') + db = Len(blocks),
           \A b \in 1..Len(blocks') : blocks'[b].type = blocks[b + db].type,
           \A b \in 1..Len(blocks'), k \in Keys : \A p \in 1..Len(NextList(b, k)) :
              /\ p + Offset(off, b, k) \in 1..Len(List(b + db, k))
              /\ NextList(b, k)[p] = List(b + db, k)[p + Offset(off, b, k)]
    PROVE  Routed' /\ ListsInOrder' /\ BlocksInOrder'
<1>. USE DEF Inv
<1>1. \A b \in 1..Len(blocks') : b \in Nat /\ b + db \in 1..Len(blocks)
  <2>1. Len(blocks') \in Nat /\ Len(blocks) \in Nat
    BY LenProperties DEF TypeOK
  <2>2. QED
    BY <2>1
<1>2. \A b \in 1..Len(blocks'), k \in Keys : NextList(b, k) \in Seq(Nat)
  <2>1. ASSUME NEW b \in 1..Len(blocks'), NEW k \in Keys
        PROVE  NextList(b, k) \in Seq(Nat)
    <3>1. blocks'[b] \in Block
      BY ElementOfSeq
    <3>2. QED
      BY <3>1 DEF Block, Queue, NextList
  <2>2. QED
    BY <2>1
<1>3. ASSUME NEW b \in 1..Len(blocks'), NEW k \in Keys, NEW p \in 1..Len(NextList(b, k))
      PROVE  /\ NextList(b, k)[p] \in 1..Len(arrivals)
             /\ arrivals[NextList(b, k)[p]] = [type |-> blocks'[b].type, key |-> k]
  <2>1. PICK x \in 1..Len(List(b + db, k)) : NextList(b, k)[p] = List(b + db, k)[x]
    OBVIOUS
  <2>2. /\ List(b + db, k)[x] \in 1..Len(arrivals)
        /\ arrivals[List(b + db, k)[x]] = [type |-> blocks[b + db].type, key |-> k]
    BY <1>1 DEF Routed
  <2>3. QED
    BY <2>1, <2>2
<1>4. Routed'
  BY <1>3 DEF Routed, List, NextList
<1>5. ASSUME NEW b \in 1..Len(blocks'), NEW k \in Keys,
             NEW p \in 1..Len(NextList(b, k)), NEW q \in 1..Len(NextList(b, k)), p < q
      PROVE  NextList(b, k)[p] < NextList(b, k)[q]
  <2>. DEFINE o == Offset(off, b, k)
  <2>1. o \in Nat
    BY DEF Offset
  <2>2. /\ p + o \in 1..Len(List(b + db, k)) /\ q + o \in 1..Len(List(b + db, k))
        /\ NextList(b, k)[p] = List(b + db, k)[p + o]
        /\ NextList(b, k)[q] = List(b + db, k)[q + o]
    OBVIOUS
  <2>3. p + o < q + o
    BY <1>2, <1>5, <2>1, LenProperties
  <2>. HIDE DEF o
  <2>4. QED
    BY <1>1, <2>1, <2>2, <2>3 DEF ListsInOrder
<1>6. ListsInOrder'
  BY <1>5 DEF ListsInOrder, List, NextList
<1>7. ASSUME NEW b \in 1..Len(blocks'), NEW c \in 1..Len(blocks'), b < c,
             NEW k \in Keys, NEW m \in Keys,
             NEW p \in 1..Len(NextList(b, k)), NEW q \in 1..Len(NextList(c, m))
      PROVE  NextList(b, k)[p] < NextList(c, m)[q]
  <2>1. PICK x \in 1..Len(List(b + db, k)) : NextList(b, k)[p] = List(b + db, k)[x]
    OBVIOUS
  <2>2. PICK y \in 1..Len(List(c + db, m)) : NextList(c, m)[q] = List(c + db, m)[y]
    OBVIOUS
  <2>3. b + db < c + db
    BY <1>1, <1>7
  <2>4. QED
    BY <1>1, <2>1, <2>2, <2>3 DEF BlocksInOrder
<1>8. BlocksInOrder'
  BY <1>7 DEF BlocksInOrder, List, NextList
<1>9. QED
  BY <1>4, <1>6, <1>8

\* get() keeps the invariant: it changes no list.
LEMMA GetInv ==
    ASSUME Inv, NEW key \in Keys, Get(key)
    PROVE  Inv'
<1>. USE DEF Inv
<1>. DEFINE off == [k \in Keys |-> 0]
<1>1. /\ arrivals' = arrivals /\ blocks' \in Seq(Block)
      /\ Len(blocks') = Len(blocks)
      /\ \A b \in 1..Len(blocks) : blocks'[b].type = blocks[b].type
      /\ \A b \in 1..Len(blocks), k \in Keys : NextList(b, k) = List(b, k)
      /\ \A b \in 1..Len(blocks), k \in Keys :
            blocks'[b].queues[k].inProgress
               = IF b = 1 /\ k = key THEN TRUE ELSE blocks[b].queues[k].inProgress
  <2>1. TypeOK
    OBVIOUS
  <2>2. arrivals' = arrivals
    BY DEF Get
  <2>. HIDE DEF Inv
  <2>3. QED
    BY <2>1, <2>2, GetShape
<1>2. Len(blocks) \in Nat
  BY LenProperties DEF TypeOK
<1>3. TypeOK'
  BY <1>1 DEF TypeOK
<1>4. Routed' /\ ListsInOrder' /\ BlocksInOrder'
  <2>1. off \in [Keys -> Nat] /\ 0 \in Nat /\ Len(blocks') + 0 = Len(blocks)
    BY <1>1, <1>2
  <2>2. ASSUME NEW b \in 1..Len(blocks'), NEW k \in Keys, NEW p \in 1..Len(NextList(b, k))
        PROVE  /\ p + Offset(off, b, k) \in 1..Len(List(b + 0, k))
               /\ NextList(b, k)[p] = List(b + 0, k)[p + Offset(off, b, k)]
    <3>1. b + 0 = b /\ Offset(off, b, k) = 0 /\ p + 0 = p
      <4>1. List(b, k) \in Seq(Nat) /\ NextList(b, k) = List(b, k)
        BY <1>1, ListType
      <4>2. QED
        BY <1>1, <1>2, <4>1, LenProperties DEF Offset
    <3>2. NextList(b, k) = List(b, k)
      BY <1>1
    <3>. HIDE DEF off
    <3>3. QED
      BY <3>1, <3>2
  <2>3. ASSUME NEW b \in 1..Len(blocks') PROVE blocks'[b].type = blocks[b + 0].type
    <3>1. b + 0 = b
      BY <1>1, <1>2
    <3>2. blocks'[b].type = blocks[b].type
      BY <1>1
    <3>3. QED
      BY <3>1, <3>2
  <2>. HIDE DEF off
  <2>4. QED
    BY <1>1, <2>1, <2>2, <2>3, RemovalInv
<1>5. BlocksInUse'
  <2>1. List(1, key) # <<>> /\ Len(blocks) > 0
    BY GetShape
  <2>2. ASSUME NEW b \in 1..Len(blocks')
        PROVE  /\ \E k \in Keys : NextList(b, k) # <<>>
               /\ \A k \in Keys : blocks'[b].queues[k].inProgress =>
                                     b = 1 /\ NextList(b, k) # <<>>
    <3>1. /\ \E k \in Keys : List(b, k) # <<>>
          /\ \A k \in Keys : blocks[b].queues[k].inProgress => b = 1 /\ List(b, k) # <<>>
          /\ \A k \in Keys : NextList(b, k) = List(b, k)
      BY <1>1 DEF BlocksInUse
    <3>2. ASSUME NEW k \in Keys, blocks'[b].queues[k].inProgress
          PROVE  b = 1 /\ NextList(b, k) # <<>>
      <4>1. CASE b = 1 /\ k = key
        BY <2>1, <3>1, <4>1
      <4>2. CASE ~(b = 1 /\ k = key)
        <5>1. blocks'[b].queues[k].inProgress = blocks[b].queues[k].inProgress
          BY <1>1, <4>2
        <5>2. QED
          BY <3>1, <3>2, <5>1
      <4>3. QED
        BY <4>1, <4>2
    <3>3. QED
      BY <3>1, <3>2
  <2>3. QED
    BY <2>2 DEF BlocksInUse, List, NextList
<1>6. QED
  BY <1>3, <1>4, <1>5

\* ack() keeps the invariant: it takes the head off a list, or drops an emptied block.
LEMMA AckInv ==
    ASSUME Inv, NEW key \in Keys, Ack(key)
    PROVE  Inv'
<1>. USE DEF Inv
<1>1. /\ arrivals' = arrivals /\ blocks' \in Seq(Block)
      /\ Len(blocks) \in Nat /\ Len(blocks') \in Nat /\ 1 \in 1..Len(blocks)
      /\ Shortened(key) \/ Dropped(key)
  <2>1. blocks' \in Seq(Block) /\ Len(blocks) > 0 /\ (Shortened(key) \/ Dropped(key))
    BY AckShape
  <2>2. Len(blocks) \in Nat
    BY LenProperties DEF TypeOK
  <2>3. QED
    BY <2>1, <2>2, LenProperties DEF Ack
<1>2. TypeOK'
  BY <1>1 DEF TypeOK
<1>3. CASE Shortened(key)
  <2>. DEFINE off == [k \in Keys |-> IF k = key THEN 1 ELSE 0]
  <2>1. /\ Len(blocks') = Len(blocks)
        /\ \E k \in Keys : NextList(1, k) # <<>>
        /\ \A b \in 1..Len(blocks), k \in Keys :
              /\ blocks'[b].type = blocks[b].type
              /\ NextList(b, k) = IF b = 1 /\ k = key THEN Tail(List(b, k)) ELSE List(b, k)
              /\ blocks'[b].queues[k].inProgress
                    = IF b = 1 /\ k = key THEN FALSE ELSE blocks[b].queues[k].inProgress
    BY <1>3 DEF Shortened, List, NextList
  <2>2. off \in [Keys -> Nat] /\ 0 \in Nat /\ Len(blocks') + 0 = Len(blocks)
    BY <1>1, <2>1
  <2>3. ASSUME NEW b \in 1..Len(blocks'), NEW k \in Keys, NEW p \in 1..Len(NextList(b, k))
        PROVE  /\ p + Offset(off, b, k) \in 1..Len(List(b + 0, k))
               /\ NextList(b, k)[p] = List(b + 0, k)[p + Offset(off, b, k)]
    <3>1. b + 0 = b /\ b \in 1..Len(blocks) /\ List(b, k) \in Seq(Nat)
      BY <1>1, <2>1, ListType
    <3>2. CASE b = 1 /\ k = key
      <4>1. List(b, k) # <<>> /\ NextList(b, k) = Tail(List(b, k))
        BY <2>1, <3>1, <3>2, AckShape
      <4>2. /\ Len(NextList(b, k)) = Len(List(b, k)) - 1
            /\ NextList(b, k)[p] = List(b, k)[p + 1]
        BY <3>1, <4>1, HeadTailProperties
      <4>3. Offset(off, b, k) = 1
        BY <3>2 DEF Offset
      <4>4. Len(List(b, k)) \in Nat
        BY <3>1
      <4>5. QED
        BY <3>1, <4>2, <4>3, <4>4
    <3>3. CASE ~(b = 1 /\ k = key)
      <4>1. Offset(off, b, k) = 0 /\ NextList(b, k) = List(b, k)
        BY <2>1, <3>1, <3>3 DEF Offset
      <4>2. p + 0 = p
        BY <3>1, <4>1, LenProperties
      <4>3. QED
        BY <3>1, <4>1, <4>2
    <3>4. QED
      BY <3>2, <3>3
  <2>4. ASSUME NEW b \in 1..Len(blocks') PROVE blocks'[b].type = blocks[b + 0].type
    <3>1. b + 0 = b
      BY <1>1
    <3>2. blocks'[b].type = blocks[b].type
      BY <2>1
    <3>3. QED
      BY <3>1, <3>2
  <2>. HIDE DEF off
  <2>5. Routed' /\ ListsInOrder' /\ BlocksInOrder'
    BY <1>1, <2>2, <2>3, <2>4, RemovalInv
  <2>6. ASSUME NEW b \in 1..Len(blocks')
        PROVE  /\ \E k \in Keys : NextList(b, k) # <<>>
               /\ \A k \in Keys : blocks'[b].queues[k].inProgress =>
                                     b = 1 /\ NextList(b, k) # <<>>
    <3>1. /\ \E k \in Keys : List(b, k) # <<>>
          /\ \A k \in Keys : blocks[b].queues[k].inProgress => b = 1 /\ List(b, k) # <<>>
      BY <2>1 DEF BlocksInUse
    <3>2. \E k \in Keys : NextList(b, k) # <<>>
      <4>1. CASE b = 1
        BY <2>1, <4>1
      <4>2. CASE b # 1
        BY <2>1, <3>1, <4>2
      <4>3. QED
        BY <4>1, <4>2
    <3>3. ASSUME NEW k \in Keys, blocks'[b].queues[k].inProgress
          PROVE  b = 1 /\ NextList(b, k) # <<>>
      <4>1. CASE b = 1 /\ k = key
        <5>1. blocks'[b].queues[k].inProgress = FALSE
          BY <2>1, <4>1
        <5>2. QED
          BY <3>3, <5>1
      <4>2. CASE ~(b = 1 /\ k = key)
        <5>1. /\ blocks'[b].queues[k].inProgress = blocks[b].queues[k].inProgress
              /\ NextList(b, k) = List(b, k)
          BY <2>1, <4>2
        <5>2. QED
          BY <3>1, <3>3, <5>1
      <4>3. QED
        BY <4>1, <4>2
    <3>4. QED
      BY <3>2, <3>3
  <2>7. BlocksInUse'
    BY <2>6 DEF BlocksInUse, List, NextList
  <2>8. QED
    BY <1>2, <2>5, <2>7
<1>4. CASE Dropped(key)
  <2>. DEFINE off == [k \in Keys |-> 0]
  <2>1. /\ Len(blocks') = Len(blocks) - 1
        /\ \A b \in 1..Len(blocks') : blocks'[b] = blocks[b + 1]
        /\ \A b \in 1..Len(blocks'), k \in Keys : NextList(b, k) = List(b + 1, k)
    BY <1>4 DEF Dropped, List, NextList
  <2>2. off \in [Keys -> Nat] /\ 1 \in Nat /\ Len(blocks') + 1 = Len(blocks)
    BY <1>1, <2>1
  <2>3. ASSUME NEW b \in 1..Len(blocks'), NEW k \in Keys, NEW p \in 1..Len(NextList(b, k))
        PROVE  /\ p + Offset(off, b, k) \in 1..Len(List(b + 1, k))
               /\ NextList(b, k)[p] = List(b + 1, k)[p + Offset(off, b, k)]
    <3>1. b + 1 \in 1..Len(blocks)
      BY <1>1, <2>1
    <3>2. NextList(b, k) = List(b + 1, k) /\ List(b + 1, k) \in Seq(Nat)
      BY <2>1, <3>1, ListType
    <3>3. Offset(off, b, k) = 0 /\ p + 0 = p
      BY <3>2, LenProperties DEF Offset
    <3>4. QED
      BY <3>2, <3>3
  <2>4. \A b \in 1..Len(blocks') : blocks'[b].type = blocks[b + 1].type
    BY <2>1
  <2>. HIDE DEF off
  <2>5. Routed' /\ ListsInOrder' /\ BlocksInOrder'
    BY <1>1, <2>2, <2>3, <2>4, RemovalInv
  <2>6. ASSUME NEW b \in 1..Len(blocks')
        PROVE  /\ \E k \in Keys : NextList(b, k) # <<>>
               /\ \A k \in Keys : ~blocks'[b].queues[k].inProgress
    <3>1. b + 1 \in 1..Len(blocks) /\ b + 1 # 1
      BY <1>1, <2>1
    <3>2. QED
      BY <2>1, <3>1 DEF BlocksInUse
  <2>7. BlocksInUse'
    BY <2>6 DEF BlocksInUse, List, NextList
  <2>8. QED
    BY <1>2, <2>5, <2>7
<1>5. QED
  BY <1>1, <1>3, <1>4

\* The invariant holds in every reachable state of ParallelQueue.
THEOREM Invariance == Spec => []Inv
<1>1. Init => Inv
  <2>1. <<>> \in Seq(Routes) /\ <<>> \in Seq(Block) /\ Len(<<>>) = 0
    BY EmptySeq
  <2>2. QED
    BY <2>1 DEF Init, Inv, TypeOK, Routed, ListsInOrder, BlocksInOrder, BlocksInUse
<1>2. Inv /\ [Next]_vars => Inv'
  <2>. SUFFICES ASSUME Inv, [Next]_vars PROVE Inv'
    OBVIOUS
  <2>1. ASSUME NEW r \in Routes, Add(r) PROVE Inv'
    BY <2>1, AddInv
  <2>2. ASSUME NEW k \in Keys, Get(k) PROVE Inv'
    BY <2>2, GetInv
  <2>3. ASSUME NEW k \in Keys, Ack(k) PROVE Inv'
    BY <2>3, AckInv
  <2>4. CASE UNCHANGED vars
    <3>1. /\ arrivals' = arrivals /\ blocks' = blocks
          /\ TypeOK /\ Routed /\ ListsInOrder /\ BlocksInOrder /\ BlocksInUse
      BY <2>4 DEF vars, Inv
    <3>2. TypeOK'
      BY <3>1 DEF TypeOK
    <3>3. Routed'
      BY <3>1 DEF Routed, List
    <3>4. ListsInOrder'
      BY <3>1 DEF ListsInOrder, List
    <3>5. BlocksInOrder'
      <4>1. \A b, k : List(b, k)' = List(b, k)
        BY <3>1 DEF List
      <4>2. QED
        BY <3>1, <4>1 DEF BlocksInOrder
    <3>6. BlocksInUse'
      BY <3>1 DEF BlocksInUse, List
    <3>7. QED
      BY <3>2, <3>3, <3>4, <3>5, <3>6 DEF Inv
  <2>5. QED
    BY <2>1, <2>2, <2>3, <2>4 DEF Next
<1>3. QED
  BY <1>1, <1>2, PTL DEF Spec

\* Items handed out at the same time never conflict: they are heads of different queues
\* of one block.
THEOREM MutualExclusion == Spec => []Exclusive
<1>1. Inv => Exclusive
  <2>. SUFFICES ASSUME Inv, NEW i \in Running, NEW j \in Running, i # j
                PROVE  ~Abstract!Conflict(i, j)
    BY DEF Exclusive, Abstract!Exclusive
  <2>1. PICK k \in Keys : blocks[1].queues[k].inProgress /\ List(1, k)[1] = i
    BY DEF Running, Busy
  <2>2. PICK m \in Keys : blocks[1].queues[m].inProgress /\ List(1, m)[1] = j
    BY DEF Running, Busy
  <2>3. 1 \in 1..Len(blocks)
    <3>1. blocks # <<>> /\ blocks \in Seq(Block)
      BY DEF Running, Inv, TypeOK
    <3>2. QED
      BY <3>1, EmptySeq
  <2>4. ASSUME NEW q \in Keys, blocks[1].queues[q].inProgress
        PROVE  arrivals[List(1, q)[1]] = [type |-> blocks[1].type, key |-> q]
    <3>1. List(1, q) # <<>> /\ List(1, q) \in Seq(Nat)
      BY <2>3, <2>4, ListType DEF Inv, BlocksInUse
    <3>2. 1 \in 1..Len(List(1, q))
      BY <3>1, EmptySeq
    <3>3. QED
      BY <2>3, <3>2 DEF Inv, Routed
  <2>5. k # m
    BY <2>1, <2>2
  <2>6. /\ arrivals[i].type = blocks[1].type /\ arrivals[i].key = k
        /\ arrivals[j].type = blocks[1].type /\ arrivals[j].key = m
    <3>1. /\ arrivals[i] = [type |-> blocks[1].type, key |-> k]
          /\ arrivals[j] = [type |-> blocks[1].type, key |-> m]
      BY <2>1, <2>2, <2>4
    <3>2. QED
      BY <3>1
  <2>7. QED
    BY <2>5, <2>6 DEF Abstract!Conflict
<1>2. QED
  BY <1>1, Invariance, PTL

\* An item is in one place only.
LEMMA OnePlace ==
    ASSUME Inv,
           NEW b \in 1..Len(blocks), NEW k \in Keys, NEW p \in 1..Len(List(b, k)),
           NEW c \in 1..Len(blocks), NEW m \in Keys, NEW q \in 1..Len(List(c, m)),
           List(b, k)[p] = List(c, m)[q]
    PROVE  b = c /\ k = m /\ p = q
<1>1. /\ Len(blocks) \in Nat /\ List(b, k) \in Seq(Nat) /\ List(c, m) \in Seq(Nat)
      /\ Len(List(b, k)) \in Nat /\ Len(List(c, m)) \in Nat
  BY ListType, LenProperties DEF Inv, TypeOK
<1>2. List(b, k)[p] \in Nat /\ List(c, m)[q] \in Nat
  BY <1>1, ElementOfSeq
<1>3. b = c
  <2>1. ~(b < c) /\ ~(c < b)
    BY <1>2 DEF Inv, BlocksInOrder
  <2>2. QED
    BY <1>1, <2>1
<1>4. k = m
  <2>1. /\ arrivals[List(b, k)[p]] = [type |-> blocks[b].type, key |-> k]
        /\ arrivals[List(c, m)[q]] = [type |-> blocks[c].type, key |-> m]
    BY DEF Inv, Routed
  <2>2. [type |-> blocks[b].type, key |-> k].key = [type |-> blocks[c].type, key |-> m].key
    BY <2>1
  <2>3. QED
    BY <2>2
<1>5. p = q
  <2>1. ~(p < q) /\ ~(q < p)
    BY <1>2, <1>3, <1>4 DEF Inv, ListsInOrder
  <2>2. QED
    BY <1>1, <1>3, <1>4, <2>1
<1>6. QED
  BY <1>3, <1>4, <1>5

\* Arrival: the item just added is open, and nothing else changes.
LEMMA AddMapsToArrive ==
    ASSUME Inv, Inv', NEW r \in Routes, Add(r)
    PROVE  Abstract!Arrive(r)
<1>. DEFINE item == Len(arrivals) + 1
<1>1. /\ Len(arrivals) \in Nat /\ Len(arrivals') = item /\ item \in Nat
      /\ Len(blocks) \in Nat /\ Len(blocks') \in Nat
      /\ arrivals' = Append(arrivals, r)
      /\ r.key \in Keys
  BY LenProperties, AppendProperties DEF Add, Inv, TypeOK, Routes
<1>2. /\ TypeOK /\ Routed /\ BlocksInUse
      /\ Extended(r) \/ NewLast(r)
      /\ Len(blocks') >= Len(blocks)
  <2>1. TypeOK /\ Routed /\ BlocksInUse
    BY DEF Inv
  <2>2. Extended(r) \/ NewLast(r)
    BY <2>1, AddShape
  <2>3. /\ Extended(r) => Len(blocks') = Len(blocks)
        /\ NewLast(r) => Len(blocks') = Len(blocks) + 1
    BY DEF Extended, NewLast
  <2>4. QED
    BY <1>1, <2>1, <2>2, <2>3
<1>. HIDE DEF item
<1>3. \A b \in 1..Len(blocks), k \in Keys :
        /\ NextList(b, k) \in Seq(Nat) /\ List(b, k) \in Seq(Nat)
        /\ Len(NextList(b, k)) >= Len(List(b, k))
        /\ \A p \in 1..Len(List(b, k)) : NextList(b, k)[p] = List(b, k)[p]
        /\ blocks'[b].queues[k].inProgress = blocks[b].queues[k].inProgress
  <2>. SUFFICES ASSUME NEW b \in 1..Len(blocks), NEW k \in Keys
                PROVE  /\ NextList(b, k) \in Seq(Nat) /\ List(b, k) \in Seq(Nat)
                       /\ Len(NextList(b, k)) >= Len(List(b, k))
                       /\ \A p \in 1..Len(List(b, k)) : NextList(b, k)[p] = List(b, k)[p]
                       /\ blocks'[b].queues[k].inProgress = blocks[b].queues[k].inProgress
    OBVIOUS
  <2>1. /\ NextList(b, k) \in Seq(Nat) /\ List(b, k) \in Seq(Nat)
        /\ Len(NextList(b, k)) >= Len(List(b, k))
        /\ blocks'[b].queues[k].inProgress = blocks[b].queues[k].inProgress
    <3>1. b \in 1..Len(blocks')
      BY <1>1, <1>2
    <3>2. QED
      BY <1>2, <3>1, AddEntries, ListType
  <2>2. \A p \in 1..Len(List(b, k)) : NextList(b, k)[p] = List(b, k)[p]
    <3>1. CASE Extended(r)
      <4>1. \/ NextList(b, k) = Append(List(b, k), item)
            \/ NextList(b, k) = List(b, k)
        BY <3>1 DEF Extended, NextList, List, item
      <4>2. CASE NextList(b, k) = Append(List(b, k), item)
        BY <1>1, <2>1, <4>2, AppendProperties
      <4>3. CASE NextList(b, k) = List(b, k)
        BY <4>3
      <4>4. QED
        BY <4>1, <4>2, <4>3
    <3>2. CASE NewLast(r)
      BY <3>2 DEF NewLast, NextList, List
    <3>3. QED
      BY <1>2, <3>1, <3>2
  <2>3. QED
    BY <2>1, <2>2
<1>4. /\ Len(blocks') \in 1..Len(blocks')
      /\ \E p \in 1..Len(NextList(Len(blocks'), r.key)) :
            NextList(Len(blocks'), r.key)[p] = item
  <2>1. CASE Extended(r)
    <3>1. Len(blocks) \in 1..Len(blocks) /\ Len(blocks') = Len(blocks)
      <4>1. Len(blocks) > 0 /\ Len(blocks') = Len(blocks)
        BY <2>1 DEF Extended
      <4>2. Len(blocks) \in Nat
        BY <1>1
      <4>3. QED
        BY ONLY <4>1, <4>2
    <3>2. NextList(Len(blocks), r.key) = Append(List(Len(blocks), r.key), item)
      BY <1>1, <2>1, <3>1 DEF Extended, NextList, List, item
    <3>3. List(Len(blocks), r.key) \in Seq(Nat)
      BY <1>1, <1>3, <3>1
    <3> DEFINE l == List(Len(blocks), r.key)
    <3>4. Len(l) \in Nat
      BY <3>3, LenProperties
    <3>5. Len(Append(l, item)) = Len(l) + 1 /\ Append(l, item)[Len(l) + 1] = item
      BY <3>3, <1>1, AppendProperties
    <3> HIDE DEF l
    <3>6. Len(l) + 1 \in 1..Len(Append(l, item))
      BY <3>4, <3>5
    <3>7. NextList(Len(blocks'), r.key) = Append(l, item)
      BY <3>1, <3>2 DEF l
    <3>8. QED
      BY <3>1, <3>5, <3>6, <3>7
  <2>2. CASE NewLast(r)
    <3>1. NextList(Len(blocks'), r.key) = <<item>> /\ Len(blocks') \in 1..Len(blocks')
      BY <1>1, <2>2 DEF NewLast, NextList, item
    <3>2. QED
      BY <3>1
  <2>3. QED
    BY <1>2, <2>1, <2>2
<1>5. Open' = Open \union {item}
  <2>1. ASSUME NEW i \in Open' PROVE i \in Open \union {item}
    <3>0. PICK b \in 1..Len(blocks'), k \in Keys :
             \E p \in 1..Len(NextList(b, k)) : NextList(b, k)[p] = i
      BY <2>1 DEF Open, List, NextList
    <3>1. PICK p \in 1..Len(NextList(b, k)) : NextList(b, k)[p] = i
      BY <3>0
    <3>2. CASE OldEntry(b, k, p)
      <4>1. List(b, k)[p] = i
        BY <3>1, <3>2 DEF OldEntry
      <4>2. i \in 1..Len(arrivals)
        BY <1>2, <3>2, <4>1 DEF OldEntry, Routed
      <4>3. QED
        BY <3>2, <4>1, <4>2 DEF OldEntry, Open
    <3>3. CASE NewEntry(r, b, k, p)
      BY <3>1, <3>3 DEF NewEntry, item
    <3>4. QED
      BY <1>2, <3>2, <3>3, AddEntries
  <2>2. ASSUME NEW i \in Open PROVE i \in Open'
    <3>0. PICK b \in 1..Len(blocks), k \in Keys :
             \E p \in 1..Len(List(b, k)) : List(b, k)[p] = i
      BY DEF Open
    <3>1. PICK p \in 1..Len(List(b, k)) : List(b, k)[p] = i
      BY <3>0
    <3>2. /\ b \in 1..Len(blocks')
          /\ p \in 1..Len(NextList(b, k)) /\ NextList(b, k)[p] = i
      <4>1. /\ Len(List(b, k)) \in Nat /\ Len(NextList(b, k)) \in Nat
            /\ Len(NextList(b, k)) >= Len(List(b, k))
        BY <1>3, LenProperties
      <4>2. NextList(b, k)[p] = i
        BY <1>3, <3>1
      <4>3. QED
        BY <1>1, <1>2, <4>1, <4>2
    <3>3. i \in 1..Len(arrivals')
      BY <1>1 DEF Open, item
    <3>4. QED
      BY <3>2, <3>3 DEF Open, List, NextList
  <2>3. item \in Open'
    <3>1. item \in 1..Len(arrivals')
      BY <1>1 DEF item
    <3>2. QED
      BY <1>1, <1>4, <3>1 DEF Open, List, NextList
  <2>4. QED
    BY <2>1, <2>2, <2>3
<1>6. Running' = Running
  <2>1. CASE Len(blocks) > 0
    <3>1. 1 \in 1..Len(blocks) /\ blocks # <<>> /\ blocks' # <<>>
      BY <1>1, <1>2, <2>1
    <3>2. \A k \in Keys : blocks'[1].queues[k].inProgress = blocks[1].queues[k].inProgress
      BY <1>3, <3>1
    <3>3. Busy(blocks') = Busy(blocks)
      BY <3>1, <3>2 DEF Busy
    <3>4. ASSUME NEW k \in Busy(blocks)
          PROVE  NextList(1, k)[1] = List(1, k)[1] /\ List(1, k)[1] \in 1..Len(arrivals)
      <4>1. k \in Keys /\ blocks[1].queues[k].inProgress
        BY <3>1 DEF Busy
      <4>2. List(1, k) # <<>> /\ List(1, k) \in Seq(Nat)
        <5>1. List(1, k) \in Seq(Nat)
          BY <1>3, <3>1, <4>1
        <5>2. List(1, k) # <<>>
          BY <1>2, <3>1, <4>1 DEF BlocksInUse
        <5>3. QED
          BY <5>1, <5>2
      <4>3. 1 \in 1..Len(List(1, k))
        BY <4>2, EmptySeq
      <4>4. List(1, k)[1] \in 1..Len(arrivals)
        BY <1>2, <3>1, <4>1, <4>3 DEF Routed
      <4>5. QED
        BY <1>3, <3>1, <4>1, <4>3, <4>4
    <3>5. 1..Len(arrivals) \subseteq 1..Len(arrivals')
      BY <1>1 DEF item
    <3>6. QED
      BY <3>1, <3>3, <3>4, <3>5 DEF Running, List, NextList
  <2>2. CASE Len(blocks) = 0
    <3>1. blocks = <<>>
      BY <2>2, EmptySeq DEF Inv, TypeOK
    <3>2. NewLast(r) /\ Len(blocks') = 1
      BY <1>2, <2>2 DEF Extended, NewLast
    <3>3. \A k \in Keys : ~blocks'[1].queues[k].inProgress
      BY <1>2, <2>2, <3>2, AddEntries
    <3>4. Busy(blocks') = {}
      BY <3>3 DEF Busy
    <3>5. QED
      BY <3>1, <3>4 DEF Running
  <2>3. QED
    BY <1>1, <2>1, <2>2
<1>7. QED
  BY <1>1, <1>5, <1>6 DEF Abstract!Arrive, item

\* get(): the head it hands out is open, not running, and no earlier open item conflicts
\* with it, because its block is the first and it is the first of its list.
LEMMA GetMapsToStart ==
    ASSUME Inv, Inv', NEW key \in Keys, Get(key)
    PROVE  Abstract!Start(List(1, key)[1]) /\ List(1, key)[1] \in Open
<1>. DEFINE i == List(1, key)[1]
<1>1. /\ TypeOK /\ Len(blocks) \in Nat /\ 1 \in 1..Len(blocks)
      /\ blocks # <<>> /\ blocks' # <<>>
      /\ List(1, key) # <<>> /\ ~blocks[1].queues[key].inProgress
      /\ arrivals' = arrivals /\ Len(blocks') = Len(blocks)
      /\ \A b \in 1..Len(blocks), k \in Keys : NextList(b, k) = List(b, k)
      /\ \A b \in 1..Len(blocks), k \in Keys :
            blocks'[b].queues[k].inProgress
               = IF b = 1 /\ k = key THEN TRUE ELSE blocks[b].queues[k].inProgress
  <2>1. TypeOK /\ Len(blocks) \in Nat
    BY LenProperties DEF Inv, TypeOK
  <2>2. Len(blocks) > 0 /\ Len(blocks') = Len(blocks) /\ arrivals' = arrivals
    BY <2>1, GetShape DEF Get
  <2>3. blocks # <<>> /\ blocks' # <<>>
    BY <2>1, <2>2
  <2>4. List(1, key) # <<>> /\ ~blocks[1].queues[key].inProgress
    BY <2>1, GetShape
  <2>5. /\ \A b \in 1..Len(blocks), k \in Keys : NextList(b, k) = List(b, k)
        /\ \A b \in 1..Len(blocks), k \in Keys :
              blocks'[b].queues[k].inProgress
                 = IF b = 1 /\ k = key THEN TRUE ELSE blocks[b].queues[k].inProgress
    BY <2>1, GetShape
  <2>6. 1 \in 1..Len(blocks)
    BY <2>1, <2>2
  <2>7. QED
    BY <2>1, <2>2, <2>3, <2>4, <2>5, <2>6
<1>2. List(1, key) \in Seq(Nat) /\ 1 \in 1..Len(List(1, key))
  BY <1>1, ListType, EmptySeq
<1>3. i \in 1..Len(arrivals) /\ i \in Open
  BY <1>1, <1>2 DEF Inv, Routed, Open
<1>. HIDE DEF i
<1>4. i \notin Running
  <2>1. SUFFICES ASSUME NEW k \in Keys, blocks[1].queues[k].inProgress, List(1, k)[1] = i
                 PROVE  FALSE
    BY <1>1 DEF Running, Busy
  <2>2. List(1, k) # <<>> /\ List(1, k) \in Seq(Nat)
    BY <1>1, <2>1, ListType DEF Inv, BlocksInUse
  <2>3. 1 \in 1..Len(List(1, k))
    BY <2>2, EmptySeq
  <2>4. k = key
    BY <1>1, <1>2, <2>1, <2>3, OnePlace DEF i
  <2>5. QED
    BY <1>1, <2>1, <2>4
<1>5. ASSUME NEW j \in Open, j < i
      PROVE  ~Abstract!Conflict(i, j)
  <2>1. PICK b \in 1..Len(blocks), k \in Keys :
           \E p \in 1..Len(List(b, k)) : List(b, k)[p] = j
    BY DEF Open
  <2>2. PICK p \in 1..Len(List(b, k)) : List(b, k)[p] = j
    BY <2>1
  <2>3. j \in Nat /\ i \in Nat
    BY <1>3 DEF Open
  <2>4. b = 1
    <3>1. ~(1 < b)
      BY <1>1, <1>2, <1>5, <2>2, <2>3 DEF Inv, BlocksInOrder, i
    <3>2. QED
      BY <1>1, <3>1
  <2>5. k # key
    <3>1. SUFFICES ASSUME k = key PROVE FALSE
      OBVIOUS
    <3>2. p # 1
      BY <1>5, <2>2, <2>3, <2>4, <3>1 DEF i
    <3>3. 1 < p
      BY <1>2, <2>4, <3>1, <3>2, LenProperties
    <3>4. i < j
      BY <1>1, <1>2, <2>2, <2>4, <3>1, <3>3 DEF Inv, ListsInOrder, i
    <3>5. QED
      BY <1>5, <2>3, <3>4
  <2>6. /\ arrivals[i] = [type |-> blocks[1].type, key |-> key]
        /\ arrivals[j] = [type |-> blocks[1].type, key |-> k]
    BY <1>1, <1>2, <2>2, <2>4 DEF Inv, Routed, i
  <2>7. /\ arrivals[i].type = blocks[1].type /\ arrivals[i].key = key
        /\ arrivals[j].type = blocks[1].type /\ arrivals[j].key = k
    BY <2>6
  <2>8. QED
    BY <2>5, <2>7 DEF Abstract!Conflict
<1>6. Open' = Open
  <2>1. \A b \in 1..Len(blocks), k \in Keys : List(b, k)' = List(b, k)
    BY <1>1 DEF List, NextList
  <2>2. QED
    BY <1>1, <2>1 DEF Open
<1>7. Running' = Running \union {i}
  <2>1. Busy(blocks) \subseteq Keys /\ Busy(blocks') = Busy(blocks) \union {key}
    <3>1. ASSUME NEW k \in Keys
          PROVE  blocks'[1].queues[k].inProgress <=> (k = key \/ blocks[1].queues[k].inProgress)
      <4>1. CASE k = key
        BY <1>1, <4>1
      <4>2. CASE k # key
        BY <1>1, <4>2
      <4>3. QED
        BY <4>1, <4>2
    <3>2. QED
      BY <1>1, <3>1 DEF Busy
  <2>2. \A k \in Keys : NextList(1, k)[1] = List(1, k)[1]
    BY <1>1
  <2>3. QED
    BY <1>1, <1>3, <2>1, <2>2 DEF Running, List, NextList, i
<1>8. QED
  BY <1>1, <1>3, <1>4, <1>5, <1>6, <1>7 DEF Abstract!Start, i

\* ack(): the head that was handed out is the one item that leaves.
LEMMA AckMapsToFinish ==
    ASSUME Inv, Inv', NEW key \in Keys, Ack(key)
    PROVE  Abstract!Finish(List(1, key)[1])
<1>. DEFINE i == List(1, key)[1]
<1>1. /\ TypeOK /\ BlocksInUse
      /\ Len(blocks) \in Nat /\ Len(blocks') \in Nat
      /\ arrivals' = arrivals
  BY LenProperties DEF Inv, TypeOK, Ack
<1>2. /\ Len(blocks) > 0
      /\ List(1, key) # <<>> /\ blocks[1].queues[key].inProgress
      /\ Shortened(key) \/ Dropped(key)
  BY <1>1, AckShape
<1>3. 1 \in 1..Len(blocks) /\ blocks # <<>>
  BY <1>1, <1>2
<1>4. List(1, key) \in Seq(Nat) /\ 1 \in 1..Len(List(1, key))
  BY <1>1, <1>2, <1>3, ListType, EmptySeq
<1>5. i \in 1..Len(arrivals) /\ i \in Running
  <2>1. List(1, key)[1] \in 1..Len(arrivals)
    BY <1>3, <1>4 DEF Inv, Routed
  <2>2. key \in Busy(blocks)
    BY <1>2, <1>3 DEF Busy
  <2>3. QED
    BY <1>3, <2>1, <2>2 DEF Running
<1>. HIDE DEF i
<1>6. ASSUME NEW b \in 1..Len(blocks), NEW k \in Keys, NEW p \in 1..Len(List(b, k)),
             List(b, k)[p] = i
      PROVE  b = 1 /\ k = key /\ p = 1
  BY <1>3, <1>4, <1>6, OnePlace DEF i
<1>7. CASE Shortened(key)
  <2>1. /\ Len(blocks') = Len(blocks)
        /\ \A b \in 1..Len(blocks), k \in Keys :
              /\ NextList(b, k) = IF b = 1 /\ k = key THEN Tail(List(b, k)) ELSE List(b, k)
              /\ blocks'[b].queues[k].inProgress
                    = IF b = 1 /\ k = key THEN FALSE ELSE blocks[b].queues[k].inProgress
    BY <1>7 DEF Shortened, List, NextList
  <2>2. /\ Len(List(1, key)) \in Nat
        /\ Len(NextList(1, key)) = Len(List(1, key)) - 1
        /\ \A p \in 1..Len(NextList(1, key)) : NextList(1, key)[p] = List(1, key)[p + 1]
    <3>1. NextList(1, key) = Tail(List(1, key))
      BY <1>3, <2>1
    <3>2. QED
      BY <1>2, <1>4, <3>1, HeadTailProperties, LenProperties
  <2>3. \A b \in 1..Len(blocks), k \in Keys :
           ~(b = 1 /\ k = key) => NextList(b, k) = List(b, k)
    BY <2>1
  <2>4. ASSUME NEW j \in Open' PROVE j \in Open \ {i}
    <3>1. PICK b \in 1..Len(blocks), k \in Keys :
             \E p \in 1..Len(NextList(b, k)) : NextList(b, k)[p] = j
      BY <2>1 DEF Open, List, NextList
    <3>2. PICK p \in 1..Len(NextList(b, k)) : NextList(b, k)[p] = j
      BY <3>1
    <3>3. \E q \in 1..Len(List(b, k)) :
             List(b, k)[q] = j /\ ~(b = 1 /\ k = key /\ q = 1)
      <4>1. CASE b = 1 /\ k = key
        <5>1. p + 1 \in 1..Len(List(1, key)) /\ p + 1 # 1
          BY <2>2, <4>1
        <5>2. List(1, key)[p + 1] = j
          BY <2>2, <3>2, <4>1
        <5>3. QED
          BY <4>1, <5>1, <5>2
      <4>2. CASE ~(b = 1 /\ k = key)
        BY <2>3, <3>2, <4>2
      <4>3. QED
        BY <4>1, <4>2
    <3>4. j # i
      BY <1>6, <3>3
    <3>5. j \in 1..Len(arrivals)
      BY <1>1 DEF Open
    <3>6. QED
      BY <3>3, <3>4, <3>5 DEF Open
  <2>5. ASSUME NEW j \in Open, j # i PROVE j \in Open'
    <3>1. PICK b \in 1..Len(blocks), k \in Keys :
             \E p \in 1..Len(List(b, k)) : List(b, k)[p] = j
      BY DEF Open
    <3>2. PICK p \in 1..Len(List(b, k)) : List(b, k)[p] = j
      BY <3>1
    <3>3. \E q \in 1..Len(NextList(b, k)) : NextList(b, k)[q] = j
      <4>1. CASE b = 1 /\ k = key
        <5>1. p # 1
          BY <2>5, <3>2, <4>1 DEF i
        <5>2. p - 1 \in 1..Len(NextList(1, key)) /\ (p - 1) + 1 = p
          BY <2>2, <4>1, <5>1
        <5>3. QED
          BY <2>2, <3>2, <4>1, <5>2
      <4>2. CASE ~(b = 1 /\ k = key)
        BY <2>3, <3>2, <4>2
      <4>3. QED
        BY <4>1, <4>2
    <3>4. j \in 1..Len(arrivals') /\ b \in 1..Len(blocks')
      BY <1>1, <2>1 DEF Open
    <3>5. QED
      BY <3>3, <3>4 DEF Open, List, NextList
  <2>6. Open' = Open \ {i}
    BY <2>4, <2>5
  <2>7. Running' = Running \ {i}
    <3>1. blocks' # <<>>
      BY <1>1, <1>2, <2>1
    <3>2. ASSUME NEW k \in Keys
          PROVE  /\ blocks'[1].queues[k].inProgress
                       <=> (k # key /\ blocks[1].queues[k].inProgress)
                 /\ k # key => NextList(1, k) = List(1, k)
      <4>1. CASE k = key
        BY <1>3, <2>1, <4>1
      <4>2. CASE k # key
        BY <1>3, <2>1, <4>2
      <4>3. QED
        BY <4>1, <4>2
    <3>3. Busy(blocks') = Busy(blocks) \ {key}
      BY <1>3, <3>1, <3>2 DEF Busy
    <3>4. \A k \in Busy(blocks') : k # key /\ k \in Keys /\ NextList(1, k)[1] = List(1, k)[1]
      BY <3>2, <3>3 DEF Busy
    <3>5. \A k \in Busy(blocks) : k # key => List(1, k)[1] # i
      <4>1. ASSUME NEW k \in Busy(blocks), k # key PROVE List(1, k)[1] # i
        <5>1. k \in Keys /\ blocks[1].queues[k].inProgress
          BY <1>3 DEF Busy
        <5>2. List(1, k) # <<>> /\ List(1, k) \in Seq(Nat)
          BY <1>1, <1>3, <5>1, ListType DEF BlocksInUse
        <5>3. 1 \in 1..Len(List(1, k))
          BY <5>2, EmptySeq
        <5>4. QED
          BY <1>3, <1>6, <4>1, <5>1, <5>3
      <4>2. QED
        BY <4>1
    <3>6. QED
      BY <1>1, <1>3, <3>1, <3>3, <3>4, <3>5 DEF Running, List, NextList, i
  <2>8. QED
    BY <1>1, <1>5, <2>6, <2>7 DEF Abstract!Finish, i
<1>8. CASE Dropped(key)
  <2>1. /\ Len(blocks') + 1 = Len(blocks)
        /\ Tail(List(1, key)) = <<>>
        /\ \A k \in Keys : k # key => List(1, k) = <<>>
        /\ \A b \in 1..Len(blocks'), k \in Keys : NextList(b, k) = List(b + 1, k)
        /\ \A b \in 1..Len(blocks') : blocks'[b] = blocks[b + 1]
    BY <1>1, <1>8 DEF Dropped, List, NextList
  <2>2. Len(List(1, key)) = 1
    <3>1. Len(Tail(List(1, key))) = Len(List(1, key)) - 1 /\ Len(List(1, key)) \in Nat
      BY <1>2, <1>4, HeadTailProperties, LenProperties
    <3>2. Len(Tail(List(1, key))) = 0
      BY <2>1, EmptySeq
    <3>3. QED
      BY <3>1, <3>2
  <2>3. ASSUME NEW j \in Open' PROVE j \in Open \ {i}
    <3>1. PICK b \in 1..Len(blocks'), k \in Keys :
             \E p \in 1..Len(NextList(b, k)) : NextList(b, k)[p] = j
      BY DEF Open, List, NextList
    <3>2. PICK p \in 1..Len(NextList(b, k)) : NextList(b, k)[p] = j
      BY <3>1
    <3>3. /\ b + 1 \in 1..Len(blocks) /\ b + 1 # 1
          /\ p \in 1..Len(List(b + 1, k)) /\ List(b + 1, k)[p] = j
      BY <1>1, <2>1, <3>2
    <3>4. j # i
      BY <1>6, <3>3
    <3>5. j \in 1..Len(arrivals)
      BY <1>1 DEF Open
    <3>6. QED
      BY <3>3, <3>4, <3>5 DEF Open
  <2>4. ASSUME NEW j \in Open, j # i PROVE j \in Open'
    <3>1. PICK b \in 1..Len(blocks), k \in Keys :
             \E p \in 1..Len(List(b, k)) : List(b, k)[p] = j
      BY DEF Open
    <3>2. PICK p \in 1..Len(List(b, k)) : List(b, k)[p] = j
      BY <3>1
    <3>3. b # 1
      <4>1. SUFFICES ASSUME b = 1 PROVE FALSE
        OBVIOUS
      <4>2. k = key
        <5>1. SUFFICES ASSUME k # key PROVE FALSE
          OBVIOUS
        <5>2. List(b, k) = <<>>
          BY <2>1, <4>1, <5>1
        <5>3. QED
          BY <3>2, <5>2, EmptySeq
      <4>3. p = 1
        BY <2>2, <3>2, <4>1, <4>2
      <4>4. QED
        BY <2>4, <3>2, <4>1, <4>2, <4>3 DEF i
    <3>4. b - 1 \in 1..Len(blocks') /\ (b - 1) + 1 = b
      BY <1>1, <2>1, <3>3
    <3>5. NextList(b - 1, k) = List(b, k)
      BY <2>1, <3>4
    <3>6. j \in 1..Len(arrivals')
      BY <1>1 DEF Open
    <3>7. QED
      BY <3>2, <3>4, <3>5, <3>6 DEF Open, List, NextList
  <2>5. Open' = Open \ {i}
    BY <2>3, <2>4
  <2>6. Running = {i}
    <3>1. ASSUME NEW k \in Busy(blocks) PROVE k = key
      <4>1. k \in Keys /\ List(1, k) # <<>>
        BY <1>1, <1>3 DEF Busy, BlocksInUse
      <4>2. QED
        BY <2>1, <4>1
    <3>2. QED
      BY <1>5, <3>1 DEF Running, i
  <2>7. Running' = {}
    <3>1. CASE blocks' = <<>>
      BY <3>1 DEF Running
    <3>2. CASE blocks' # <<>>
      <4>1. 1 \in 1..Len(blocks') /\ 1 + 1 \in 1..Len(blocks) /\ 1 + 1 # 1
        <5>1. Len(blocks') # 0
          BY <3>2, EmptySeq DEF Inv, TypeOK
        <5>2. QED
          BY <1>1, <2>1, <5>1
      <4>2. blocks'[1] = blocks[1 + 1]
        BY <2>1, <4>1
      <4>3. \A k \in Keys : ~blocks'[1].queues[k].inProgress
        BY <1>1, <4>1, <4>2 DEF BlocksInUse
      <4>4. Busy(blocks') = {}
        BY <4>3 DEF Busy
      <4>5. QED
        BY <4>4 DEF Running
    <3>3. QED
      BY <3>1, <3>2
  <2>8. QED
    BY <1>1, <1>5, <2>5, <2>6, <2>7 DEF Abstract!Finish, i
<1>9. QED
  BY <1>2, <1>7, <1>8

\* ParallelQueue implements OrderedDispatch.
THEOREM Refinement == Spec => ImplementsOrderedDispatch
<1>1. Init => Abstract!Init
  BY DEF Init, Abstract!Init, Open, Running
<1>2. Inv /\ Inv' /\ [Next]_vars => [Abstract!Next]_(Abstract!vars)
  <2>. SUFFICES ASSUME Inv, Inv', [Next]_vars
                PROVE  [Abstract!Next]_(Abstract!vars)
    OBVIOUS
  <2>1. ASSUME NEW r \in Routes, Add(r) PROVE Abstract!Next
    BY <2>1, AddMapsToArrive DEF Abstract!Next, Abstract!Routes, Routes
  <2>2. ASSUME NEW k \in Keys, Get(k) PROVE Abstract!Next
    BY <2>2, GetMapsToStart DEF Abstract!Next, Abstract!Items, Open
  <2>3. ASSUME NEW k \in Keys, Ack(k) PROVE Abstract!Next
    BY <2>3, AckMapsToFinish DEF Abstract!Next, Abstract!Finish, Abstract!Items, Running
  <2>4. CASE UNCHANGED vars
    BY <2>4 DEF vars, Abstract!vars, Open, Running, Busy, List
  <2>5. QED
    BY <2>1, <2>2, <2>3, <2>4 DEF Next
<1>3. QED
  BY <1>1, <1>2, Invariance, PTL DEF Spec, ImplementsOrderedDispatch, Abstract!Spec

-----------------------------------------------------------------------------
(* ClientSession.                                                          *)

\* What a client may say.
Said == {"LS", "END", "NAMES", "QUIT", "OTHER"} \union Passes
\* What the upstream may report.
Reported == {"open", "existing", "001", "376", "close"}

\* What is known of a registration.
Registration == [names : BOOLEAN, pass : Passes \union {"unset"}]

SessionTyped ==
    /\ SessionTypeOK
    /\ queue \in [Clients -> Seq(Said)] /\ events \in Seq(Reported)
    /\ setAway \in BOOLEAN /\ away \in BOOLEAN /\ cut \in BOOLEAN

\* Who has a handler that waits is here; only a client that has not logged in keeps a
\* password, or one whose login is not done, and a login has one; nobody is registered or
\* given a burst before that.
LoginAgrees(c) ==
    /\ pc[c] # "idle" => where[c] = "here"
    /\ pc[c] = "auth" => reg[c].pass # "unset"
    /\ authed[c] # "no" => reg[c].pass = "unset" \/ pc[c] \in {"register", "dump"}
    /\ authed[c] = "no" => registered[c] = "no" /\ bursts[c] = 0
    /\ where[c] = "none" => authed[c] = "no"
LoginsAgree == \A c \in Clients : LoginAgrees(c)

\* registerClient() waits for a client of the upstream or for one that has left.
CallsReach == \A c \in Clients : calls[c] > 0 => where[c] = "gone" \/ c \in linked

\* The server shows the user as away only after a worker has noted that it said so, on a
\* connection that listens.
AwayIsNoted == away => setAway /\ sock \in {"welcomed", "ready"}

\* A client has or will have the bursts of calls that waited when the upstream connected,
\* and one more.
BurstsCounted == \A c \in Clients : bursts[c] + calls[c] <= 1 + spans[c]

\* Before the end of the MOTD there is none more.
Unburst == up["receivedMotd"] \/ \A c \in Clients : bursts[c] + calls[c] <= spans[c]

\* Between the connection that opens and the i-th event there is none that closes.
Announced(es, i) ==
    \E j \in 1..(i - 1) : es[j] = "open" /\ \A k \in j..(i - 1) : es[k] # "close"

\* When the i-th event is handled, the clients' bursts are those of the connection that
\* the event is about: z says so of the bursts they have now.
BurstsAre(es, z, i) ==
    Announced(es, i) \/ (z /\ \A k \in 1..(i - 1) : es[k] # "close")

\* The end of a MOTD comes after the bursts were reset for its connection, also the end
\* that is still to come.
MotdsAreFirst ==
    /\ \A i \in 1..Len(events) : events[i] = "376" => BurstsAre(events, Unburst, i)
    /\ sock \in {"open", "asked", "welcomed"} => BurstsAre(events, Unburst, Len(events) + 1)

SessionInv ==
    /\ SessionTyped /\ LoginsAgree /\ ReachesEveryClient /\ CallsReach
    /\ AwayIsNoted /\ NeverAwayWithClients
    /\ BurstsCounted /\ MotdsAreFirst

-----------------------------------------------------------------------------
(* Lemmas.                                                                 *)

\* The last of some places in a sequence is the place that Max returns.
LEMMA MaxOfPlaces ==
    ASSUME NEW n \in Nat, NEW S, S \subseteq 1..n, S # {}
    PROVE  Max(S) \in S
<1> DEFINE U == {m \in Nat : \A i \in S : i <= m}
<1>1. PICK m \in U : \A k \in U : ~ (<<k, m>> \in OpToRel(<, Nat))
  <2>1. n \in U
    OBVIOUS
  <2>2. U \subseteq Nat /\ U # {}
    BY <2>1
  <2>3. QED
    BY <2>2, NatLessThanWellFounded, WFMin
<1>2. \A k \in U : ~ (k < m)
  BY <1>1 DEF OpToRel
<1>3. m # 0
  <2>1. PICK i \in S : TRUE
    OBVIOUS
  <2>2. i \in 1..n /\ i <= m
    BY <2>1
  <2>3. QED
    BY <2>2
<1>4. m \in S
  <2>1. m - 1 \in Nat /\ m - 1 < m
    BY <1>3
  <2>2. m - 1 \notin U
    BY <2>1, <1>2
  <2>3. PICK i \in S : ~ (i <= m - 1)
    BY <2>1, <2>2
  <2>4. i <= m /\ i \in Nat
    OBVIOUS
  <2>5. i = m
    BY <2>3, <2>4, <2>1
  <2>6. QED
    BY <2>5
<1>5. \A y \in S : m >= y
  OBVIOUS
<1>6. QED
  BY <1>4, <1>5 DEF Max

\* What lines leave of a registration is a registration; who has logged in keeps no
\* password.
LEMMA Registers ==
    ASSUME SessionAssumption, NEW c \in Clients, NEW ls \in Seq(Said),
           NEW r \in Registration
    PROVE  /\ Registering(c, r, ls) \in Registration
           /\ authed[c] # "no" => Registering(c, r, ls).pass = r.pass
<1> DEFINE passed == {i \in DOMAIN ls : ls[i] \in Passes}
<1> DEFINE names == r.names \/ (Contains(ls, "NAMES") /\ ~(HasUpstream(c) /\ ~up["netRegistered"]))
<1> DEFINE pass == IF authed[c] = "no" /\ passed # {} THEN ls[Max(passed)] ELSE r.pass
<1>1. Registering(c, r, ls) = [names |-> names, pass |-> pass]
  BY DEF Registering
<1> r \in [names : BOOLEAN, pass : Passes \union {"unset"}]
  BY DEF Registration
<1>2. names \in BOOLEAN
  <2>1. Contains(ls, "NAMES") \in BOOLEAN /\ HasUpstream(c) \in BOOLEAN
    BY DEF Contains, HasUpstream
  <2>2. QED
    BY <2>1
<1>3. pass \in Passes \union {"unset"}
  <2>1. r.pass \in Passes \union {"unset"}
    OBVIOUS
  <2>2. CASE passed # {}
    <3>1. passed \subseteq 1..Len(ls) /\ Len(ls) \in Nat
      BY LenProperties
    <3>2. Max(passed) \in passed
      <4> HIDE DEF passed
      <4>1. QED
        BY <3>1, <2>2, MaxOfPlaces
    <3>3. QED
      BY <3>2, <2>1
  <2>3. QED
    BY <2>1, <2>2
<1>4. authed[c] # "no" => pass = r.pass
  OBVIOUS
<1>5. QED
  <2> HIDE DEF names, pass
  <2>1. [names |-> names, pass |-> pass] \in [names : BOOLEAN, pass : Passes \union {"unset"}]
    BY <1>2, <1>3
  <2>2. [names |-> names, pass |-> pass].pass = pass
    OBVIOUS
  <2>3. Registering(c, r, ls).pass = pass
    BY ONLY <1>1, <2>2
  <2>4. QED
    BY ONLY <1>1, <2>1, <2>3, <1>4 DEF Registration

\* An event that is handled moves the others one place to the front; bursts that are reset
\* stay so as long as none is given.
LEMMA BurstsShift ==
    ASSUME NEW es \in Seq(Reported), es # <<>>, NEW z \in BOOLEAN, NEW y \in BOOLEAN,
           Head(es) = "open" => y, Head(es) \notin {"open", "close"} => (z => y),
           NEW i \in 1..(Len(es) + 1), BurstsAre(es, z, i), i # 1
    PROVE  BurstsAre(Tail(es), y, i - 1)
<1> DEFINE n == Len(es)
<1> DEFINE f == Tail(es)
<1>1. n \in Nat /\ n > 0 /\ Len(f) = n - 1
  BY HeadTailProperties, EmptySeq, LenProperties
<1>2. \A k \in Nat : k + 1 <= n /\ k > 0 => f[k] = es[k + 1]
  <2> SUFFICES ASSUME NEW k \in Nat, k + 1 <= n, k > 0
               PROVE  f[k] = es[k + 1]
    OBVIOUS
  <2>1. k \in 1..Len(f)
    BY <1>1
  <2>2. QED
    BY <2>1, HeadTailProperties
<1>3. Head(es) = es[1]
  BY DEF Head
<1>4. i \in Nat /\ i > 1 /\ i <= n + 1
  BY <1>1
<1> HIDE DEF n, f
<1>5. CASE Announced(es, i)
  <2>1. PICK j \in 1..(i - 1) : es[j] = "open" /\ \A k \in j..(i - 1) : es[k] # "close"
    BY <1>5 DEF Announced
  <2>2. CASE j = 1
    <3>1. y
      BY <2>1, <2>2, <1>3
    <3>2. \A k \in 1..(i - 1) : es[k] # "close"
      BY <2>1, <2>2
    <3>3. \A k \in 1..(i - 2) : f[k] # "close"
      <4> SUFFICES ASSUME NEW k \in 1..(i - 2)
                   PROVE  f[k] # "close"
        OBVIOUS
      <4>1. k \in Nat /\ k + 1 <= n /\ k > 0 /\ k + 1 \in 1..(i - 1)
        BY <1>4, <1>1
      <4>2. QED
        BY <4>1, <3>2, <1>2
    <3>4. (i - 1) - 1 = i - 2
      BY <1>4
    <3>5. QED
      BY <3>1, <3>3, <3>4 DEF BurstsAre, f
  <2>3. CASE j # 1
    <3>1. j - 1 \in 1..(i - 2) /\ j - 1 \in Nat /\ (j - 1) + 1 = j /\ j <= n /\ j - 1 > 0
      BY <2>3, <1>4, <1>1
    <3>2. f[j - 1] = "open"
      BY <3>1, <2>1, <1>2
    <3>3. \A k \in (j - 1)..(i - 2) : f[k] # "close"
      <4> SUFFICES ASSUME NEW k \in (j - 1)..(i - 2)
                   PROVE  f[k] # "close"
        OBVIOUS
      <4>1. k \in Nat /\ k + 1 <= n /\ k > 0 /\ k + 1 \in j..(i - 1)
        BY <1>4, <1>1, <3>1
      <4>2. QED
        BY <4>1, <2>1, <1>2
    <3>4. (i - 1) - 1 = i - 2
      BY <1>4
    <3>5. Announced(f, i - 1)
      BY <3>1, <3>2, <3>3, <3>4 DEF Announced
    <3>6. QED
      BY <3>5 DEF BurstsAre, f
  <2>4. QED
    BY <2>2, <2>3
<1>6. CASE z /\ \A k \in 1..(i - 1) : es[k] # "close"
  <2>1. Head(es) # "close"
    BY <1>6, <1>3, <1>4
  <2>2. y
    BY <2>1, <1>6
  <2>3. \A k \in 1..(i - 2) : f[k] # "close"
    <3> SUFFICES ASSUME NEW k \in 1..(i - 2)
                 PROVE  f[k] # "close"
      OBVIOUS
    <3>1. k \in Nat /\ k + 1 <= n /\ k > 0 /\ k + 1 \in 1..(i - 1)
      BY <1>4, <1>1
    <3>2. QED
      BY <3>1, <1>6, <1>2
  <2>4. (i - 1) - 1 = i - 2
    BY <1>4
  <2>5. QED
    BY <2>2, <2>3, <2>4 DEF BurstsAre, f
<1>7. QED
  BY <1>5, <1>6 DEF BurstsAre

\* An event that is added changes nothing for those before it; one that does not close
\* leaves the bursts as they are for the next, and one that opens resets them.
LEMMA BurstsGrow ==
    ASSUME NEW es \in Seq(Reported), NEW z \in BOOLEAN, NEW e \in Reported,
           NEW i \in 1..(Len(es) + 1)
    PROVE  /\ BurstsAre(Append(es, e), z, i) <=> BurstsAre(es, z, i)
           /\ e # "close" /\ BurstsAre(es, z, Len(es) + 1)
                => BurstsAre(Append(es, e), z, Len(es) + 2)
           /\ e = "open" => BurstsAre(Append(es, e), z, Len(es) + 2)
<1> DEFINE n == Len(es)
<1> DEFINE f == Append(es, e)
<1>1. n \in Nat /\ \A k \in 1..n : f[k] = es[k]
  BY AppendProperties, LenProperties
<1>2. f[n + 1] = e
  BY AppendProperties
<1>3. i \in 1..(n + 1)
  OBVIOUS
<1>4. n = Len(es) /\ f = Append(es, e)
  OBVIOUS
<1> HIDE DEF n, f
<1>5. \A k \in 1..(i - 1) : k \in 1..n /\ f[k] = es[k]
  BY <1>1, <1>3
<1>6. \A j \in 1..(i - 1) : \A k \in j..(i - 1) : f[k] = es[k]
  BY <1>5
<1>7. Announced(f, i) <=> Announced(es, i)
  BY <1>5, <1>6 DEF Announced
<1>8. BurstsAre(f, z, i) <=> BurstsAre(es, z, i)
  BY <1>7, <1>5 DEF BurstsAre
<1>9. ASSUME e # "close", BurstsAre(es, z, n + 1)
      PROVE  BurstsAre(f, z, n + 2)
  <2>1. (n + 1) - 1 = n /\ (n + 2) - 1 = n + 1
    BY <1>1
  <2>2. CASE Announced(es, n + 1)
    <3>1. PICK j \in 1..n : es[j] = "open" /\ \A k \in j..n : es[k] # "close"
      BY <2>1, <2>2 DEF Announced
    <3>2. \A k \in j..(n + 1) : f[k] # "close"
      <4> SUFFICES ASSUME NEW k \in j..(n + 1)
                   PROVE  f[k] # "close"
        OBVIOUS
      <4>1. k = n + 1 \/ k \in j..n
        BY <1>1
      <4>2. k \in j..n => k \in 1..n
        BY <1>1
      <4>3. QED
        BY <4>1, <4>2, <3>1, <1>1, <1>2, <1>9
    <3>3. f[j] = "open" /\ j \in 1..(n + 1)
      BY <3>1, <1>1
    <3>4. QED
      BY <3>2, <3>3, <2>1 DEF Announced, BurstsAre
  <2>3. CASE z /\ \A k \in 1..n : es[k] # "close"
    <3>1. \A k \in 1..(n + 1) : k = n + 1 \/ k \in 1..n
      BY <1>1
    <3>2. \A k \in 1..(n + 1) : f[k] # "close"
      BY <3>1, <2>3, <1>1, <1>2, <1>9
    <3>3. QED
      BY <3>2, <2>3, <2>1 DEF BurstsAre
  <2>4. QED
    BY <1>9, <2>1, <2>2, <2>3 DEF BurstsAre
<1>10. e = "open" => BurstsAre(f, z, n + 2)
  <2> SUFFICES ASSUME e = "open"
               PROVE  BurstsAre(f, z, n + 2)
    OBVIOUS
  <2>1. (n + 2) - 1 = n + 1 /\ n + 1 \in 1..(n + 1)
    BY <1>1
  <2>2. \A k \in (n + 1)..(n + 1) : k = n + 1
    BY <1>1
  <2>3. QED
    BY <2>1, <2>2, <1>2 DEF Announced, BurstsAre
<1>11. QED
  BY <1>4, <1>8, <1>9, <1>10

\* At first nobody has connected.
LEMMA SessionStarts ==
    ASSUME SessionAssumption, SessionInit
    PROVE  SessionInv
<1>1. SessionTyped
  <2>1. Empty \in [names : BOOLEAN, pass : Passes \union {"unset"}]
    BY DEF Empty
  <2>2. <<>> \in Seq(Said) /\ <<>> \in Seq(Reported)
    OBVIOUS
  <2>3. QED
    BY <2>1, <2>2 DEF SessionInit, SessionTyped, SessionTypeOK
<1>2. LoginsAgree
  BY DEF SessionInit, LoginsAgree, LoginAgrees, Empty
<1>3. ReachesEveryClient /\ CallsReach /\ AwayIsNoted /\ NeverAwayWithClients /\ BurstsCounted
  BY DEF SessionInit, ReachesEveryClient, CallsReach, AwayIsNoted, NeverAwayWithClients,
         BurstsCounted
<1>4. MotdsAreFirst
  BY DEF SessionInit, MotdsAreFirst
<1>5. QED
  BY <1>1, <1>2, <1>3, <1>4 DEF SessionInv

\* Register counts one call more for its clients, and nothing else.
LEMMA RegisterCounts ==
    ASSUME SessionTyped, NEW cs, Register(cs)
    PROVE  /\ \A c \in Clients : calls'[c] = calls[c] + IF c \in cs THEN 1 ELSE 0
           /\ calls' \in [Clients -> Nat] /\ UNCHANGED <<dumps, bursts, spans>>
<1>1. calls \in [Clients -> Nat]
  BY DEF SessionTyped, SessionTypeOK
<1>2. QED
  BY ONLY <1>1, Register(cs) DEF Register

\* What the end of the hook does.
LEMMA BurstMoves ==
    ASSUME SessionTyped, NEW c \in Clients, Burst(c)
    PROVE  /\ calls[c] > 0
           /\ calls' = [calls EXCEPT ![c] = calls[c] - 1] /\ calls[c] - 1 \in Nat
           /\ dumps' = [dumps EXCEPT ![c] = dumps[c] + 1] /\ dumps[c] + 1 \in Nat
           /\ pc' = pc \/ (pc[c] = "register" /\ pc' = [pc EXCEPT ![c] = "dump"])
           /\ \/ /\ where[c] = "here" /\ registered' = [registered EXCEPT ![c] = "net"]
                 /\ bursts' = [bursts EXCEPT ![c] = bursts[c] + 1] /\ bursts[c] + 1 \in Nat
              \/ where[c] # "here" /\ UNCHANGED <<registered, bursts>>
           /\ UNCHANGED <<where, reg, capping, queue, authed, cached, told, sent, swallowed, spans,
                          worker, world>>
<1>1. calls[c] \in Nat /\ dumps[c] \in Nat /\ bursts[c] \in Nat
  BY DEF SessionTyped, SessionTypeOK
<1>2. QED
  BY <1>1 DEF Burst, Awaited

\* What the end of registerClient() does.
LEMMA DumpedMoves ==
    ASSUME SessionTyped, NEW c \in Clients, Dumped(c)
    PROVE  /\ dumps' \in [Clients -> Nat]
           /\ \/ pc' = pc /\ reg' = reg
              \/ pc' = [pc EXCEPT ![c] = "idle"] /\ reg' = [reg EXCEPT ![c] = Empty]
           /\ IF setAway THEN Shown(FALSE) ELSE away' = away
           /\ setAway' = FALSE
           /\ UNCHANGED <<where, capping, queue, authed, registered, cached, told, sent, swallowed,
                          calls, bursts, spans, up, linked, timers, opens, events, sock, existing,
                          cut, faults>>
<1>1. dumps \in [Clients -> Nat] /\ dumps[c] \in Nat
  BY DEF SessionTyped, SessionTypeOK
<1>2. dumps[c] > 0 /\ dumps' = [dumps EXCEPT ![c] = dumps[c] - 1]
  BY DEF Dumped, Returns
<1>3. dumps' \in [Clients -> Nat]
  BY ONLY <1>1, <1>2
<1>4. QED
  BY <1>3 DEF Dumped, Returns

\* What one line of a client does, apart from the list of clients.
LEMMA LineRuns ==
    ASSUME SessionAssumption, SessionTyped, NEW c \in Clients, Line(c)
    PROVE  /\ where[c] = "here" /\ pc[c] = "idle"
           /\ reg' \in [Clients -> Registration]
           /\ queue' \in [Clients -> Seq(Said)]
           /\ told' \subseteq Clients /\ capping' \subseteq Clients
           /\ linked' = linked \/ linked' = IF HasUpstream(c) THEN linked \union {c} ELSE linked
           /\ cached' = cached \/ cached' = IF HasUpstream(c) THEN cached \union {c} ELSE cached
           /\ pc' = pc \/ (pc' = [pc EXCEPT ![c] = "auth"] /\ reg'[c].pass # "unset")
           /\ \A d \in Clients : d # c \/ authed[c] # "no" => reg'[d].pass = reg[d].pass
<1>1. PICK line \in LinesOf[c] :
          \/ Waits(c, line)
          \/ line = "END" /\ EndsCap(c)
          \/ line # "END" /\ Runs(c, line)
  BY DEF Line
<1>2. line \in Said
  BY SessionAssumption DEF SessionAssumption, Said
<1>3. /\ where[c] = "here" /\ pc[c] = "idle"
      /\ reg \in [Clients -> Registration]
      /\ queue \in [Clients -> Seq(Said)] /\ queue[c] \in Seq(Said)
      /\ told \subseteq Clients /\ capping \subseteq Clients
  BY DEF Line, SessionTyped, SessionTypeOK, Registration
<1>4. ASSUME NEW ls \in Seq(Said), reg' = [reg EXCEPT ![c] = Registering(c, @, ls)]
      PROVE  /\ reg' \in [Clients -> Registration]
             /\ reg'[c].pass \in Passes \union {"unset"}
             /\ \A d \in Clients : d # c \/ authed[c] # "no" => reg'[d].pass = reg[d].pass
  <2>1. /\ Registering(c, reg[c], ls) \in Registration
        /\ authed[c] # "no" => Registering(c, reg[c], ls).pass = reg[c].pass
    <3>1. reg[c] \in Registration
      BY <1>3
    <3>2. QED
      BY <3>1, SessionAssumption, Registers
  <2>2. reg \in [Clients -> Registration]
    BY <1>3
  <2>3. reg' = [reg EXCEPT ![c] = Registering(c, reg[c], ls)]
    BY <1>4
  <2>4. reg' \in [Clients -> Registration] /\ reg'[c] = Registering(c, reg[c], ls)
    BY <2>1, <2>2, <2>3
  <2>5. \A d \in Clients : d # c => reg'[d] = reg[d]
    BY <2>2, <2>3
  <2>6. reg'[c].pass \in Passes \union {"unset"}
    BY <2>4, <2>1 DEF Registration
  <2>7. QED
    BY <2>1, <2>4, <2>5, <2>6
<1>5. Complete(reg'[c]) => reg'[c].pass # "unset"
  BY DEF Complete
<1>6. CASE Waits(c, line)
  <2>1. queue' = [queue EXCEPT ![c] = Append(queue[c], line)]
    BY <1>6 DEF Waits
  <2>2. Append(queue[c], line) \in Seq(Said)
    BY <1>2, <1>3, AppendProperties
  <2>3. queue' \in [Clients -> Seq(Said)]
    BY <2>1, <2>2, <1>3
  <2>4. reg' = reg /\ told' = told /\ capping' = capping /\ linked' = linked /\ cached' = cached
        /\ pc' = pc
    BY <1>6 DEF Waits
  <2>5. QED
    BY <2>3, <2>4, <1>3
<1>7. CASE line = "END" /\ EndsCap(c)
  <2>1. /\ capping' = capping \ {c} /\ queue' = [queue EXCEPT ![c] = <<>>] /\ Look(c)
        /\ \/ /\ reg' = [reg EXCEPT ![c] = Registering(c, @, queue[c])]
              /\ pc' = IF Complete(reg'[c]) THEN [pc EXCEPT ![c] = "auth"] ELSE pc
              /\ told' = told
           \/ /\ told' = IF Contains(queue[c], "QUIT") THEN told \union {c} ELSE told
              /\ reg' = reg /\ pc' = pc
    BY <1>7 DEF EndsCap
  <2>2. capping' \subseteq Clients /\ told' \subseteq Clients
    BY <2>1, <1>3
  <2>3. queue' \in [Clients -> Seq(Said)]
    <3>1. <<>> \in Seq(Said)
      OBVIOUS
    <3>2. QED
      BY <3>1, <2>1, <1>3
  <2>4. /\ reg' \in [Clients -> Registration]
        /\ \A d \in Clients : d # c \/ authed[c] # "no" => reg'[d].pass = reg[d].pass
    BY <2>1, <1>3, <1>4
  <2>5. pc' = pc \/ (pc' = [pc EXCEPT ![c] = "auth"] /\ reg'[c].pass # "unset")
    BY <2>1, <1>5
  <2>6. QED
    BY <2>1, <2>2, <2>3, <2>4, <2>5, <1>3 DEF Look
<1>8. CASE line # "END" /\ Runs(c, line)
  <2>1. /\ capping' = IF line = "LS" THEN capping \union {c} ELSE capping
        /\ queue' = queue /\ Look(c)
        /\ \/ /\ reg' = [reg EXCEPT ![c] = Registering(c, @, <<line>>)]
              /\ \/ pc' = pc
                 \/ Complete(reg'[c]) /\ pc' = [pc EXCEPT ![c] = "auth"]
              /\ told' = told
           \/ /\ told' = IF line = "QUIT" THEN told \union {c} ELSE told
              /\ reg' = reg /\ pc' = pc
    BY <1>8 DEF Runs
  <2>2. capping' \subseteq Clients /\ told' \subseteq Clients
    BY <2>1, <1>3
  <2>3. <<line>> \in Seq(Said)
    BY <1>2
  <2>4. /\ reg' \in [Clients -> Registration]
        /\ \A d \in Clients : d # c \/ authed[c] # "no" => reg'[d].pass = reg[d].pass
    BY <2>1, <2>3, <1>3, <1>4
  <2>5. pc' = pc \/ (pc' = [pc EXCEPT ![c] = "auth"] /\ reg'[c].pass # "unset")
    BY <2>1, <1>5
  <2>6. QED
    BY <2>1, <2>2, <2>4, <2>5, <1>3 DEF Look
<1>9. QED
  BY <1>1, <1>6, <1>7, <1>8

\* The types are kept by the steps of a client.
LEMMA ClientTypes ==
    ASSUME SessionAssumption, SessionTyped, NEW c \in Clients,
           Accept(c) \/ Line(c) \/ Login(c) \/ Burst(c) \/ Dumped(c) \/ Leave(c) \/ Destroy(c)
    PROVE  SessionTyped'
<1>0. Line(c) =>
        /\ reg' \in [Clients -> Registration]
        /\ queue' \in [Clients -> Seq(Said)] /\ told' \subseteq Clients
        /\ capping' \subseteq Clients
        /\ linked' = linked \/ linked' = IF HasUpstream(c) THEN linked \union {c} ELSE linked
        /\ cached' = cached \/ cached' = IF HasUpstream(c) THEN cached \union {c} ELSE cached
        /\ pc' = pc \/ pc' = [pc EXCEPT ![c] = "auth"]
  BY SessionAssumption, LineRuns
<1>01. Burst(c) =>
        /\ calls' = [calls EXCEPT ![c] = calls[c] - 1] /\ calls[c] - 1 \in Nat
        /\ dumps' = [dumps EXCEPT ![c] = dumps[c] + 1] /\ dumps[c] + 1 \in Nat
        /\ pc' = pc \/ pc' = [pc EXCEPT ![c] = "dump"]
        /\ registered' = registered \/ registered' = [registered EXCEPT ![c] = "net"]
        /\ \/ bursts' = bursts
           \/ bursts' = [bursts EXCEPT ![c] = bursts[c] + 1] /\ bursts[c] + 1 \in Nat
  BY BurstMoves
<1>02. Dumped(c) =>
        /\ dumps' \in [Clients -> Nat]
        /\ \/ pc' = pc /\ reg' = reg
           \/ pc' = [pc EXCEPT ![c] = "idle"] /\ reg' = [reg EXCEPT ![c] = Empty]
  BY DumpedMoves
<1> USE DEF SessionTyped, SessionTypeOK
<1>1. Empty \in Registration /\ Empty \in [names : BOOLEAN, pass : Passes \union {"unset"}]
  BY DEF Empty, Registration
<1>2. <<>> \in Seq(Said)
  BY EmptySeq
<1>3. CASE Accept(c)
  BY <1>3 DEF Accept, given, worker, world
<1>4. CASE Line(c)
  <2>1. /\ reg' \in [Clients -> [names : BOOLEAN, pass : Passes \union {"unset"}]]
        /\ queue' \in [Clients -> Seq(Said)] /\ told' \subseteq Clients
        /\ capping' \subseteq Clients
        /\ linked' \subseteq Clients /\ cached' \subseteq Clients
        /\ pc' = pc \/ pc' = [pc EXCEPT ![c] = "auth"]
    <3>1. capping \union cached \union told \union linked \subseteq Clients
      OBVIOUS
    <3>2. QED
      BY ONLY <1>0, <1>4, <3>1, c \in Clients DEF Registration
  <2>2. pc' \in [Clients -> {"idle", "auth", "register", "dump", "closing"}]
    BY <2>1
  <2>3. UNCHANGED <<where, authed, registered, calls, dumps, bursts, spans, up, setAway, timers,
                    events, sock, away, cut>>
    BY <1>4 DEF Line, given, world
  <2>4. QED
    BY <2>1, <2>2, <2>3
<1>5. CASE Login(c)
  <2>1. UNCHANGED <<where, capping, queue, setAway, timers, events, sock, away, cut>>
    BY <1>5 DEF Login
  <2>2. CASE reg[c].pass = "net" /\ Enter(c) /\ authed' = [authed EXCEPT ![c] = "net"]
             /\ registered' = registered /\ told' = told
    <3>1. /\ linked' \subseteq Clients /\ cached' \subseteq Clients
          /\ up' \in [Flags -> BOOLEAN]
      BY <2>2 DEF Enter, Flags
    <3>2. pc' \in [Clients -> {"idle", "auth", "register", "dump", "closing"}]
      BY <2>2 DEF Enter
    <3>3. PICK cs : Register(cs)
      BY <2>2 DEF Enter
    <3>4. calls' \in [Clients -> Nat] /\ UNCHANGED <<dumps, bursts, spans>>
      BY <3>3, RegisterCounts
    <3>6. reg' \in [Clients -> [names : BOOLEAN, pass : Passes \union {"unset"}]]
      BY <2>2, <1>1 DEF Enter
    <3>7. authed' \in [Clients -> {"no", "user", "net"}]
      BY <2>2
    <3>8. QED
      BY <2>1, <2>2, <3>1, <3>2, <3>4, <3>6, <3>7
  <2>3. CASE /\ told' = told \union {c} /\ pc' = [pc EXCEPT ![c] = "idle"]
             /\ UNCHANGED <<reg, authed, registered, cached, given, linked, up, opens>>
    BY <2>1, <2>3 DEF given
  <2>4. CASE /\ authed' = [authed EXCEPT ![c] = "user"]
             /\ registered' = [registered EXCEPT ![c] = "local"]
             /\ reg' = [reg EXCEPT ![c] = Empty] /\ pc' = [pc EXCEPT ![c] = "idle"]
             /\ UNCHANGED <<cached, told, given, linked, up, opens>>
    BY <2>1, <2>4, <1>1 DEF given
  <2>5. QED
    BY <1>5, <2>2, <2>3, <2>4 DEF Login
<1>51. CASE Burst(c)
  <2>1. calls' \in [Clients -> Nat] /\ dumps' \in [Clients -> Nat] /\ bursts' \in [Clients -> Nat]
    <3>1. calls \in [Clients -> Nat] /\ dumps \in [Clients -> Nat] /\ bursts \in [Clients -> Nat]
      OBVIOUS
    <3>2. QED
      BY ONLY <1>01, <1>51, <3>1
  <2>2. /\ pc' \in [Clients -> {"idle", "auth", "register", "dump", "closing"}]
        /\ registered' \in [Clients -> {"no", "local", "net"}]
    <3>1. /\ pc \in [Clients -> {"idle", "auth", "register", "dump", "closing"}]
          /\ registered \in [Clients -> {"no", "local", "net"}]
      OBVIOUS
    <3>2. QED
      BY ONLY <1>01, <1>51, <3>1
  <2>3. UNCHANGED <<where, reg, capping, queue, authed, cached, told, spans, worker, world>>
    BY <1>51, BurstMoves
  <2>4. QED
    BY <2>1, <2>2, <2>3 DEF worker, world
<1>6. CASE Dumped(c)
  <2>1. dumps' \in [Clients -> Nat]
    BY <1>6, DumpedMoves
  <2>2. /\ pc' \in [Clients -> {"idle", "auth", "register", "dump", "closing"}]
        /\ reg' \in [Clients -> [names : BOOLEAN, pass : Passes \union {"unset"}]]
    <3>1. /\ pc \in [Clients -> {"idle", "auth", "register", "dump", "closing"}]
          /\ reg \in [Clients -> [names : BOOLEAN, pass : Passes \union {"unset"}]]
      OBVIOUS
    <3>2. QED
      BY ONLY <1>02, <1>1, <1>6, <3>1
  <2>3. away' \in BOOLEAN /\ setAway' \in BOOLEAN
    BY <1>6, DumpedMoves DEF Shown
  <2>4. UNCHANGED <<where, capping, queue, authed, registered, cached, told, calls, bursts, spans,
                    up, linked, timers, events, sock, cut>>
    BY <1>6, DumpedMoves
  <2>5. QED
    BY <2>1, <2>2, <2>3, <2>4
<1>7. CASE Leave(c)
  <2>1. linked' \subseteq Clients /\ cached' \subseteq Clients
    BY <1>7 DEF Leave, Look
  <2>2. away' \in BOOLEAN /\ setAway' \in BOOLEAN
    BY <1>7 DEF Leave, Shown
  <2>3. pc' \in [Clients -> {"idle", "auth", "register", "dump", "closing"}]
    BY <1>7 DEF Leave
  <2>4. QED
    BY <1>7, <2>1, <2>2, <2>3 DEF Leave, given
<1>8. CASE Destroy(c)
  <2>1. Forget(c) /\ linked' = linked \ {c}
        /\ UNCHANGED <<calls, dumps, spans, up, setAway, timers, events, sock, away, cut>>
    BY <1>8 DEF Destroy, world
  <2>2. reg' \in [Clients -> [names : BOOLEAN, pass : Passes \union {"unset"}]]
        /\ queue' \in [Clients -> Seq(Said)]
    BY <2>1, <1>1, <1>2 DEF Forget
  <2>3. where' \in [Clients -> {"none", "here", "gone", "lost"}]
        /\ pc' \in [Clients -> {"idle", "auth", "register", "dump", "closing"}]
        /\ authed' \in [Clients -> {"no", "user", "net"}]
        /\ registered' \in [Clients -> {"no", "local", "net"}]
    BY <2>1 DEF Forget
  <2>4. bursts' \in [Clients -> Nat]
    BY <2>1 DEF Forget
  <2>5. capping' \union cached' \union told' \union linked' \subseteq Clients
    BY <2>1 DEF Forget
  <2>6. QED
    BY <2>1, <2>2, <2>3, <2>4, <2>5
<1>9. QED
  BY <1>3, <1>4, <1>5, <1>51, <1>6, <1>7, <1>8

\* What the worker does with an event of the upstream, apart from the socket.
LEMMA UpstreamTypes ==
    ASSUME SessionAssumption, SessionTyped, Upstream
    PROVE  /\ SessionTyped'
           /\ events # <<>> /\ events' = Tail(events) /\ Head(events) \in Reported
           /\ UNCHANGED <<where, pc, reg, authed, linked, setAway, away, cut>>
<1> USE DEF SessionTyped, SessionTypeOK
<1>1. /\ events # <<>> /\ events' = Tail(events)
      /\ UNCHANGED <<where, pc, reg, capping, queue, authed, cached, told, linked, setAway,
                     away, cut>>
  BY DEF Upstream
<1>2. events' \in Seq(Reported) /\ Head(events) \in Reported
  BY <1>1, HeadTailProperties
<1>3. /\ calls' \in [Clients -> Nat] /\ dumps' \in [Clients -> Nat]
      /\ bursts' \in [Clients -> Nat] /\ spans' \in [Clients -> Nat] /\ timers' \in Nat
      /\ up' \in [Flags -> BOOLEAN]
      /\ registered' \in [Clients -> {"no", "local", "net"}]
      /\ sock' \in {"none", "connecting", "open", "asked", "welcomed", "ready"}
  <2>1. CASE OnOpen
    <3>1. up' \in [Flags -> BOOLEAN]
      BY <2>1 DEF OnOpen, Flags
    <3>2. QED
      BY <2>1, <3>1 DEF OnOpen
  <2>2. CASE OnExisting
    BY <2>2 DEF OnExisting, Flags, given
  <2>3. CASE OnWelcome
    BY <2>3 DEF OnWelcome, Flags, given
  <2>4. CASE OnMotdEnd
    <3>1. PICK cs : Register(cs)
      BY <2>4 DEF OnMotdEnd
    <3>2. calls' \in [Clients -> Nat] /\ UNCHANGED <<dumps, bursts, spans>>
      BY <3>1, RegisterCounts
    <3>4. up' \in [Flags -> BOOLEAN]
      BY <2>4 DEF OnMotdEnd, Flags
    <3>5. QED
      BY <2>4, <3>2, <3>4 DEF OnMotdEnd
  <2>5. CASE OnClose
    <3>1. timers' \in Nat
      <4>1. timers \in Nat
        OBVIOUS
      <4>2. QED
        BY ONLY <4>1, <2>5 DEF OnClose
    <3>2. up' \in [Flags -> BOOLEAN]
      <4>1. CASE up' = up
        BY <4>1
      <4>2. CASE ~up["reconnecting"]
        <5> DEFINE should == up["connected"] /\ up["netRegistered"]
        <5>1. up' = [f \in Flags |-> f = "exists" \/ (f = "reconnecting" /\ should)]
          BY <2>5, <4>2 DEF OnClose
        <5>2. \A f \in Flags : (f = "exists" \/ (f = "reconnecting" /\ should)) \in BOOLEAN
          OBVIOUS
        <5> HIDE DEF should
        <5>3. QED
          BY <5>1, <5>2
      <4>3. QED
        BY <2>5, <4>1, <4>2 DEF OnClose
    <3>3. registered' \in [Clients -> {"no", "local", "net"}]
      <4>1. registered \in [Clients -> {"no", "local", "net"}]
        OBVIOUS
      <4>2. QED
        BY ONLY <4>1, <2>5 DEF OnClose
    <3>4. QED
      BY <2>5, <3>1, <3>2, <3>3 DEF OnClose, given
  <2>6. QED
    BY <2>1, <2>2, <2>3, <2>4, <2>5 DEF Upstream
<1>4. QED
  BY <1>1, <1>2, <1>3

\* The types are kept by the timers, a restart, the sockets layer and the server.
LEMMA WorldTypes ==
    ASSUME SessionAssumption, SessionTyped,
           TimerFires \/ Restart \/ SocketsOpen \/ Connects \/ Welcomes \/ EndsMotd \/ Drops
    PROVE  SessionTyped'
<1> USE DEF SessionTyped, SessionTypeOK
<1>1. \A e \in Reported : Append(events, e) \in Seq(Reported)
  BY AppendProperties
<1>2. ASSUME NEW e \in Reported, NEW to \in {"none", "open", "welcomed", "ready"}, Answers(e, to),
             away' = away \/ away' = FALSE
      PROVE  SessionTyped'
  <2>1. events' = Append(events, e)
    BY <1>2 DEF Answers
  <2>2. events' \in Seq(Reported)
    BY <2>1, <1>1
  <2>3. sock' = to /\ UNCHANGED <<client, given, worker, opens, existing, cut>>
    BY <1>2 DEF Answers
  <2>4. QED
    BY <2>2, <2>3, <1>2 DEF client, given, worker
<1>3. CASE TimerFires
  <2>1. timers \in Nat
    OBVIOUS
  <2>2. timers' \in Nat
    BY ONLY <2>1, <1>3 DEF TimerFires
  <2>3. UNCHANGED <<client, given, up, linked, setAway, events, sock, away, cut>>
    BY <1>3 DEF TimerFires
  <2>4. QED
    BY <2>2, <2>3 DEF client, given
<1>4. CASE Restart
  <2>1. where' \in [Clients -> {"none", "here", "gone", "lost"}]
    BY <1>4 DEF Restart
  <2>2. up' \in [Flags -> BOOLEAN]
    BY <1>4 DEF Restart, Flags
  <2>3. cut' \in BOOLEAN
    BY <1>4 DEF Restart
  <2>4. calls' \in [Clients -> Nat] /\ dumps' \in [Clients -> Nat] /\ timers' \in Nat
        /\ cached' = {}
    BY <1>4 DEF Restart
  <2>5. UNCHANGED <<pc, reg, capping, queue, authed, registered, told, bursts, spans, linked, setAway,
                    events, sock, away>>
    BY <1>4 DEF Restart
  <2>6. QED
    BY <2>1, <2>2, <2>3, <2>4, <2>5
<1>5. CASE SocketsOpen
  <2>1. UNCHANGED <<client, given, worker, away, cut>>
    BY <1>5 DEF SocketsOpen
  <2>2. events' \in Seq(Reported)
    BY <1>5, <1>1 DEF SocketsOpen, Reported
  <2>3. sock' \in {"none", "connecting", "open", "asked", "welcomed", "ready"}
    BY <1>5 DEF SocketsOpen
  <2>4. QED
    BY <2>1, <2>2, <2>3 DEF client, given, worker
<1>6. CASE Connects
  BY <1>6, <1>2 DEF Connects, Reported
<1>7. CASE Welcomes
  BY <1>7, <1>2 DEF Welcomes, Reported
<1>8. CASE EndsMotd
  BY <1>8, <1>2 DEF EndsMotd, Reported
<1>9. CASE Drops
  BY <1>9, <1>2 DEF Drops, Reported
<1>10. QED
  BY <1>3, <1>4, <1>5, <1>6, <1>7, <1>8, <1>9

\* Logins and the list of the upstream's clients agree after the steps of a client.
LEMMA ClientLogins ==
    ASSUME SessionAssumption, SessionTyped, LoginsAgree, ReachesEveryClient, CallsReach,
           NEW c \in Clients,
           Accept(c) \/ Line(c) \/ Login(c) \/ Burst(c) \/ Dumped(c) \/ Leave(c) \/ Destroy(c)
    PROVE  LoginsAgree' /\ ReachesEveryClient'
<1>0. Line(c) =>
        /\ where[c] = "here" /\ pc[c] = "idle"
        /\ linked' = linked \/ linked' = IF HasUpstream(c) THEN linked \union {c} ELSE linked
        /\ pc' = pc \/ (pc' = [pc EXCEPT ![c] = "auth"] /\ reg'[c].pass # "unset")
        /\ \A d \in Clients : d # c \/ authed[c] # "no" => reg'[d].pass = reg[d].pass
  BY SessionAssumption, LineRuns
<1>1. /\ pc \in [Clients -> {"idle", "auth", "register", "dump", "closing"}]
      /\ where \in [Clients -> {"none", "here", "gone", "lost"}]
      /\ authed \in [Clients -> {"no", "user", "net"}]
      /\ registered \in [Clients -> {"no", "local", "net"}]
      /\ bursts \in [Clients -> Nat] /\ DOMAIN reg = Clients
      /\ linked \subseteq Clients
  BY DEF SessionTyped, SessionTypeOK
<1>2. Empty.pass = "unset"
  BY DEF Empty
<1>F. ASSUME NEW d \in Clients, where'[d] = where[d], pc'[d] = pc[d], reg'[d].pass = reg[d].pass,
             authed'[d] = authed[d], registered'[d] = registered[d], bursts'[d] = bursts[d]
      PROVE  LoginAgrees(d)'
  BY <1>F DEF LoginsAgree, LoginAgrees
<1> USE DEF LoginsAgree, ReachesEveryClient
<1>3. CASE Accept(c)
  <2>1. /\ where[c] = "none" /\ where' = [where EXCEPT ![c] = "here"]
        /\ UNCHANGED <<pc, reg, authed, registered, bursts, linked>>
    BY <1>3 DEF Accept, worker, given
  <2>2. QED
    BY <2>1, <1>1 DEF LoginAgrees
<1>4. CASE Line(c)
  <2>1. UNCHANGED <<where, authed, registered, bursts>>
    BY <1>4 DEF Line, given
  <2>2. linked' = linked \/ (authed[c] = "net" /\ linked' = linked \union {c})
    BY <1>0, <1>4 DEF HasUpstream
  <2>3. ReachesEveryClient'
    BY <2>1, <2>2, <1>0, <1>4, <1>1
  <2>4. \A d \in Clients : pc'[d] = pc[d] \/ (d = c /\ pc'[d] = "auth" /\ reg'[d].pass # "unset")
    BY <1>0, <1>4, <1>1
  <2>5. \A d \in Clients : d # c => reg'[d].pass = reg[d].pass
    BY <1>0, <1>4
  <2>6. authed[c] # "no" => reg'[c].pass = reg[c].pass
    BY <1>0, <1>4
  <2>7. pc[c] = "idle" /\ where[c] = "here"
    BY <1>0, <1>4
  <2>8. LoginsAgree'
    <3>1. LoginAgrees(c)
      OBVIOUS
    <3>2. \/ reg'[c].pass = reg[c].pass
          \/ authed[c] = "no"
      BY <2>6
    <3>3. LoginAgrees(c)'
      BY <3>1, <3>2, <2>1, <2>4, <2>6, <2>7 DEF LoginAgrees
    <3>4. \A d \in Clients : d # c => LoginAgrees(d)'
      BY <2>1, <2>4, <2>5, <1>F
    <3>5. QED
      BY <3>3, <3>4
  <2>9. QED
    BY <2>3, <2>8
<1>5. CASE Login(c)
  <2>1. where' = where /\ pc[c] = "auth" /\ where[c] = "here" /\ authed[c] = "no"
        /\ registered[c] = "no" /\ c \notin linked
    BY <1>5, <1>1 DEF Login, LoginAgrees
  <2>2. CASE /\ authed' = [authed EXCEPT ![c] = "net"] /\ registered' = registered
             /\ Enter(c)
    <3> DEFINE ready == up["connected"] /\ up["receivedMotd"]
    <3>1. PICK cs : Register(cs)
      BY <2>2 DEF Enter
    <3>2. bursts' = bursts
      BY <3>1, RegisterCounts
    <3>3. /\ linked' = linked \union {c}
          /\ pc' = [pc EXCEPT ![c] = IF ready THEN "register" ELSE "idle"]
          /\ reg' = IF ready THEN reg ELSE [reg EXCEPT ![c] = Empty]
      BY <2>2 DEF Enter
    <3> HIDE DEF ready
    <3>4. /\ pc'[c] # "auth" /\ authed'[c] = "net"
          /\ reg'[c].pass = "unset" \/ pc'[c] = "register"
      BY <3>3, <2>2, <1>1, <1>2
    <3>5. \A d \in Clients : d # c => /\ authed'[d] = authed[d] /\ reg'[d] = reg[d]
                                      /\ pc'[d] = pc[d]
      BY <3>3, <2>2, <1>1
    <3>6. LoginsAgree'
      <4>1. LoginAgrees(c)'
        BY <2>1, <2>2, <3>2, <3>4 DEF LoginAgrees
      <4>2. \A d \in Clients : d # c => LoginAgrees(d)'
        BY <2>1, <2>2, <3>2, <3>5, <1>F
      <4>3. QED
        BY <4>1, <4>2
    <3>7. ReachesEveryClient'
      BY <2>1, <2>2, <3>3, <3>4, <3>5, <1>1
    <3>8. QED
      BY <3>6, <3>7
  <2>3. CASE /\ pc' = [pc EXCEPT ![c] = "idle"]
             /\ UNCHANGED <<reg, authed, registered, bursts, linked>>
    BY <2>1, <2>3, <1>1 DEF LoginAgrees
  <2>4. CASE /\ authed' = [authed EXCEPT ![c] = "user"]
             /\ registered' = [registered EXCEPT ![c] = "local"]
             /\ reg' = [reg EXCEPT ![c] = Empty] /\ pc' = [pc EXCEPT ![c] = "idle"]
             /\ UNCHANGED <<bursts, linked>>
    <3>1. \A d \in Clients : d # c => /\ authed'[d] = authed[d] /\ registered'[d] = registered[d]
                                      /\ reg'[d] = reg[d] /\ pc'[d] = pc[d]
      BY <2>4, <1>1
    <3>2. authed'[c] = "user" /\ registered'[c] = "local" /\ reg'[c].pass = "unset" /\ pc'[c] = "idle"
      BY <2>4, <1>1, <1>2
    <3>3. LoginsAgree'
      <4>1. LoginAgrees(c)'
        BY <2>1, <3>2 DEF LoginAgrees
      <4>2. \A d \in Clients : d # c => LoginAgrees(d)'
        BY <2>1, <2>4, <3>1, <1>F
      <4>3. QED
        BY <4>1, <4>2
    <3>4. ReachesEveryClient'
      BY <3>1, <3>2, <2>1, <2>4, <1>1
    <3>5. QED
      BY <3>3, <3>4
  <2>5. QED
    BY <1>5, <2>2, <2>3, <2>4 DEF Login, given
<1>51. CASE Burst(c)
  <2>1. /\ calls[c] > 0 /\ UNCHANGED <<where, reg, authed, linked>>
        /\ pc' = pc \/ (pc[c] = "register" /\ pc' = [pc EXCEPT ![c] = "dump"])
    BY <1>51, BurstMoves DEF worker
  <2>2. \A d \in Clients : d # c => LoginAgrees(d)'
    <3>1. \A d \in Clients : d # c => /\ pc'[d] = pc[d] /\ registered'[d] = registered[d]
                                      /\ bursts'[d] = bursts[d]
      BY <1>51, <1>1, BurstMoves
    <3>2. QED
      BY <3>1, <2>1, <1>F
  <2>3. CASE where[c] = "here"
    <3>1. c \in linked /\ authed[c] = "net"
      BY <2>1, <2>3 DEF CallsReach
    <3>2. LoginAgrees(c)
      OBVIOUS
    <3>3. LoginAgrees(c)'
      BY <3>1, <3>2, <2>1, <2>3, <1>1 DEF LoginAgrees
    <3>4. \A d \in Clients : d # c => registered'[d] = registered[d]
      BY <1>51, <1>1, BurstMoves
    <3>5. ReachesEveryClient'
      BY <3>1, <3>4, <2>1
    <3>6. QED
      BY <3>3, <3>5, <2>2
  <2>4. CASE where[c] # "here"
    <3>1. registered' = registered /\ bursts' = bursts
      BY <1>51, <2>4, BurstMoves
    <3>2. LoginAgrees(c) /\ (pc[c] # "idle" => where[c] = "here")
      BY DEF LoginAgrees
    <3>3. pc' = pc
      BY <3>2, <2>1, <2>4
    <3>4. QED
      BY <3>1, <3>3, <2>1 DEF LoginAgrees
  <2>5. QED
    BY <2>3, <2>4
<1>6. CASE Dumped(c)
  <2>1. UNCHANGED <<where, authed, registered, bursts, linked>>
    BY <1>6, DumpedMoves
  <2>2. \/ pc' = pc /\ reg' = reg
        \/ pc' = [pc EXCEPT ![c] = "idle"] /\ reg' = [reg EXCEPT ![c] = Empty]
    BY <1>6, DumpedMoves
  <2>3. \A d \in Clients : \/ pc'[d] = pc[d] /\ reg'[d] = reg[d]
                           \/ pc'[d] = "idle" /\ reg'[d].pass = "unset"
    BY <2>2, <1>1, <1>2
  <2>4. QED
    BY <2>1, <2>3 DEF LoginAgrees
<1>7. CASE Leave(c)
  <2>1. /\ where[c] = "here" /\ pc[c] = "idle" /\ pc' = [pc EXCEPT ![c] = "closing"]
        /\ linked' = linked \/ (authed[c] = "net" /\ linked' = linked \union {c})
        /\ UNCHANGED <<where, reg, authed, registered, bursts>>
    BY <1>7 DEF Leave, Look, HasUpstream, given
  <2>2. \A d \in Clients : pc'[d] = pc[d] \/ (d = c /\ pc'[d] = "closing")
    BY <2>1, <1>1
  <2>3. LoginsAgree'
    <3>1. LoginAgrees(c)'
      <4>1. LoginAgrees(c) /\ pc'[c] = "closing"
        BY <2>1, <1>1
      <4>2. QED
        BY <4>1, <2>1 DEF LoginAgrees
    <3>2. \A d \in Clients : d # c => LoginAgrees(d)'
      <4>1. \A d \in Clients : d # c => pc'[d] = pc[d]
        BY <2>1, <1>1
      <4>2. QED
        BY <4>1, <2>1, <1>F
    <3>3. QED
      BY <3>1, <3>2
  <2>4. ReachesEveryClient'
    BY <2>1, <1>1
  <2>5. QED
    BY <2>3, <2>4
<1>8. CASE Destroy(c)
  <2>1. /\ where' = [where EXCEPT ![c] = "gone"] /\ pc' = [pc EXCEPT ![c] = "idle"]
        /\ reg' = [reg EXCEPT ![c] = Empty] /\ authed' = [authed EXCEPT ![c] = "no"]
        /\ registered' = [registered EXCEPT ![c] = "no"] /\ bursts' = [bursts EXCEPT ![c] = 0]
        /\ linked' = linked \ {c}
    BY <1>8 DEF Destroy, Forget
  <2>2. \A d \in Clients : d # c => /\ where'[d] = where[d] /\ pc'[d] = pc[d] /\ reg'[d] = reg[d]
                                    /\ authed'[d] = authed[d] /\ registered'[d] = registered[d]
                                    /\ bursts'[d] = bursts[d]
    BY <2>1, <1>1
  <2>3. /\ where'[c] = "gone" /\ pc'[c] = "idle" /\ reg'[c].pass = "unset" /\ authed'[c] = "no"
        /\ registered'[c] = "no" /\ bursts'[c] = 0
    BY <2>1, <1>1, <1>2
  <2>4. LoginsAgree'
    <3>1. LoginAgrees(c)'
      BY <2>3 DEF LoginAgrees
    <3>2. \A d \in Clients : d # c => LoginAgrees(d)'
      BY <2>2, <1>F
    <3>3. QED
      BY <3>1, <3>2
  <2>5. \A d \in Clients : where'[d] = "here" /\ registered'[d] = "net" => d \in linked'
    <3>1. TAKE d \in Clients
    <3>2. HAVE where'[d] = "here" /\ registered'[d] = "net"
    <3>3. d # c
      BY <2>3, <3>2
    <3>4. d \in linked
      BY <2>2, <3>2, <3>3
    <3>5. QED
      BY <2>1, <3>3, <3>4
  <2>6. \A d \in linked' : where'[d] = "here" /\ authed'[d] = "net"
    <3>1. TAKE d \in linked'
    <3>2. d \in linked /\ d # c /\ d \in Clients
      BY <2>1, <1>1
    <3>3. QED
      BY <2>2, <3>2
  <2>7. ReachesEveryClient'
    BY <2>5, <2>6
  <2>8. QED
    BY <2>4, <2>7
<1>9. QED
  BY <1>3, <1>4, <1>5, <1>51, <1>6, <1>7, <1>8

\* ... and after an event of the upstream.
LEMMA UpstreamLogins ==
    ASSUME SessionAssumption, SessionTyped, LoginsAgree, ReachesEveryClient, Upstream
    PROVE  LoginsAgree' /\ ReachesEveryClient'
<1>1. UNCHANGED <<where, pc, reg, authed, linked>>
  BY DEF Upstream
<1>2. /\ authed \in [Clients -> {"no", "user", "net"}]
      /\ registered \in [Clients -> {"no", "local", "net"}]
      /\ bursts \in [Clients -> Nat] /\ linked \subseteq Clients
  BY DEF SessionTyped, SessionTypeOK
<1>F. ASSUME NEW d \in Clients, where'[d] = where[d], pc'[d] = pc[d], reg'[d].pass = reg[d].pass,
             authed'[d] = authed[d], registered'[d] = registered[d], bursts'[d] = bursts[d]
      PROVE  LoginAgrees(d)'
  BY <1>F DEF LoginsAgree, LoginAgrees
<1> USE DEF LoginsAgree, ReachesEveryClient
<1>3. CASE OnOpen
  <2>1. registered' = registered /\ \A c \in Clients : bursts'[c] = 0
    BY <1>3 DEF OnOpen
  <2>2. QED
    BY <1>1, <2>1 DEF LoginAgrees
<1>4. CASE OnExisting \/ OnWelcome
  <2>1. registered' = registered /\ bursts' = bursts
    BY <1>4 DEF OnExisting, OnWelcome, given
  <2>2. QED
    BY <1>1, <2>1 DEF LoginAgrees
<1>5. CASE OnMotdEnd
  <2>1. PICK cs : Register(cs) /\ registered' = registered
    BY <1>5 DEF OnMotdEnd
  <2>2. bursts' = bursts
    BY <2>1, RegisterCounts
  <2>3. QED
    BY <1>1, <2>1, <2>2 DEF LoginAgrees
<1>6. CASE OnClose
  <2>1. bursts' = bursts
    BY <1>6 DEF OnClose, given
  <2>2. \A c \in Clients : registered'[c] = registered[c]
                           \/ (c \in linked /\ registered'[c] = "local")
    BY <1>6 DEF OnClose, Reached
  <2>3. \A c \in linked : authed[c] # "no"
    OBVIOUS
  <2>4. QED
    BY <1>1, <2>1, <2>2, <2>3 DEF LoginAgrees
<1>7. QED
  BY <1>3, <1>4, <1>5, <1>6 DEF Upstream

\* ... and after all that the worker, the sockets layer and the server do by themselves.
LEMMA WorldLogins ==
    ASSUME SessionAssumption, SessionTyped, LoginsAgree, ReachesEveryClient,
           TimerFires \/ Restart \/ SocketsOpen \/ Connects \/ Welcomes \/ EndsMotd \/ Drops
    PROVE  LoginsAgree' /\ ReachesEveryClient'
<1>F. ASSUME NEW d \in Clients, where'[d] = where[d], pc'[d] = pc[d], reg'[d].pass = reg[d].pass,
             authed'[d] = authed[d], registered'[d] = registered[d], bursts'[d] = bursts[d]
      PROVE  LoginAgrees(d)'
  BY <1>F DEF LoginsAgree, LoginAgrees
<1> USE DEF LoginsAgree, ReachesEveryClient
<1>1. CASE Restart
  <2>1. /\ \A c \in Clients : pc[c] = "idle"
        /\ \A c \in Clients : where'[c] = IF where[c] = "here" /\ authed[c] = "no"
                                          THEN "lost" ELSE where[c]
        /\ UNCHANGED <<pc, reg, authed, registered, bursts, linked>>
    BY <1>1 DEF Restart
  <2>2. linked \subseteq Clients
    BY DEF SessionTyped, SessionTypeOK
  <2>3. QED
    BY <2>1, <2>2 DEF LoginAgrees
<1>2. ASSUME UNCHANGED <<where, pc, reg, authed, registered, bursts, linked>>
      PROVE  LoginsAgree' /\ ReachesEveryClient'
  BY <1>2 DEF LoginAgrees
<1>3. CASE TimerFires
  BY <1>2, <1>3 DEF TimerFires, client, given
<1>4. CASE SocketsOpen
  BY <1>2, <1>4 DEF SocketsOpen, client, given, worker
<1>5. CASE Connects \/ Welcomes \/ EndsMotd \/ Drops
  BY <1>2, <1>5 DEF Connects, Welcomes, EndsMotd, Drops, Answers, client, given, worker
<1>6. QED
  BY <1>1, <1>3, <1>4, <1>5

\* registerClient() keeps to the clients of the upstream, whatever happens to them.
LEMMA CallsStay ==
    ASSUME SessionAssumption, SessionTyped, LoginsAgree, ReachesEveryClient, CallsReach,
           [SessionNext]_sessionVars
    PROVE  CallsReach'
<1>1. /\ where \in [Clients -> {"none", "here", "gone", "lost"}] /\ calls \in [Clients -> Nat]
      /\ linked \subseteq Clients
  BY DEF SessionTyped, SessionTypeOK
\* No call is made, and nobody is taken off the list.
<1>2. ASSUME \A d \in Clients : calls'[d] > 0 => calls[d] > 0, linked \subseteq linked',
             \A d \in Clients : where[d] = "gone" => where'[d] = "gone"
      PROVE  CallsReach'
  BY <1>2 DEF CallsReach
<1>3. ASSUME NEW c \in Clients, Accept(c)
      PROVE  CallsReach'
  BY <1>3, <1>2, <1>1 DEF Accept, given, worker
<1>4. ASSUME NEW c \in Clients, Line(c)
      PROVE  CallsReach'
  <2>1. linked \subseteq linked'
    BY <1>4, SessionAssumption, LineRuns
  <2>2. QED
    BY <1>4, <1>2, <2>1 DEF Line, given
<1>5. ASSUME NEW c \in Clients, Login(c)
      PROVE  CallsReach'
  <2>1. where' = where
    BY <1>5 DEF Login
  <2>2. CASE UNCHANGED <<calls, linked>>
    BY <1>2, <2>1, <2>2
  <2>3. CASE Enter(c)
    <3>1. PICK cs : Register(cs) /\ cs \subseteq {c} /\ linked' = linked \union {c}
      BY <2>3 DEF Enter
    <3>2. \A d \in Clients : d # c => calls'[d] = calls[d]
      BY <3>1, <1>1, RegisterCounts
    <3>3. QED
      BY <3>1, <3>2, <2>1 DEF CallsReach
  <2>4. QED
    BY <1>5, <2>2, <2>3 DEF Login, given
<1>6. ASSUME NEW c \in Clients, Burst(c)
      PROVE  CallsReach'
  <2>1. /\ calls' = [calls EXCEPT ![c] = calls[c] - 1] /\ calls[c] > 0
        /\ UNCHANGED <<where, linked>>
    BY <1>6, BurstMoves DEF worker
  <2>2. \A d \in Clients : calls'[d] > 0 => calls[d] > 0
    BY <2>1, <1>1
  <2>3. QED
    BY <2>1, <2>2, <1>2
<1>7. ASSUME NEW c \in Clients, Dumped(c)
      PROVE  CallsReach'
  BY <1>7, <1>2, DumpedMoves
<1>8. ASSUME NEW c \in Clients, Leave(c)
      PROVE  CallsReach'
  BY <1>8, <1>2 DEF Leave, Look, given
<1>9. ASSUME NEW c \in Clients, Destroy(c)
      PROVE  CallsReach'
  <2>1. /\ calls' = calls /\ linked' = linked \ {c}
        /\ where' = [where EXCEPT ![c] = "gone"]
    BY <1>9 DEF Destroy, Forget
  <2>2. QED
    BY <2>1, <1>1 DEF CallsReach
<1>10. CASE Upstream
  <2>1. UNCHANGED <<where, linked>>
    BY <1>10 DEF Upstream
  <2>2. CASE calls' = calls
    BY <2>1, <2>2, <1>2
  <2>3. CASE OnMotdEnd
    <3>1. PICK cs : Register(cs) /\ cs \subseteq linked
      BY <2>3 DEF OnMotdEnd, Reached
    <3>2. \A d \in Clients : calls'[d] > 0 => calls[d] > 0 \/ d \in linked
      BY <3>1, <1>1, RegisterCounts
    <3>3. QED
      BY <3>2, <2>1 DEF CallsReach
  <2>4. QED
    BY <1>10, <2>2, <2>3 DEF Upstream, OnOpen, OnExisting, OnWelcome, OnClose, given
<1>11. CASE Restart
  <2>1. \A d \in Clients : calls'[d] = 0
    BY <1>11 DEF Restart
  <2>2. QED
    BY <2>1 DEF CallsReach
<1>12. CASE \/ TimerFires \/ SocketsOpen \/ Connects \/ Welcomes \/ EndsMotd \/ Drops
            \/ UNCHANGED sessionVars
  <2>1. UNCHANGED <<where, calls, linked>>
    BY <1>12 DEF TimerFires, SocketsOpen, Connects, Welcomes, EndsMotd, Drops, Answers,
                 sessionVars, client, given, worker
  <2>2. QED
    BY <2>1, <1>2
<1>13. QED
  BY <1>3, <1>4, <1>5, <1>6, <1>7, <1>8, <1>9, <1>10, <1>11, <1>12 DEF SessionNext

\* Who is shown as away has no client that is fully registered, after the steps of a client.
LEMMA ClientAway ==
    ASSUME SessionAssumption, SessionTyped, LoginsAgree, ReachesEveryClient, AwayIsNoted,
           NeverAwayWithClients, NEW c \in Clients,
           Accept(c) \/ Line(c) \/ Login(c) \/ Burst(c) \/ Dumped(c) \/ Leave(c) \/ Destroy(c)
    PROVE  AwayIsNoted' /\ NeverAwayWithClients'
<1>0. Line(c) => /\ pc[c] = "idle"
                 /\ pc' = pc \/ pc' = [pc EXCEPT ![c] = "auth"]
  BY SessionAssumption, LineRuns
<1>1. /\ pc \in [Clients -> {"idle", "auth", "register", "dump", "closing"}]
      /\ where \in [Clients -> {"none", "here", "gone", "lost"}]
      /\ registered \in [Clients -> {"no", "local", "net"}]
      /\ DOMAIN dumps = Clients /\ away \in BOOLEAN /\ setAway \in BOOLEAN
  BY DEF SessionTyped, SessionTypeOK
<1>2. CASE Accept(c)
  <2>1. /\ where[c] = "none" /\ where' = [where EXCEPT ![c] = "here"]
        /\ UNCHANGED <<pc, registered, dumps, setAway, sock, away, cut>>
    BY <1>2 DEF Accept, given, worker, world
  <2>2. registered[c] = "no"
    BY <2>1 DEF LoginsAgree, LoginAgrees
  <2>3. \A d \in Clients : d # c => where'[d] = where[d]
    BY <2>1, <1>1
  <2>4. QED
    BY <2>1, <2>2, <2>3 DEF AwayIsNoted, NeverAwayWithClients
<1>3. CASE Line(c)
  <2>1. UNCHANGED <<where, registered, dumps, setAway, sock, away, cut>>
    BY <1>3 DEF Line, given, world
  <2>2. \A d \in Clients : pc[d] = "closing" => pc'[d] = "closing"
    BY <1>0, <1>3, <1>1
  <2>3. QED
    BY <2>1, <2>2 DEF AwayIsNoted, NeverAwayWithClients
<1>4. CASE Login(c)
  <2>1. pc[c] = "auth" /\ UNCHANGED <<where, setAway, sock, away, cut>>
    BY <1>4 DEF Login
  <2>2. AwayIsNoted'
    BY <2>1 DEF AwayIsNoted
  <2>3. CASE UNCHANGED <<registered, dumps>> /\ pc' = [pc EXCEPT ![c] = "idle"]
    <3>1. \A d \in Clients : pc[d] = "closing" => pc'[d] = "closing"
      BY <2>1, <2>3, <1>1
    <3>2. QED
      BY <2>1, <2>2, <2>3, <3>1 DEF NeverAwayWithClients
  <2>4. CASE /\ registered' = [registered EXCEPT ![c] = "local"] /\ dumps' = dumps
             /\ pc' = [pc EXCEPT ![c] = "idle"]
    <3>1. \A d \in Clients : pc[d] = "closing" => pc'[d] = "closing"
      BY <2>1, <2>4, <1>1
    <3>2. \A d \in Clients : registered'[d] = "net" => registered[d] = "net"
      BY <2>4, <1>1
    <3>3. QED
      BY <2>1, <2>2, <2>4, <3>1, <3>2 DEF NeverAwayWithClients
  <2>5. CASE Enter(c) /\ registered' = registered
    <3>1. PICK cs : Register(cs)
      BY <2>5 DEF Enter
    <3>2. dumps' = dumps
      BY <3>1, RegisterCounts
    <3>3. \A d \in Clients : d # c => pc'[d] = pc[d]
      BY <2>5, <1>1 DEF Enter
    <3>4. \A d \in Clients : pc[d] = "closing" => pc'[d] = "closing"
      BY <2>1, <3>3
    <3>5. QED
      BY <2>1, <2>2, <2>5, <3>2, <3>4 DEF NeverAwayWithClients
  <2>6. QED
    BY <1>4, <2>3, <2>4, <2>5 DEF Login, given
<1>41. CASE Burst(c)
  <2>1. /\ dumps' = [dumps EXCEPT ![c] = dumps[c] + 1] /\ dumps[c] + 1 > 0
        /\ \A d \in Clients : d # c => registered'[d] = registered[d]
        /\ \A d \in Clients : pc[d] = "closing" => pc'[d] = "closing"
        /\ UNCHANGED <<where, setAway, sock, away, cut>>
    <3>1. dumps[c] \in Nat
      BY DEF SessionTyped, SessionTypeOK
    <3>2. QED
      BY <3>1, <1>41, <1>1, BurstMoves DEF worker, world
  <2>2. dumps'[c] > 0 /\ \A d \in Clients : d # c => dumps'[d] = dumps[d]
    BY <2>1, <1>1
  <2>3. QED
    BY <2>1, <2>2 DEF AwayIsNoted, NeverAwayWithClients
<1>5. CASE Dumped(c)
  <2>1. /\ IF setAway THEN Shown(FALSE) ELSE away' = away
        /\ setAway' = FALSE /\ sock' = sock
    BY <1>5, DumpedMoves
  <2>2. away' = FALSE
    BY <2>1, <1>1 DEF Shown, AwayIsNoted
  <2>3. QED
    BY <2>2 DEF AwayIsNoted, NeverAwayWithClients
<1>6. CASE Leave(c)
  <2>1. /\ where[c] = "here" /\ pc' = [pc EXCEPT ![c] = "closing"]
        /\ UNCHANGED <<where, registered, dumps, sock, cut>>
        /\ \/ UNCHANGED <<setAway, away>>
           \/ setAway' = TRUE /\ Shown(TRUE) /\ Reached \ {c} = {}
    BY <1>6 DEF Leave, given
  <2>2. AwayIsNoted'
    BY <2>1 DEF AwayIsNoted, Shown
  <2>3. pc'[c] = "closing" /\ \A d \in Clients : d # c => pc'[d] = pc[d]
    BY <2>1, <1>1
  <2>4. CASE UNCHANGED <<setAway, away>>
    BY <2>1, <2>2, <2>3, <2>4 DEF NeverAwayWithClients
  <2>5. CASE Reached \ {c} = {}
    <3>1. \A d \in Clients : where[d] = "here" /\ registered[d] = "net" => d = c
      BY <2>5 DEF Reached, ReachesEveryClient
    <3>2. QED
      BY <2>1, <2>2, <2>3, <3>1 DEF NeverAwayWithClients
  <2>6. QED
    BY <2>1, <2>4, <2>5
<1>7. CASE Destroy(c)
  <2>1. /\ where' = [where EXCEPT ![c] = "gone"] /\ pc' = [pc EXCEPT ![c] = "idle"]
        /\ registered' = [registered EXCEPT ![c] = "no"]
        /\ UNCHANGED <<dumps, setAway, sock, away, cut>>
    BY <1>7 DEF Destroy, Forget, world
  <2>2. where'[c] = "gone"
    BY <2>1, <1>1
  <2>3. \A d \in Clients : d # c => /\ where'[d] = where[d] /\ pc'[d] = pc[d]
                                    /\ registered'[d] = registered[d]
    BY <2>1, <1>1
  <2>4. QED
    BY <2>1, <2>2, <2>3 DEF AwayIsNoted, NeverAwayWithClients
<1>8. QED
  BY <1>2, <1>3, <1>4, <1>41, <1>5, <1>6, <1>7

\* ... after an event of the upstream.
LEMMA UpstreamAway ==
    ASSUME SessionAssumption, SessionTyped, AwayIsNoted, NeverAwayWithClients, Upstream
    PROVE  AwayIsNoted' /\ NeverAwayWithClients'
<1>1. UNCHANGED <<where, pc, setAway, away, cut>>
  BY DEF Upstream
<1>2. ASSUME sock' = sock \/ sock = "open",
             \A c \in Clients : /\ registered'[c] = registered[c] \/ registered'[c] # "net"
                                /\ dumps'[c] = dumps[c]
      PROVE  AwayIsNoted' /\ NeverAwayWithClients'
  BY <1>1, <1>2 DEF AwayIsNoted, NeverAwayWithClients
<1>3. CASE OnOpen \/ OnExisting \/ OnWelcome
  BY <1>2, <1>3 DEF OnOpen, OnExisting, OnWelcome, given
<1>4. CASE OnMotdEnd
  <2>1. PICK cs : Register(cs) /\ UNCHANGED <<registered, sock>>
    BY <1>4 DEF OnMotdEnd
  <2>2. dumps' = dumps
    BY <2>1, RegisterCounts
  <2>3. QED
    BY <1>2, <2>1, <2>2
<1>5. CASE OnClose
  <2>1. dumps' = dumps /\ sock' = sock
    BY <1>5 DEF OnClose, given
  <2>2. \A c \in Clients : registered'[c] = registered[c] \/ registered'[c] # "net"
    BY <1>5 DEF OnClose, given
  <2>3. QED
    BY <2>1, <2>2, <1>2
<1>6. QED
  BY <1>3, <1>4, <1>5 DEF Upstream

\* ... and after all the rest: a restart that forgets the dumps is noted.
LEMMA WorldAway ==
    ASSUME SessionAssumption, SessionTyped, AwayIsNoted, NeverAwayWithClients,
           TimerFires \/ Restart \/ SocketsOpen \/ Connects \/ Welcomes \/ EndsMotd \/ Drops
    PROVE  AwayIsNoted' /\ NeverAwayWithClients'
<1>1. CASE TimerFires
  BY <1>1 DEF TimerFires, client, given, AwayIsNoted, NeverAwayWithClients
<1>2. CASE Restart
  <2>1. /\ \A c \in Clients : pc[c] = "idle"
        /\ \A c \in Clients : where'[c] = "here" => where[c] = "here"
        /\ cut' = (cut \/ \E c \in Clients : dumps[c] > 0)
        /\ UNCHANGED <<pc, registered, setAway, sock, away>>
    BY <1>2 DEF Restart
  <2>2. QED
    BY <2>1 DEF AwayIsNoted, NeverAwayWithClients
<1>3. CASE SocketsOpen
  <2>1. /\ UNCHANGED <<where, pc, registered, dumps, setAway, away, cut>>
        /\ sock' = sock \/ sock = "none"
    BY <1>3 DEF SocketsOpen, client, given, worker
  <2>2. QED
    BY <2>1 DEF AwayIsNoted, NeverAwayWithClients
<1>4. ASSUME NEW e, NEW to, Answers(e, to),
             \/ to \in {"welcomed", "ready"} /\ away' = away
             \/ sock = "connecting" /\ away' = away
             \/ away' = FALSE
      PROVE  AwayIsNoted' /\ NeverAwayWithClients'
  <2>1. /\ UNCHANGED <<where, pc, registered, dumps, setAway, cut>>
        /\ sock' = to
    BY <1>4 DEF Answers, client, given, worker
  <2>2. QED
    BY <1>4, <2>1 DEF AwayIsNoted, NeverAwayWithClients
<1>5. CASE Connects \/ Welcomes \/ EndsMotd
  BY <1>4, <1>5 DEF Connects, Welcomes, EndsMotd
<1>6. CASE Drops
  BY <1>4, <1>6 DEF Drops
<1>7. QED
  BY <1>1, <1>2, <1>3, <1>5, <1>6

\* The bursts that were given are the same, or were just given while the MOTD had been
\* received: no event is about another connection than it was.
LEMMA MotdsStay ==
    ASSUME SessionTyped, MotdsAreFirst, Unburst => Unburst', events' = events, sock' = sock
    PROVE  MotdsAreFirst'
<1>1. ASSUME NEW i, BurstsAre(events, Unburst, i)
      PROVE  BurstsAre(events, Unburst, i)'
  BY <1>1 DEF BurstsAre, Announced
<1>2. \A i \in 1..Len(events') : events'[i] = "376" => BurstsAre(events, Unburst, i)'
  BY <1>1 DEF MotdsAreFirst
<1>3. sock' \in {"open", "asked", "welcomed"} => BurstsAre(events, Unburst, Len(events) + 1)'
  BY <1>1 DEF MotdsAreFirst
<1>4. QED
  BY <1>2, <1>3 DEF MotdsAreFirst

\* No client is given a second burst by a step of its own.
LEMMA ClientBursts ==
    ASSUME SessionAssumption, SessionTyped, LoginsAgree, ReachesEveryClient, CallsReach,
           BurstsCounted, MotdsAreFirst, NEW c \in Clients,
           Accept(c) \/ Line(c) \/ Login(c) \/ Burst(c) \/ Dumped(c) \/ Leave(c) \/ Destroy(c)
    PROVE  BurstsCounted' /\ MotdsAreFirst'
<1>1. /\ \A d \in Clients : bursts[d] \in Nat /\ calls[d] \in Nat /\ spans[d] \in Nat
      /\ DOMAIN bursts = Clients /\ DOMAIN calls = Clients
  BY DEF SessionTyped, SessionTypeOK
<1>2. events' = events /\ sock' = sock /\ spans' = spans
  <2>1. Burst(c) => events' = events /\ sock' = sock /\ spans' = spans
    BY BurstMoves DEF world
  <2>2. Dumped(c) => events' = events /\ sock' = sock /\ spans' = spans
    BY DumpedMoves
  <2>3. Login(c) => events' = events /\ sock' = sock /\ spans' = spans
    BY DEF Login, Enter, Register, given
  <2>4. QED
    BY <2>1, <2>2, <2>3 DEF Accept, Line, Leave, Destroy, given, world
\* No client is given or promised more.
<1>3. ASSUME \A d \in Clients : /\ bursts'[d] \in Nat /\ calls'[d] \in Nat
                                /\ bursts'[d] + calls'[d] <= bursts[d] + calls[d],
             up' = up
      PROVE  BurstsCounted' /\ MotdsAreFirst'
  <2>1. \A d \in Clients : /\ bursts'[d] + calls'[d] \in Nat /\ bursts[d] + calls[d] \in Nat
                           /\ 1 + spans[d] \in Nat /\ spans[d] \in Nat
    BY <1>1, <1>3
  <2>2. BurstsCounted'
    BY <2>1, <1>2, <1>3 DEF BurstsCounted
  <2>3. Unburst => Unburst'
    BY <2>1, <1>2, <1>3 DEF Unburst
  <2>4. QED
    BY <2>2, <2>3, <1>2, MotdsStay
<1>4. CASE UNCHANGED <<bursts, calls, up>>
  BY <1>1, <1>3, <1>4
<1>5. CASE Destroy(c)
  <2>1. bursts' = [bursts EXCEPT ![c] = 0] /\ UNCHANGED <<calls, up>>
    BY <1>5 DEF Destroy, Forget
  <2>2. \A d \in Clients : bursts'[d] = IF d = c THEN 0 ELSE bursts[d]
    BY <2>1, <1>1
  <2>3. QED
    BY <2>1, <2>2, <1>1, <1>3
<1>6. CASE Login(c) /\ Enter(c)
  <2> DEFINE ready == up["connected"] /\ up["receivedMotd"]
  <2> DEFINE cs == IF ready THEN {c} ELSE {}
  <2>1. Register(cs) /\ up' = [up EXCEPT !["exists"] = TRUE]
    BY <1>6 DEF Enter
  <2>2. up'["receivedMotd"] = up["receivedMotd"]
    BY <2>1 DEF SessionTyped, SessionTypeOK, Flags
  <2>3. bursts[c] = 0 /\ calls[c] = 0
    <3>1. pc[c] = "auth" /\ LoginAgrees(c)
      BY <1>6 DEF Login, LoginsAgree
    <3>2. authed[c] = "no" /\ where[c] = "here"
      BY <3>1 DEF LoginAgrees, SessionTyped, SessionTypeOK
    <3>3. c \notin linked
      BY <3>2 DEF ReachesEveryClient
    <3>4. QED
      BY <3>1, <3>2, <3>3, <1>1 DEF CallsReach, LoginAgrees
  <2>4. (cs = {c} /\ up["receivedMotd"]) \/ cs = {}
    OBVIOUS
  <2> HIDE DEF ready, cs
  <2>5. \A d \in Clients : /\ bursts'[d] = bursts[d]
                           /\ calls'[d] = calls[d] + IF d \in cs THEN 1 ELSE 0
    BY <2>1, RegisterCounts
  <2>6. BurstsCounted'
    BY <2>3, <2>4, <2>5, <1>1, <1>2 DEF BurstsCounted
  <2>7. Unburst => Unburst'
    BY <2>2, <2>4, <2>5, <1>1, <1>2 DEF Unburst
  <2>8. QED
    BY <2>6, <2>7, <1>2, MotdsStay
<1>7. CASE Burst(c)
  <2>1. /\ calls[c] > 0 /\ calls' = [calls EXCEPT ![c] = calls[c] - 1]
        /\ bursts' = bursts \/ bursts' = [bursts EXCEPT ![c] = bursts[c] + 1]
        /\ up' = up
    BY <1>7, BurstMoves DEF worker
  <2>2. \A d \in Clients : d # c => calls'[d] = calls[d] /\ bursts'[d] = bursts[d]
    BY <2>1, <1>1
  <2>3. calls'[c] = calls[c] - 1 /\ (bursts'[c] = bursts[c] \/ bursts'[c] = bursts[c] + 1)
    BY <2>1, <1>1
  <2>4. QED
    BY <2>1, <2>2, <2>3, <1>1, <1>3
<1>8. CASE Dumped(c)
  BY <1>8, <1>4, DumpedMoves
<1>9. QED
  BY <1>4, <1>5, <1>6, <1>7, <1>8 DEF Accept, Line, Login, Leave, given, worker

\* ... nor by an event of the upstream.
LEMMA UpstreamBursts ==
    ASSUME SessionAssumption, SessionTyped, BurstsCounted, MotdsAreFirst, Upstream
    PROVE  BurstsCounted' /\ MotdsAreFirst'
<1>1. /\ \A d \in Clients : bursts[d] \in Nat /\ calls[d] \in Nat /\ spans[d] \in Nat
      /\ up \in [Flags -> BOOLEAN] /\ events \in Seq(Reported)
  BY DEF SessionTyped, SessionTypeOK
<1>2. events # <<>> /\ events' = Tail(events)
  BY DEF Upstream
<1>3. /\ Len(events) \in Nat /\ Len(events') = Len(events) - 1 /\ Len(events) > 0
      /\ Head(events) = events[1]
  BY <1>1, <1>2, EmptySeq, LenProperties, HeadTailProperties DEF Head
<1>4. \A i \in 1..Len(events') : i + 1 \in 1..Len(events) /\ events'[i] = events[i + 1]
  BY <1>1, <1>2, <1>3, HeadTailProperties
\* The bursts are those that the next events are about.
<1>5. ASSUME Head(events) = "open" => Unburst',
             Head(events) \notin {"open", "close"} => (Unburst => Unburst'),
             sock' \in {"open", "asked", "welcomed"} => sock \in {"open", "asked", "welcomed"}
      PROVE  MotdsAreFirst'
  <2>1. Unburst \in BOOLEAN /\ Unburst' \in BOOLEAN
    BY <1>1 DEF Unburst, Flags
  <2>2. ASSUME NEW i \in 1..(Len(events) + 1), BurstsAre(events, Unburst, i), i # 1
        PROVE  BurstsAre(Tail(events), Unburst', i - 1)
    BY <2>2, <2>1, <1>1, <1>2, <1>5, BurstsShift
  <2>3. \A i \in 1..Len(events') :
           events'[i] = "376" => BurstsAre(events', Unburst', i)
    <3> SUFFICES ASSUME NEW i \in 1..Len(events'), events'[i] = "376"
                 PROVE  BurstsAre(events', Unburst', i)
      OBVIOUS
    <3>1. i + 1 \in 1..Len(events) /\ events[i + 1] = "376"
      BY <1>4
    <3>2. BurstsAre(events, Unburst, i + 1)
      BY <3>1 DEF MotdsAreFirst
    <3>3. i + 1 \in 1..(Len(events) + 1) /\ i + 1 # 1 /\ (i + 1) - 1 = i
      BY <3>1, <1>3
    <3>4. BurstsAre(Tail(events), Unburst', (i + 1) - 1)
      BY ONLY <2>2, <3>2, <3>3
    <3>5. QED
      BY <3>3, <3>4, <1>2
  <2>4. sock' \in {"open", "asked", "welcomed"} => BurstsAre(events', Unburst', Len(events') + 1)
    <3> SUFFICES ASSUME sock' \in {"open", "asked", "welcomed"}
                 PROVE  BurstsAre(events', Unburst', Len(events') + 1)
      OBVIOUS
    <3>1. BurstsAre(events, Unburst, Len(events) + 1)
      BY <1>5 DEF MotdsAreFirst
    <3>2. /\ Len(events) + 1 \in 1..(Len(events) + 1) /\ Len(events) + 1 # 1
          /\ (Len(events) + 1) - 1 = Len(events') + 1
      BY <1>3
    <3>3. BurstsAre(Tail(events), Unburst', (Len(events) + 1) - 1)
      BY ONLY <2>2, <3>1, <3>2
    <3>4. QED
      BY <3>2, <3>3, <1>2
  <2>5. QED
    BY <2>3, <2>4 DEF MotdsAreFirst
<1>6. CASE Head(events) = "open" /\ OnOpen
  <2>1. /\ \A d \in Clients : bursts'[d] = 0 /\ calls'[d] = calls[d] /\ spans'[d] = calls[d]
        /\ (sock' = sock \/ (sock = "open" /\ sock' = "asked"))
    BY <1>6 DEF OnOpen
  <2>2. \A d \in Clients : /\ bursts'[d] + calls'[d] = spans'[d]
                           /\ bursts'[d] + calls'[d] <= 1 + spans'[d]
                           /\ bursts'[d] + calls'[d] <= spans'[d]
    BY <2>1, <1>1
  <2>21. BurstsCounted' /\ Unburst'
    BY <2>2 DEF BurstsCounted, Unburst
  <2>3. QED
    BY <1>5, <1>6, <2>1, <2>21
<1>7. CASE Head(events) = "existing" /\ OnExisting
  <2>1. /\ UNCHANGED <<bursts, calls, spans>> /\ sock' = sock
        /\ up'["receivedMotd"] = TRUE
    BY <1>7, <1>1 DEF OnExisting, Flags, given
  <2>2. QED
    BY <1>5, <1>7, <2>1 DEF BurstsCounted, Unburst
<1>8. CASE Head(events) = "001" /\ OnWelcome
  <2>1. /\ UNCHANGED <<bursts, calls, spans>> /\ sock' = sock
        /\ up'["receivedMotd"] = up["receivedMotd"]
    BY <1>8, <1>1 DEF OnWelcome, Flags, given
  <2>2. QED
    BY <1>5, <1>8, <2>1 DEF BurstsCounted, Unburst
<1>9. CASE Head(events) = "376" /\ OnMotdEnd
  <2> DEFINE cs == IF up["receivedMotd"] THEN {} ELSE Reached
  <2>1. Register(cs) /\ sock' = sock /\ up'["receivedMotd"] = TRUE
    BY <1>9, <1>1 DEF OnMotdEnd, Flags
  <2>2. cs = {} \/ up["receivedMotd"] = FALSE
    BY <1>1 DEF Flags
  <2> HIDE DEF cs
  <2>3. Unburst
    <3>1. events[1] = "376" /\ 1 \in 1..Len(events)
      BY <1>3, <1>9
    <3>2. BurstsAre(events, Unburst, 1)
      BY <3>1 DEF MotdsAreFirst
    <3>3. ~ Announced(events, 1)
      BY DEF Announced
    <3>4. QED
      BY <3>2, <3>3 DEF BurstsAre
  <2>4. cs = {} \/ \A d \in Clients : bursts[d] + calls[d] <= spans[d]
    BY <2>2, <2>3 DEF Unburst
  <2>5. \A d \in Clients : /\ bursts'[d] = bursts[d] /\ spans'[d] = spans[d]
                           /\ calls'[d] = calls[d] + IF d \in cs THEN 1 ELSE 0
    BY <2>1, RegisterCounts
  <2>6. BurstsCounted'
    BY <2>4, <2>5, <1>1 DEF BurstsCounted
  <2>7. Unburst'
    BY <2>1 DEF Unburst
  <2>8. QED
    BY <1>5, <1>9, <2>1, <2>6, <2>7
<1>10. CASE Head(events) = "close" /\ OnClose
  <2>1. UNCHANGED <<bursts, calls, spans>> /\ sock' = sock
    BY <1>10 DEF OnClose, given
  <2>2. QED
    BY <1>5, <1>10, <2>1 DEF BurstsCounted
<1>11. QED
  BY <1>6, <1>7, <1>8, <1>9, <1>10 DEF Upstream

\* ... nor by what the worker, the sockets layer and the server do by themselves.
LEMMA WorldBursts ==
    ASSUME SessionAssumption, SessionTyped, BurstsCounted, MotdsAreFirst,
           TimerFires \/ Restart \/ SocketsOpen \/ Connects \/ Welcomes \/ EndsMotd \/ Drops
    PROVE  BurstsCounted' /\ MotdsAreFirst'
<1>1. events \in Seq(Reported) /\ up \in [Flags -> BOOLEAN] /\ Len(events) \in Nat
  BY LenProperties DEF SessionTyped, SessionTypeOK
<1>2. CASE Restart
  <2>1. /\ \A d \in Clients : bursts[d] \in Nat /\ calls[d] \in Nat /\ spans[d] \in Nat
        /\ \A d \in Clients : bursts'[d] = bursts[d] /\ calls'[d] = 0 /\ spans'[d] = spans[d]
        /\ up'["receivedMotd"] = up["receivedMotd"]
        /\ events' = events /\ sock' = sock
    BY <1>1, <1>2 DEF Restart, Flags, SessionTyped, SessionTypeOK
  <2>2. BurstsCounted' /\ (Unburst => Unburst')
    BY <2>1 DEF BurstsCounted, Unburst
  <2>3. QED
    BY <2>1, <2>2, MotdsStay
<1> SUFFICES ASSUME TimerFires \/ SocketsOpen \/ Connects \/ Welcomes \/ EndsMotd \/ Drops
             PROVE  BurstsCounted' /\ MotdsAreFirst'
  BY <1>2
<1>21. UNCHANGED <<bursts, calls, spans>> /\ up' = up
  BY DEF TimerFires, SocketsOpen, Connects, Welcomes, EndsMotd, Drops, Answers, given, worker
<1>3. BurstsCounted' /\ Unburst' = Unburst /\ Unburst \in BOOLEAN
  BY <1>1, <1>21 DEF BurstsCounted, Unburst, Flags
<1>4. CASE events' = events /\ (sock' = sock \/ sock' = "connecting")
  <2>1. ASSUME NEW i, BurstsAre(events, Unburst, i)
        PROVE  BurstsAre(events', Unburst', i)
    BY <2>1, <1>3, <1>4
  <2>2. QED
    BY <2>1, <1>3, <1>4 DEF MotdsAreFirst
<1>5. ASSUME NEW e \in Reported, events' = Append(events, e),
             e = "376" => BurstsAre(events, Unburst, Len(events) + 1),
             sock' \in {"open", "asked", "welcomed"} =>
                e # "close" /\ (e = "open" \/ BurstsAre(events, Unburst, Len(events) + 1))
      PROVE  MotdsAreFirst'
  <2> DEFINE n == Len(events)
  <2>1. n \in Nat /\ Len(events') = n + 1
    BY <1>1, <1>5, AppendProperties
  <2>2. events'[n + 1] = e /\ \A i \in 1..n : events'[i] = events[i]
    BY <1>1, <1>5, AppendProperties
  <2>3. ASSUME NEW i \in 1..(Len(events) + 1)
        PROVE  /\ BurstsAre(Append(events, e), Unburst, i) <=> BurstsAre(events, Unburst, i)
               /\ e # "close" /\ BurstsAre(events, Unburst, Len(events) + 1)
                    => BurstsAre(Append(events, e), Unburst, Len(events) + 2)
               /\ e = "open" => BurstsAre(Append(events, e), Unburst, Len(events) + 2)
    BY <1>1, <1>3, BurstsGrow
  <2>4. /\ \A i \in 1..(n + 1) : BurstsAre(events', Unburst', i) <=> BurstsAre(events, Unburst, i)
        /\ e # "close" /\ BurstsAre(events, Unburst, n + 1) => BurstsAre(events', Unburst', n + 2)
        /\ e = "open" => BurstsAre(events', Unburst', n + 2)
    <3>1. n + 1 \in 1..(n + 1)
      BY <2>1
    <3>2. QED
      BY <2>3, <3>1, <1>3, <1>5
  <2>5. n = Len(events)
    OBVIOUS
  <2> HIDE DEF n
  <2>6. \A i \in 1..n : events[i] = "376" => BurstsAre(events, Unburst, i)
    BY <2>5 DEF MotdsAreFirst
  <2>7. \A i \in 1..(n + 1) : i = n + 1 \/ i \in 1..n
    BY <2>1
  <2>8. \A i \in 1..(n + 1) : events'[i] = "376" => BurstsAre(events', Unburst', i)
    BY <2>2, <2>4, <2>5, <2>6, <2>7, <1>5
  <2>9. sock' \in {"open", "asked", "welcomed"} => BurstsAre(events', Unburst', n + 2)
    BY <2>4, <2>5, <1>5
  <2>10. (n + 1) + 1 = n + 2
    BY <2>1
  <2>11. QED
    BY <2>1, <2>8, <2>9, <2>10 DEF MotdsAreFirst
<1>6. sock \in {"open", "asked", "welcomed"} => BurstsAre(events, Unburst, Len(events) + 1)
  BY DEF MotdsAreFirst
<1>61. {"open", "existing", "001", "376", "close"} \subseteq Reported
  BY DEF Reported
<1>7. CASE TimerFires
  BY <1>3, <1>4, <1>7 DEF TimerFires
<1>8. CASE SocketsOpen
  <2>1. CASE events' = events
    BY <1>3, <1>4, <1>8, <2>1 DEF SocketsOpen
  <2>2. CASE events' = Append(events, "existing") /\ sock' = sock
    BY <1>3, <1>5, <1>6, <2>2, <1>61
  <2>3. QED
    BY <1>8, <2>1, <2>2 DEF SocketsOpen
<1>9. CASE Connects
  BY <1>3, <1>5, <1>61, <1>9 DEF Connects, Answers
<1>10. CASE Welcomes
  BY <1>3, <1>5, <1>6, <1>61, <1>10 DEF Welcomes, Answers
<1>11. CASE EndsMotd
  BY <1>3, <1>5, <1>6, <1>61, <1>11 DEF EndsMotd, Answers
<1>12. CASE Drops
  BY <1>3, <1>5, <1>61, <1>12 DEF Drops, Answers
<1>13. QED
  BY <1>3, <1>7, <1>8, <1>9, <1>10, <1>11, <1>12

-----------------------------------------------------------------------------
(* The theorems.                                                           *)

\* Every step keeps the invariant.
LEMMA SessionSteps ==
    ASSUME SessionAssumption, SessionInv, [SessionNext]_sessionVars
    PROVE  SessionInv'
<1> USE SessionAssumption DEF SessionInv
<1>0. CallsReach'
  BY CallsStay
<1>1. ASSUME NEW c \in Clients,
             Accept(c) \/ Line(c) \/ Login(c) \/ Burst(c) \/ Dumped(c) \/ Leave(c) \/ Destroy(c)
      PROVE  SessionInv'
  BY <1>0, <1>1, ClientTypes, ClientLogins, ClientAway, ClientBursts
<1>2. CASE Upstream
  BY <1>0, <1>2, UpstreamTypes, UpstreamLogins, UpstreamAway, UpstreamBursts
<1>3. CASE TimerFires \/ Restart \/ SocketsOpen \/ Connects \/ Welcomes \/ EndsMotd \/ Drops
  <2>1. SessionTyped'
    BY <1>3, WorldTypes
  <2>2. LoginsAgree' /\ ReachesEveryClient'
    BY <1>3, WorldLogins
  <2>3. AwayIsNoted' /\ NeverAwayWithClients'
    BY <1>3, WorldAway
  <2>4. BurstsCounted' /\ MotdsAreFirst'
    BY <1>3, WorldBursts
  <2>5. QED
    BY <1>0, <2>1, <2>2, <2>3, <2>4
<1>4. CASE UNCHANGED sessionVars
  <2>1. UNCHANGED <<client, given, worker, world>>
    BY <1>4 DEF sessionVars
  <2>2. SessionTyped' /\ LoginsAgree'
    BY <2>1 DEF client, given, worker, world, SessionTyped, SessionTypeOK, LoginsAgree, LoginAgrees
  <2>3. ReachesEveryClient' /\ AwayIsNoted' /\ NeverAwayWithClients'
    BY <2>1 DEF client, given, worker, world, ReachesEveryClient, AwayIsNoted, NeverAwayWithClients
  <2>4. BurstsCounted' /\ (Unburst => Unburst') /\ events' = events /\ sock' = sock
    BY <2>1 DEF client, given, worker, world, BurstsCounted, Unburst
  <2>5. MotdsAreFirst'
    BY <2>4, MotdsStay
  <2>6. QED
    BY <1>0, <2>2, <2>3, <2>4, <2>5
<1>5. QED
  BY <1>1, <1>2, <1>3, <1>4 DEF SessionNext

\* The invariant holds in every state of the sessions of a user.
THEOREM SessionInvariant == SessionSpec => []SessionInv
<1>1. SessionInit => SessionInv
  BY SessionAssumption, SessionStarts
<1>2. SessionInv /\ [SessionNext]_sessionVars => SessionInv'
  BY SessionAssumption, SessionSteps
<1>3. QED
  BY <1>1, <1>2, PTL DEF SessionSpec

\* The types of the clients and of the connection that they share.
THEOREM SessionIsTyped == SessionSpec => []SessionTypeOK
<1>1. SessionInv => SessionTypeOK
  BY DEF SessionInv, SessionTyped
<1>2. QED
  BY <1>1, SessionInvariant, PTL

\* A client gets one registration burst of a connection (registerClient(),
\* connectionincoming.js:393; the 376 handler, upstreamcommands.js:270), whatever events,
\* logins and waiting calls overlap, and one more for each call that had waited since the
\* connection before: bursts are counted from the connection that opened last, and between
\* it and the end of its MOTD no other connection closes.
THEOREM BurstsOnce == SessionSpec => []OneBurst
<1>1. SessionInv => OneBurst
  <2>1. SUFFICES ASSUME SessionInv, NEW c \in Clients
                 PROVE  bursts[c] <= 1 + spans[c]
    BY DEF OneBurst
  <2>2. bursts[c] \in Nat /\ calls[c] \in Nat /\ spans[c] \in Nat
    BY <2>1 DEF SessionInv, SessionTyped, SessionTypeOK
  <2>3. bursts[c] + calls[c] <= 1 + spans[c]
    BY <2>1 DEF SessionInv, BurstsCounted
  <2>4. QED
    BY <2>2, <2>3
<1>2. QED
  BY <1>1, SessionInvariant, PTL

\* forEachClient() (connectionoutgoing.js) reaches every registered client and nobody else.
THEOREM EveryClientReached == SessionSpec => []ReachesEveryClient
<1>1. SessionInv => ReachesEveryClient
  BY DEF SessionInv
<1>2. QED
  BY <1>1, SessionInvariant, PTL

\* No user with a client that is fully registered is shown as away (connectionincoming.js:452
\* and :674), unless a restart cut a registration off.
THEOREM NobodyAwayWithClients == SessionSpec => []NeverAwayWithClients
<1>1. SessionInv => NeverAwayWithClients
  BY DEF SessionInv
<1>2. QED
  BY <1>1, SessionInvariant, PTL

=============================================================================
