-------------------------- MODULE AmqpQueueProofs --------------------------
(***************************************************************************)
(* Proofs about AmqpQueue for every finite set of connections, every       *)
(* prefetch and in-flight limit and every bound.                           *)
(*                                                                         *)
(* An item of the worker's ParallelQueue has a place: block, key, position.*)
(* AddPlaces and AckPlaces say what add() and ack() do to the places, and  *)
(* that they keep who is ahead of whom; the invariant speaks of places and *)
(* of the line at the broker, and a step is followed on each separately.   *)
(***************************************************************************)
EXTENDS AmqpQueue, FiniteSetTheorems, SequenceTheorems, TLAPS

-----------------------------------------------------------------------------
(* The places of the ParallelQueue.                                        *)

List(bs, b, k) == bs[b].queues[k].list

\* A place of blocks bs: block b, queue k, position p.
Places(bs) ==
    {pl \in [b : 1..Len(bs), k : Keys, p : Nat \ {0}] : pl.p <= Len(List(bs, pl.b, pl.k))}

ItemAt(bs, pl) == List(bs, pl.b, pl.k)[pl.p]

\* What sits at pl leaves the queue before what sits at ql.
Ahead(pl, ql) == pl.b < ql.b \/ (pl.b = ql.b /\ pl.k = ql.k /\ pl.p < ql.p)

Held(bs, m) == \E pl \in Places(bs) : ItemAt(bs, pl).msg = m

\* Handlers run only for the first block, each for the head of its queue.
InUse(bs) ==
    \A b \in 1..Len(bs), k \in Keys :
        bs[b].queues[k].inProgress => b = 1 /\ List(bs, b, k) # <<>>

LEMMA PlaceFields ==
    ASSUME NEW bs, NEW pl \in Places(bs)
    PROVE  /\ pl = [b |-> pl.b, k |-> pl.k, p |-> pl.p]
           /\ pl.b \in 1..Len(bs) /\ pl.k \in Keys /\ pl.p \in Nat \ {0}
           /\ pl.p <= Len(List(bs, pl.b, pl.k))
BY DEF Places

LEMMA PlaceMade ==
    ASSUME NEW bs, NEW b \in 1..Len(bs), NEW k \in Keys, NEW p \in Nat \ {0},
           p <= Len(List(bs, b, k))
    PROVE  [b |-> b, k |-> k, p |-> p] \in Places(bs)
BY DEF Places

LEMMA BlockFields ==
    ASSUME NEW bs \in Seq(Block), NEW b \in 1..Len(bs), NEW k \in Keys
    PROVE  /\ bs[b] \in Block
           /\ bs[b].type \in Types
           /\ bs[b].queues \in [Keys -> Queue]
           /\ bs[b].queues[k].inProgress \in BOOLEAN
           /\ List(bs, b, k) \in Seq(Items)
           /\ Len(List(bs, b, k)) \in Nat
           /\ Len(bs) \in Nat
<1>1. bs[b] \in Block
  BY ElementOfSeq
<1>2. bs[b].queues \in [Keys -> Queue] /\ bs[b].type \in Types
  BY <1>1 DEF Block
<1>3. bs[b].queues[k] \in Queue
  BY <1>2
<1>4. List(bs, b, k) \in Seq(Items) /\ bs[b].queues[k].inProgress \in BOOLEAN
  BY <1>3 DEF Queue, List
<1>5. QED
  BY <1>1, <1>2, <1>4, LenProperties

\* Blocks with the same lists have the same places.
LEMMA SameLists ==
    ASSUME NEW bs \in Seq(Block), NEW cs \in Seq(Block), Len(cs) = Len(bs),
           \A b \in 1..Len(bs) : cs[b].type = bs[b].type,
           \A b \in 1..Len(bs), k \in Keys : List(cs, b, k) = List(bs, b, k)
    PROVE  /\ Places(cs) = Places(bs)
           /\ \A pl \in Places(bs) : /\ ItemAt(cs, pl) = ItemAt(bs, pl)
                                     /\ cs[pl.b].type = bs[pl.b].type
<1>1. ASSUME NEW pl \in [b : 1..Len(bs), k : Keys, p : Nat \ {0}]
      PROVE  List(cs, pl.b, pl.k) = List(bs, pl.b, pl.k)
  BY <1>1
<1>2. Places(cs) = Places(bs)
  BY <1>1 DEF Places
<1>3. ASSUME NEW pl \in Places(bs)
      PROVE  ItemAt(cs, pl) = ItemAt(bs, pl) /\ cs[pl.b].type = bs[pl.b].type
  <2>1. pl.b \in 1..Len(bs) /\ pl.k \in Keys
    BY <1>3, PlaceFields
  <2>2. List(cs, pl.b, pl.k) = List(bs, pl.b, pl.k)
    BY <2>1
  <2>3. QED
    BY <2>1, <2>2 DEF ItemAt
<1>4. QED
  BY <1>2, <1>3

\* A tick of processMsgQueue() moves nothing.
LEMMA PumpPlaces ==
    ASSUME NEW bs \in Seq(Block), InUse(bs), NEW cs \in Pump(bs)
    PROVE  /\ cs \in Seq(Block)
           /\ InUse(cs)
           /\ Places(cs) = Places(bs)
           /\ \A pl \in Places(bs) : /\ ItemAt(cs, pl) = ItemAt(bs, pl)
                                     /\ cs[pl.b].type = bs[pl.b].type
<1>1. CASE cs = bs
  BY <1>1
<1>2. ASSUME NEW key \in PQ!Idle(bs), cs = PQ!MarkBusy(bs, key)
      PROVE  /\ cs \in Seq(Block)
             /\ InUse(cs)
             /\ Places(cs) = Places(bs)
             /\ \A pl \in Places(bs) : /\ ItemAt(cs, pl) = ItemAt(bs, pl)
                                       /\ cs[pl.b].type = bs[pl.b].type
  <2> DEFINE first == [bs[1] EXCEPT !.queues[key].inProgress = TRUE]
  <2>1. /\ bs # <<>> /\ key \in Keys /\ List(bs, 1, key) # <<>>
        /\ cs = [bs EXCEPT ![1] = first]
    BY <1>2 DEF PQ!Idle, PQ!MarkBusy, List
  <2>2. 1 \in 1..Len(bs)
    BY <2>1, EmptySeq
  <2>3. bs[1] \in Block /\ bs[1].queues \in [Keys -> Queue]
    BY <2>1, <2>2, BlockFields
  <2>4. /\ first \in Block
        /\ first.type = bs[1].type
        /\ \A k \in Keys :
             /\ first.queues[k].list = bs[1].queues[k].list
             /\ first.queues[k].inProgress
                   = IF k = key THEN TRUE ELSE bs[1].queues[k].inProgress
    BY <2>1, <2>3 DEF Block, Queue
  <2> HIDE DEF first
  <2>5. /\ cs \in Seq(Block)
        /\ Len(cs) = Len(bs)
        /\ \A b \in 1..Len(bs) : cs[b] = IF b = 1 THEN first ELSE bs[b]
    BY <2>1, <2>2, <2>4, ExceptSeq
  <2>6. ASSUME NEW b \in 1..Len(bs), NEW k \in Keys
        PROVE  /\ cs[b].type = bs[b].type
               /\ List(cs, b, k) = List(bs, b, k)
               /\ cs[b].queues[k].inProgress
                     => (b = 1 /\ k = key) \/ bs[b].queues[k].inProgress
    <3>1. CASE b = 1
      BY <2>4, <2>5, <3>1 DEF List
    <3>2. CASE b # 1
      BY <2>5, <3>2 DEF List
    <3>3. QED
      BY <3>1, <3>2
  <2>7. InUse(cs)
    <3>1. ASSUME NEW b \in 1..Len(bs), NEW k \in Keys, cs[b].queues[k].inProgress
          PROVE  b = 1 /\ List(cs, b, k) # <<>>
      <4>1. (b = 1 /\ k = key) \/ bs[b].queues[k].inProgress
        BY <2>6, <3>1
      <4>2. b = 1 /\ List(bs, b, k) # <<>>
        BY <2>1, <4>1 DEF InUse
      <4>3. QED
        BY <2>6, <4>2
    <3>2. QED
      BY <2>5, <3>1 DEF InUse
  <2>8. \A b \in 1..Len(bs) : cs[b].type = bs[b].type
    BY <2>1, <2>6
  <2>9. \A b \in 1..Len(bs), k \in Keys : List(cs, b, k) = List(bs, b, k)
    BY <2>6
  <2>10. QED
    BY <2>5, <2>7, <2>8, <2>9, SameLists
<1>3. cs = bs \/ \E key \in PQ!Idle(bs) : cs = PQ!MarkBusy(bs, key)
  BY DEF Pump
<1>4. QED
  BY <1>1, <1>2, <1>3

\* add(): one new place, at the end of the last block; nothing in another queue
\* of that block is of the same type and key.
LEMMA AddPlaces ==
    ASSUME NEW bs \in Seq(Block), InUse(bs), NEW type \in Types, NEW key \in Keys,
           NEW item \in Items, NEW cs, cs = PQ!AddTo(bs, type, key, item)
    PROVE  /\ cs \in Seq(Block)
           /\ InUse(cs)
           /\ \E new \in Places(cs) :
                 /\ new \notin Places(bs)
                 /\ Places(cs) = Places(bs) \cup {new}
                 /\ \A pl \in Places(bs) : /\ ItemAt(cs, pl) = ItemAt(bs, pl)
                                           /\ cs[pl.b].type = bs[pl.b].type
                                           /\ Ahead(pl, new) \/ (pl.b = new.b /\ pl.k # key)
                 /\ ItemAt(cs, new) = item
                 /\ cs[new.b].type = type /\ new.k = key
<1> DEFINE n == Len(bs)
<1>0. n \in Nat
  BY LenProperties
<1>1. CASE bs # <<>> /\ bs[n].type = type
  <2> DEFINE last == [bs[n] EXCEPT !.queues[key].list = Append(@, item)]
  <2>1. n \in 1..n /\ cs = [bs EXCEPT ![n] = last]
    BY <1>1, EmptySeq DEF PQ!AddTo, PQ!Push
  <2>2. bs[n] \in Block /\ bs[n].queues \in [Keys -> Queue] /\ List(bs, n, key) \in Seq(Items)
    BY <2>1, BlockFields
  <2>3. Append(bs[n].queues[key].list, item) \in Seq(Items)
    BY <2>2, AppendProperties DEF List
  <2>4. /\ last \in Block
        /\ last.type = bs[n].type
        /\ \A k \in Keys :
             /\ last.queues[k].inProgress = bs[n].queues[k].inProgress
             /\ last.queues[k].list = IF k = key THEN Append(bs[n].queues[k].list, item)
                                                 ELSE bs[n].queues[k].list
    BY <2>2, <2>3 DEF Block, Queue
  <2> HIDE DEF last
  <2>5. /\ cs \in Seq(Block)
        /\ Len(cs) = n
        /\ \A b \in 1..n : cs[b] = IF b = n THEN last ELSE bs[b]
    BY <2>1, <2>4, ExceptSeq
  <2>6. ASSUME NEW b \in 1..n, NEW k \in Keys
        PROVE  /\ cs[b].type = bs[b].type
               /\ List(cs, b, k) = IF b = n /\ k = key THEN Append(List(bs, b, k), item)
                                                       ELSE List(bs, b, k)
               /\ cs[b].queues[k].inProgress = bs[b].queues[k].inProgress
    <3>1. CASE b = n
      BY <2>4, <2>5, <3>1 DEF List
    <3>2. CASE b # n
      BY <2>5, <3>2 DEF List
    <3>3. QED
      BY <3>1, <3>2
  <2> DEFINE q == Len(List(bs, n, key)) + 1
  <2> DEFINE new == [b |-> n, k |-> key, p |-> q]
  <2>7. /\ q \in Nat \ {0} /\ Len(List(cs, n, key)) = q /\ List(cs, n, key)[q] = item
        /\ List(cs, n, key) # <<>>
        /\ \A p \in 1..Len(List(bs, n, key)) : List(cs, n, key)[p] = List(bs, n, key)[p]
    <3>1. List(cs, n, key) = Append(List(bs, n, key), item) /\ Len(List(bs, n, key)) \in Nat
      BY <2>1, <2>2, <2>6, LenProperties
    <3>2. QED
      BY <2>2, <3>1, AppendProperties, EmptySeq
  <2>8. InUse(cs)
    <3>1. ASSUME NEW b \in 1..n, NEW k \in Keys, cs[b].queues[k].inProgress
          PROVE  b = 1 /\ List(cs, b, k) # <<>>
      <4>1. b = 1 /\ List(bs, b, k) # <<>>
        BY <2>6, <3>1 DEF InUse
      <4>2. QED
        BY <2>6, <2>7, <4>1
    <3>2. QED
      BY <2>5, <3>1 DEF InUse
  <2>9. new \in Places(cs) /\ new \notin Places(bs)
    <3>1. new \in Places(cs)
      <4>1. n \in 1..Len(cs) /\ q \in Nat \ {0} /\ q <= Len(List(cs, n, key))
        BY <2>1, <2>5, <2>7
      <4> HIDE DEF q
      <4>2. QED
        BY <4>1, PlaceMade
    <3>2. ~ (q <= Len(List(bs, n, key)))
      BY <2>2, LenProperties
    <3>3. QED
      BY <3>1, <3>2, PlaceFields
  <2>10. ASSUME NEW pl \in Places(bs)
         PROVE  /\ pl \in Places(cs)
                /\ ItemAt(cs, pl) = ItemAt(bs, pl) /\ cs[pl.b].type = bs[pl.b].type
                /\ Ahead(pl, new) \/ (pl.b = new.b /\ pl.k # key)
    <3>1. /\ pl = [b |-> pl.b, k |-> pl.k, p |-> pl.p]
          /\ pl.b \in 1..n /\ pl.k \in Keys /\ pl.p \in Nat \ {0}
          /\ pl.p <= Len(List(bs, pl.b, pl.k)) /\ pl.p \in 1..Len(List(bs, pl.b, pl.k))
          /\ Len(List(bs, pl.b, pl.k)) \in Nat
      BY <2>10, PlaceFields, BlockFields
    <3>2. CASE pl.b = n /\ pl.k = key
      <4>1. pl.p < q
        BY <2>2, <3>1, <3>2
      <4>2. pl.p <= Len(List(cs, n, key))
        BY <2>7, <3>1, <4>1
      <4>3. pl \in Places(cs)
        BY <2>5, <3>1, <3>2, <4>2, PlaceMade
      <4>4. ItemAt(cs, pl) = ItemAt(bs, pl)
        BY <2>7, <3>1, <3>2 DEF ItemAt
      <4>5. QED
        BY <2>6, <3>1, <3>2, <4>1, <4>3, <4>4 DEF Ahead
    <3>3. CASE ~ (pl.b = n /\ pl.k = key)
      <4>1. List(cs, pl.b, pl.k) = List(bs, pl.b, pl.k) /\ cs[pl.b].type = bs[pl.b].type
        BY <2>6, <3>1, <3>3
      <4>2. pl \in Places(cs)
        BY <2>5, <3>1, <4>1, PlaceMade
      <4>3. QED
        BY <1>0, <3>1, <3>3, <4>1, <4>2 DEF ItemAt, Ahead
    <3>4. QED
      BY <3>2, <3>3
  <2>11. ASSUME NEW pl \in Places(cs), pl \notin Places(bs)
         PROVE  pl = new
    <3>1. /\ pl = [b |-> pl.b, k |-> pl.k, p |-> pl.p]
          /\ pl.b \in 1..n /\ pl.k \in Keys /\ pl.p \in Nat \ {0}
          /\ pl.p <= Len(List(cs, pl.b, pl.k))
      BY <2>5, <2>11, PlaceFields
    <3>2. ~ (pl.p <= Len(List(bs, pl.b, pl.k)))
      BY <2>11, <3>1, PlaceMade
    <3>3. pl.b = n /\ pl.k = key
      BY <2>6, <3>1, <3>2
    <3>4. pl.p = q
      BY <2>2, <2>7, <3>1, <3>2, <3>3, LenProperties
    <3>5. QED
      BY <3>1, <3>3, <3>4
  <2>12. ItemAt(cs, new) = item /\ cs[new.b].type = type /\ new.k = key
    BY <1>1, <2>1, <2>6, <2>7 DEF ItemAt
  <2>13. Places(cs) = Places(bs) \cup {new}
    BY <2>9, <2>10, <2>11
  <2> HIDE DEF new
  <2>14. QED
    BY <2>5, <2>8, <2>9, <2>10, <2>12, <2>13
<1>2. CASE ~ (bs # <<>> /\ bs[n].type = type)
  <2> DEFINE fresh == PQ!NewBlock(type)
  <2> DEFINE last == [fresh EXCEPT !.queues[key].list = Append(@, item)]
  <2> DEFINE new == [b |-> n + 1, k |-> key, p |-> 1]
  <2>1. cs = Append(bs, last)
    BY <1>2 DEF PQ!AddTo, PQ!Push
  <2>2. /\ fresh \in Block /\ fresh.type = type
        /\ \A k \in Keys : fresh.queues[k].list = <<>> /\ fresh.queues[k].inProgress = FALSE
    BY EmptySeq DEF PQ!NewBlock, PQ!NoQueue, Block, Queue
  <2>3. Append(<<>>, item) \in Seq(Items) /\ Append(<<>>, item) = <<item>>
    OBVIOUS
  <2> HIDE DEF fresh
  <2>4. /\ last \in Block /\ last.type = type
        /\ \A k \in Keys : /\ last.queues[k].inProgress = FALSE
                           /\ last.queues[k].list = IF k = key THEN <<item>> ELSE <<>>
    BY <2>2, <2>3 DEF Block, Queue
  <2> HIDE DEF last
  <2>5. /\ cs \in Seq(Block) /\ Len(cs) = n + 1 /\ cs[n + 1] = last
        /\ \A b \in 1..n : cs[b] = bs[b]
    BY <2>1, <2>4, AppendProperties
  <2>6. ASSUME NEW b \in 1..(n + 1), NEW k \in Keys
        PROVE  /\ b \in 1..n => List(cs, b, k) = List(bs, b, k) /\ cs[b] = bs[b]
               /\ b = n + 1 => /\ List(cs, b, k) = IF k = key THEN <<item>> ELSE <<>>
                               /\ ~ cs[b].queues[k].inProgress
    BY <2>4, <2>5 DEF List
  <2>7. \A b \in 1..(n + 1) : b \in 1..n \/ b = n + 1
    BY <1>0
  <2>8. InUse(cs)
    <3>1. ASSUME NEW b \in 1..(n + 1), NEW k \in Keys, cs[b].queues[k].inProgress
          PROVE  b = 1 /\ List(cs, b, k) # <<>>
      <4>1. b \in 1..n
        BY <2>6, <2>7, <3>1
      <4>2. bs[b].queues[k].inProgress /\ List(cs, b, k) = List(bs, b, k)
        BY <2>6, <3>1, <4>1
      <4>3. QED
        BY <4>1, <4>2 DEF InUse
    <3>2. QED
      BY <2>5, <3>1 DEF InUse
  <2>9. List(cs, n + 1, key) = <<item>> /\ Len(<<item>>) = 1 /\ <<item>>[1] = item /\ n + 1 \in 1..(n + 1)
    BY <1>0, <2>6
  <2>10. new \in Places(cs) /\ new \notin Places(bs)
    <3>1. new \in Places(cs)
      <4> DEFINE one == 1
      <4>1. n + 1 \in 1..Len(cs) /\ one \in Nat \ {0} /\ one <= Len(List(cs, n + 1, key))
        <5>1. Len(List(cs, n + 1, key)) = one
          BY <2>9
        <5>2. n + 1 \in 1..Len(cs)
          BY <2>5, <2>9
        <5>3. one \in Nat \ {0} /\ one <= one
          OBVIOUS
        <5> HIDE DEF one
        <5>4. QED
          BY <5>1, <5>2, <5>3
      <4> HIDE DEF one
      <4>2. [b |-> n + 1, k |-> key, p |-> one] \in Places(cs)
        BY <4>1, PlaceMade
      <4>3. QED
        BY <4>2 DEF one
    <3>2. n + 1 \notin 1..n
      BY <1>0
    <3>3. QED
      BY <3>1, <3>2, PlaceFields
  <2>11. ASSUME NEW pl \in Places(bs)
         PROVE  /\ pl \in Places(cs)
                /\ ItemAt(cs, pl) = ItemAt(bs, pl) /\ cs[pl.b].type = bs[pl.b].type
                /\ Ahead(pl, new) \/ (pl.b = new.b /\ pl.k # key)
    <3>1. /\ pl = [b |-> pl.b, k |-> pl.k, p |-> pl.p]
          /\ pl.b \in 1..n /\ pl.k \in Keys /\ pl.p \in Nat \ {0}
          /\ pl.p <= Len(List(bs, pl.b, pl.k))
      BY <2>11, PlaceFields
    <3>2. pl.b \in 1..(n + 1) /\ pl.b < n + 1
      BY <1>0, <3>1
    <3>3. List(cs, pl.b, pl.k) = List(bs, pl.b, pl.k) /\ cs[pl.b] = bs[pl.b]
      BY <2>6, <3>1, <3>2
    <3>4. pl \in Places(cs)
      BY <2>5, <3>1, <3>2, <3>3, PlaceMade
    <3>5. QED
      BY <3>2, <3>3, <3>4 DEF ItemAt, Ahead
  <2>12. ASSUME NEW pl \in Places(cs), pl \notin Places(bs)
         PROVE  pl = new
    <3>1. /\ pl = [b |-> pl.b, k |-> pl.k, p |-> pl.p]
          /\ pl.b \in 1..(n + 1) /\ pl.k \in Keys /\ pl.p \in Nat \ {0}
          /\ pl.p <= Len(List(cs, pl.b, pl.k))
      BY <2>5, <2>12, PlaceFields
    <3>2. pl.b = n + 1
      <4>1. CASE pl.b \in 1..n
        <5>1. List(cs, pl.b, pl.k) = List(bs, pl.b, pl.k)
          BY <2>6, <3>1, <4>1
        <5>2. pl \in Places(bs)
          BY <3>1, <4>1, <5>1, PlaceMade
        <5>3. QED
          BY <2>12, <5>2
      <4>2. QED
        BY <2>7, <3>1, <4>1
    <3>3. List(cs, pl.b, pl.k) = IF pl.k = key THEN <<item>> ELSE <<>>
      BY <2>6, <3>1, <3>2
    <3>4. Len(<<>>) = 0
      OBVIOUS
    <3>5. pl.k = key
      <4>1. CASE pl.k # key
        <5>1. Len(List(cs, pl.b, pl.k)) = 0
          BY <3>3, <3>4, <4>1
        <5>2. QED
          BY <3>1, <5>1
      <4>2. QED
        BY <4>1
    <3>6. pl.p = 1
      <4>1. Len(List(cs, pl.b, pl.k)) = 1
        BY <2>9, <3>2, <3>5
      <4>2. QED
        BY <3>1, <4>1
    <3>7. QED
      BY <3>1, <3>2, <3>5, <3>6
  <2>13. ItemAt(cs, new) = item /\ cs[new.b].type = type /\ new.k = key
    BY <2>4, <2>5, <2>9 DEF ItemAt
  <2>14. Places(cs) = Places(bs) \cup {new}
    BY <2>10, <2>11, <2>12
  <2> HIDE DEF new
  <2>15. QED
    BY <2>5, <2>8, <2>10, <2>11, <2>13, <2>14
<1>3. QED
  BY <1>1, <1>2

FirstOf(key) == [b |-> 1, k |-> key, p |-> 1]

\* g leads from the places of cs to places of bs in the same order, and misses
\* none but the head of queue `key` of the first block.
MovesUp(bs, cs, key, g) ==
    /\ g \in [Places(cs) -> Places(bs) \ {FirstOf(key)}]
    /\ \A pl \in Places(cs) : /\ ItemAt(cs, pl) = ItemAt(bs, g[pl])
                              /\ g[pl].k = pl.k
                              /\ cs[pl.b].type = bs[g[pl].b].type
    /\ \A pl, ql \in Places(cs) : /\ Ahead(g[pl], g[ql]) => Ahead(pl, ql)
                                  /\ g[pl] = g[ql] => pl = ql
    /\ \A ql \in Places(bs) : ql = FirstOf(key) \/ \E pl \in Places(cs) : g[pl] = ql

\* ack() when the first block is emptied by it.
LEMMA DropMovesUp ==
    ASSUME NEW bs \in Seq(Block), NEW cs \in Seq(Block), NEW key \in Keys,
           1 \in 1..Len(bs), Len(cs) = Len(bs) - 1,
           \A b \in 1..Len(cs) : cs[b] = bs[b + 1],
           Len(List(bs, 1, key)) = 1,
           \A k \in Keys : k # key => Len(List(bs, 1, k)) = 0
    PROVE  \E g : MovesUp(bs, cs, key, g)
<1> DEFINE up(pl) == [b |-> pl.b + 1, k |-> pl.k, p |-> pl.p]
<1> DEFINE g == [pl \in Places(cs) |-> up(pl)]
<1>0. Len(bs) \in Nat /\ Len(cs) \in Nat
  BY LenProperties
<1>1. ASSUME NEW pl \in Places(cs)
      PROVE  /\ up(pl) \in Places(bs) /\ up(pl) # FirstOf(key)
             /\ ItemAt(cs, pl) = ItemAt(bs, up(pl))
             /\ cs[pl.b].type = bs[up(pl).b].type
             /\ up(pl).k = pl.k /\ up(pl).b = pl.b + 1 /\ up(pl).p = pl.p
             /\ pl = [b |-> pl.b, k |-> pl.k, p |-> pl.p]
             /\ pl.b \in Nat /\ pl.p \in Nat
  <2>1. /\ pl = [b |-> pl.b, k |-> pl.k, p |-> pl.p]
        /\ pl.b \in 1..Len(cs) /\ pl.k \in Keys /\ pl.p \in Nat \ {0}
        /\ pl.p <= Len(List(cs, pl.b, pl.k))
    BY <1>1, PlaceFields
  <2>2. pl.b + 1 \in 1..Len(bs) /\ pl.b + 1 # 1
    BY <1>0, <2>1
  <2>3. List(cs, pl.b, pl.k) = List(bs, pl.b + 1, pl.k) /\ cs[pl.b] = bs[pl.b + 1]
    BY <2>1 DEF List
  <2>4. up(pl) \in Places(bs)
    <3> DEFINE c == pl.b + 1
    <3>1. c \in 1..Len(bs) /\ pl.p <= Len(List(bs, c, pl.k))
      BY <2>1, <2>2, <2>3
    <3> HIDE DEF c
    <3>2. [b |-> c, k |-> pl.k, p |-> pl.p] \in Places(bs)
      BY <2>1, <3>1, PlaceMade
    <3>3. QED
      BY <3>2 DEF c
  <2>5. QED
    BY <2>1, <2>2, <2>3, <2>4 DEF ItemAt, FirstOf
<1>2. ASSUME NEW ql \in Places(bs)
      PROVE  ql = FirstOf(key) \/ \E pl \in Places(cs) : up(pl) = ql
  <2>1. /\ ql = [b |-> ql.b, k |-> ql.k, p |-> ql.p]
        /\ ql.b \in 1..Len(bs) /\ ql.k \in Keys /\ ql.p \in Nat \ {0}
        /\ ql.p <= Len(List(bs, ql.b, ql.k))
    BY <1>2, PlaceFields
  <2>2. CASE ql.b = 1
    <3>1. ql.k = key
      <4>1. ASSUME ql.k # key
            PROVE  FALSE
        <5>1. Len(List(bs, 1, ql.k)) = 0
          BY <2>1, <4>1
        <5>2. QED
          BY <2>1, <2>2, <5>1
      <4>2. QED
        BY <4>1
    <3>2. ql.p = 1
      <4> DEFINE len == Len(List(bs, ql.b, ql.k))
      <4>1. len = 1
        BY <2>2, <3>1
      <4>2. ql.p \in Nat \ {0} /\ ql.p <= len
        BY <2>1
      <4> HIDE DEF len
      <4>3. QED
        BY <4>1, <4>2
    <3>3. QED
      BY <2>1, <2>2, <3>1, <3>2 DEF FirstOf
  <2>3. CASE ql.b # 1
    <3> DEFINE c == ql.b - 1
    <3>1. c \in 1..Len(cs) /\ c + 1 = ql.b
      BY <1>0, <2>1, <2>3
    <3> HIDE DEF c
    <3>2. List(cs, c, ql.k) = List(bs, ql.b, ql.k)
      BY <3>1 DEF List
    <3> DEFINE pl == [b |-> c, k |-> ql.k, p |-> ql.p]
    <3>3. pl \in Places(cs)
      BY <2>1, <3>1, <3>2, PlaceMade
    <3>4. up(pl) = ql
      BY <2>1, <3>1
    <3> HIDE DEF pl
    <3>5. QED
      BY <3>3, <3>4
  <2>4. QED
    BY <2>2, <2>3
<1>3. \A pl \in Places(cs) : g[pl] = up(pl)
  OBVIOUS
<1>4. g \in [Places(cs) -> Places(bs) \ {FirstOf(key)}]
  BY <1>1
<1>5. ASSUME NEW pl \in Places(cs), NEW ql \in Places(cs)
      PROVE  /\ Ahead(up(pl), up(ql)) => Ahead(pl, ql)
             /\ up(pl) = up(ql) => pl = ql
  <2>1. /\ up(pl).k = pl.k /\ up(pl).b = pl.b + 1 /\ up(pl).p = pl.p
        /\ pl = [b |-> pl.b, k |-> pl.k, p |-> pl.p] /\ pl.b \in Nat
    BY <1>1
  <2>2. /\ up(ql).k = ql.k /\ up(ql).b = ql.b + 1 /\ up(ql).p = ql.p
        /\ ql = [b |-> ql.b, k |-> ql.k, p |-> ql.p] /\ ql.b \in Nat
    BY <1>1
  <2> HIDE DEF up
  <2>3. Ahead(up(pl), up(ql)) => Ahead(pl, ql)
    BY <2>1, <2>2 DEF Ahead
  <2>4. ASSUME up(pl) = up(ql)
        PROVE  pl = ql
    <3>1. pl.b = ql.b /\ pl.k = ql.k /\ pl.p = ql.p
      BY <2>1, <2>2, <2>4
    <3>2. QED
      BY <2>1, <2>2, <3>1
  <2>5. QED
    BY <2>3, <2>4
<1> HIDE DEF g, up
<1>6. MovesUp(bs, cs, key, g)
  BY <1>1, <1>2, <1>3, <1>4, <1>5 DEF MovesUp
<1>7. QED
  BY <1>6

\* ack() when items are left in the first block.
LEMMA ShortenMovesUp ==
    ASSUME NEW bs \in Seq(Block), NEW cs \in Seq(Block), NEW key \in Keys,
           1 \in 1..Len(bs), Len(cs) = Len(bs), List(bs, 1, key) # <<>>,
           \A b \in 1..Len(bs) : cs[b].type = bs[b].type,
           \A b \in 1..Len(bs), k \in Keys :
               List(cs, b, k) = IF b = 1 /\ k = key THEN Tail(List(bs, b, k)) ELSE List(bs, b, k)
    PROVE  \E g : MovesUp(bs, cs, key, g)
<1> DEFINE by(pl) == IF pl.b = 1 /\ pl.k = key THEN pl.p + 1 ELSE pl.p
<1> DEFINE up(pl) == [b |-> pl.b, k |-> pl.k, p |-> by(pl)]
<1> DEFINE g == [pl \in Places(cs) |-> up(pl)]
<1>0. /\ List(bs, 1, key) \in Seq(Items)
      /\ Len(List(bs, 1, key)) \in Nat
      /\ Len(Tail(List(bs, 1, key))) = Len(List(bs, 1, key)) - 1
      /\ \A p \in 1..Len(Tail(List(bs, 1, key))) :
             Tail(List(bs, 1, key))[p] = List(bs, 1, key)[p + 1]
  BY BlockFields, HeadTailProperties
<1>1. ASSUME NEW pl \in Places(cs)
      PROVE  /\ up(pl) \in Places(bs) /\ up(pl) # FirstOf(key)
             /\ ItemAt(cs, pl) = ItemAt(bs, up(pl))
             /\ cs[pl.b].type = bs[up(pl).b].type
             /\ up(pl).k = pl.k /\ up(pl).b = pl.b /\ up(pl).p = by(pl)
             /\ pl = [b |-> pl.b, k |-> pl.k, p |-> pl.p]
             /\ pl.b \in Nat /\ pl.p \in Nat
  <2>1. /\ pl = [b |-> pl.b, k |-> pl.k, p |-> pl.p]
        /\ pl.b \in 1..Len(bs) /\ pl.b \in Nat /\ pl.k \in Keys /\ pl.p \in Nat \ {0}
        /\ pl.p <= Len(List(cs, pl.b, pl.k))
    BY <1>1, PlaceFields
  <2>2. CASE pl.b = 1 /\ pl.k = key
    <3> DEFINE q == pl.p + 1
    <3>1. List(cs, 1, key) = Tail(List(bs, 1, key))
      BY <2>1, <2>2
    <3>2. q \in Nat \ {0} /\ q # 1 /\ q <= Len(List(bs, 1, key))
      BY <1>0, <2>1, <2>2, <3>1
    <3>3. List(cs, 1, key)[pl.p] = List(bs, 1, key)[q]
      BY <1>0, <2>1, <2>2, <3>1
    <3>4. up(pl) = [b |-> 1, k |-> key, p |-> q] /\ by(pl) = q
      BY <2>2
    <3> HIDE DEF q, up, by
    <3>5. [b |-> 1, k |-> key, p |-> q] \in Places(bs)
      BY <3>2, PlaceMade
    <3>6. up(pl) \in Places(bs) /\ up(pl) # FirstOf(key)
      BY <3>2, <3>4, <3>5 DEF FirstOf
    <3>7. up(pl).b = 1 /\ up(pl).k = key /\ up(pl).p = q
      BY <3>4
    <3>8. ItemAt(cs, pl) = ItemAt(bs, up(pl))
      BY <2>2, <3>3, <3>7 DEF ItemAt
    <3>9. QED
      BY <2>1, <2>2, <3>4, <3>6, <3>7, <3>8
  <2>3. CASE ~ (pl.b = 1 /\ pl.k = key)
    <3>1. up(pl) = pl /\ by(pl) = pl.p
      BY <2>1, <2>3
    <3>2. List(cs, pl.b, pl.k) = List(bs, pl.b, pl.k)
      BY <2>1, <2>3
    <3> HIDE DEF up, by
    <3>3. pl \in Places(bs)
      BY <2>1, <3>2, PlaceMade
    <3>4. pl # FirstOf(key)
      BY <2>3 DEF FirstOf
    <3>5. QED
      BY <2>1, <3>1, <3>2, <3>3, <3>4 DEF ItemAt
  <2>4. QED
    BY <2>2, <2>3
<1>2. ASSUME NEW ql \in Places(bs)
      PROVE  ql = FirstOf(key) \/ \E pl \in Places(cs) : up(pl) = ql
  <2>1. /\ ql = [b |-> ql.b, k |-> ql.k, p |-> ql.p]
        /\ ql.b \in 1..Len(bs) /\ ql.k \in Keys /\ ql.p \in Nat \ {0}
        /\ ql.p <= Len(List(bs, ql.b, ql.k))
    BY <1>2, PlaceFields
  <2>2. CASE ql.b = 1 /\ ql.k = key
    <3>1. CASE ql.p = 1
      BY <2>1, <2>2, <3>1 DEF FirstOf
    <3>2. CASE ql.p # 1
      <4> DEFINE q == ql.p - 1
      <4> DEFINE pl == [b |-> 1, k |-> key, p |-> q]
      <4>1. q \in Nat \ {0} /\ q + 1 = ql.p /\ q <= Len(List(cs, 1, key))
        BY <1>0, <2>1, <2>2, <3>2
      <4> HIDE DEF q
      <4>2. pl \in Places(cs)
        BY <4>1, PlaceMade
      <4>3. up(pl) = ql
        BY <2>1, <2>2, <4>1
      <4> HIDE DEF pl
      <4>4. QED
        BY <4>2, <4>3
    <3>3. QED
      BY <3>1, <3>2
  <2>3. CASE ~ (ql.b = 1 /\ ql.k = key)
    <3>1. List(cs, ql.b, ql.k) = List(bs, ql.b, ql.k)
      BY <2>1, <2>3
    <3>2. ql \in Places(cs)
      BY <2>1, <3>1, PlaceMade
    <3>3. up(ql) = ql
      BY <2>1, <2>3
    <3>4. QED
      BY <3>2, <3>3
  <2>4. QED
    BY <2>2, <2>3
<1>3. \A pl \in Places(cs) : g[pl] = up(pl)
  OBVIOUS
<1>4. g \in [Places(cs) -> Places(bs) \ {FirstOf(key)}]
  BY <1>1
<1>5. ASSUME NEW pl \in Places(cs), NEW ql \in Places(cs)
      PROVE  /\ Ahead(up(pl), up(ql)) => Ahead(pl, ql)
             /\ up(pl) = up(ql) => pl = ql
  <2>1. /\ up(pl).k = pl.k /\ up(pl).b = pl.b /\ up(pl).p = by(pl)
        /\ pl = [b |-> pl.b, k |-> pl.k, p |-> pl.p] /\ pl.p \in Nat
    BY <1>1
  <2>2. /\ up(ql).k = ql.k /\ up(ql).b = ql.b /\ up(ql).p = by(ql)
        /\ ql = [b |-> ql.b, k |-> ql.k, p |-> ql.p] /\ ql.p \in Nat
    BY <1>1
  <2> HIDE DEF up
  <2>3. Ahead(up(pl), up(ql)) => Ahead(pl, ql)
    BY <2>1, <2>2 DEF Ahead
  <2>4. ASSUME up(pl) = up(ql)
        PROVE  pl = ql
    <3>1. pl.b = ql.b /\ pl.k = ql.k /\ by(pl) = by(ql)
      BY <2>1, <2>2, <2>4
    <3>2. pl.p = ql.p
      BY <2>1, <2>2, <3>1
    <3>3. QED
      BY <2>1, <2>2, <3>1, <3>2
  <2>5. QED
    BY <2>3, <2>4
<1> HIDE DEF g, up
<1>6. MovesUp(bs, cs, key, g)
  BY <1>1, <1>2, <1>3, <1>4, <1>5 DEF MovesUp
<1>7. QED
  BY <1>6

\* ack(): the head of a queue of the first block leaves, and all that is left
\* moves up in its place.
LEMMA AckPlaces ==
    ASSUME NEW bs \in Seq(Block), InUse(bs), NEW key \in PQ!Busy(bs),
           NEW cs, cs = PQ!AckIn(bs, key)
    PROVE  /\ cs \in Seq(Block)
           /\ InUse(cs)
           /\ key \in Keys
           /\ FirstOf(key) \in Places(bs)
           /\ ItemAt(bs, FirstOf(key)) = bs[1].queues[key].list[1]
           /\ \E g : MovesUp(bs, cs, key, g)
<1> DEFINE first == [bs[1] EXCEPT !.queues[key] = [list |-> Tail(@.list), inProgress |-> FALSE]]
<1>1. /\ bs # <<>> /\ key \in Keys /\ bs[1].queues[key].inProgress
      /\ cs = IF \A q \in Keys : first.queues[q].list = <<>>
                 THEN Tail(bs) ELSE [bs EXCEPT ![1] = first]
  BY DEF PQ!Busy, PQ!AckIn
<1>2. 1 \in 1..Len(bs) /\ Len(bs) \in Nat
  BY <1>1, EmptySeq
<1>3. /\ bs[1] \in Block /\ bs[1].queues \in [Keys -> Queue]
      /\ List(bs, 1, key) \in Seq(Items) /\ List(bs, 1, key) # <<>>
  BY <1>1, <1>2, BlockFields DEF InUse
<1>4. /\ Tail(List(bs, 1, key)) \in Seq(Items)
      /\ Len(Tail(List(bs, 1, key))) = Len(List(bs, 1, key)) - 1
      /\ Len(List(bs, 1, key)) \in Nat \ {0}
  BY <1>3, HeadTailProperties, EmptySeq
<1>5. /\ first \in Block
      /\ first.type = bs[1].type
      /\ \A k \in Keys :
           /\ first.queues[k].list = IF k = key THEN Tail(bs[1].queues[k].list)
                                                ELSE bs[1].queues[k].list
           /\ first.queues[k].inProgress
                 = IF k = key THEN FALSE ELSE bs[1].queues[k].inProgress
  BY <1>1, <1>3, <1>4 DEF Block, Queue, List
<1> HIDE DEF first
<1>6. FirstOf(key) \in Places(bs) /\ ItemAt(bs, FirstOf(key)) = bs[1].queues[key].list[1]
  <2> DEFINE one == 1
  <2>1. one \in 1..Len(bs) /\ one \in Nat \ {0} /\ one <= Len(List(bs, one, key))
    BY <1>2, <1>4
  <2> HIDE DEF one
  <2>2. [b |-> one, k |-> key, p |-> one] \in Places(bs)
    BY <1>1, <2>1, PlaceMade
  <2>3. QED
    BY <2>2 DEF one, FirstOf, ItemAt, List
<1>7. CASE \A q \in Keys : first.queues[q].list = <<>>
  <2>1. /\ cs \in Seq(Block)
        /\ Len(cs) = Len(bs) - 1
        /\ \A b \in 1..Len(cs) : cs[b] = bs[b + 1]
    BY <1>1, <1>7, HeadTailProperties
  <2>2. InUse(cs)
    <3>1. ASSUME NEW b \in 1..Len(cs), NEW k \in Keys, cs[b].queues[k].inProgress
          PROVE  FALSE
      <4>1. b + 1 \in 1..Len(bs) /\ b + 1 # 1
        BY <1>2, <2>1
      <4>2. bs[b + 1].queues[k].inProgress
        BY <2>1, <3>1
      <4>3. QED
        BY <4>1, <4>2 DEF InUse
    <3>2. QED
      BY <3>1 DEF InUse
  <2>3. Len(<<>>) = 0
    OBVIOUS
  <2>4. Len(List(bs, 1, key)) = 1
    <3>1. Tail(List(bs, 1, key)) = <<>>
      BY <1>1, <1>5, <1>7 DEF List
    <3>2. Len(Tail(List(bs, 1, key))) = 0
      BY <2>3, <3>1
    <3>3. QED
      BY <1>4, <3>2
  <2>5. ASSUME NEW k \in Keys, k # key
        PROVE  Len(List(bs, 1, k)) = 0
    <3>1. List(bs, 1, k) = <<>>
      BY <1>5, <1>7, <2>5 DEF List
    <3>2. QED
      BY <2>3, <3>1
  <2>6. \E g : MovesUp(bs, cs, key, g)
    BY <1>1, <1>2, <2>1, <2>4, <2>5, DropMovesUp
  <2>7. QED
    BY <1>1, <1>6, <2>1, <2>2, <2>6
<1>8. CASE ~ (\A q \in Keys : first.queues[q].list = <<>>)
  <2>1. /\ cs \in Seq(Block)
        /\ Len(cs) = Len(bs)
        /\ \A b \in 1..Len(bs) : cs[b] = IF b = 1 THEN first ELSE bs[b]
    BY <1>1, <1>2, <1>5, <1>8, ExceptSeq
  <2>2. ASSUME NEW b \in 1..Len(bs), NEW k \in Keys
        PROVE  /\ cs[b].type = bs[b].type
               /\ List(cs, b, k) = IF b = 1 /\ k = key THEN Tail(List(bs, b, k)) ELSE List(bs, b, k)
               /\ cs[b].queues[k].inProgress
                     => ~ (b = 1 /\ k = key) /\ bs[b].queues[k].inProgress
    <3>1. CASE b = 1
      BY <1>5, <2>1, <3>1 DEF List
    <3>2. CASE b # 1
      BY <2>1, <3>2 DEF List
    <3>3. QED
      BY <3>1, <3>2
  <2>3. InUse(cs)
    <3>1. ASSUME NEW b \in 1..Len(bs), NEW k \in Keys, cs[b].queues[k].inProgress
          PROVE  b = 1 /\ List(cs, b, k) # <<>>
      <4>1. ~ (b = 1 /\ k = key) /\ bs[b].queues[k].inProgress
        BY <2>2, <3>1
      <4>2. b = 1 /\ List(bs, b, k) # <<>>
        BY <4>1 DEF InUse
      <4>3. QED
        BY <2>2, <4>1, <4>2
    <3>2. QED
      BY <2>1, <3>1 DEF InUse
  <2>4. \A b \in 1..Len(bs) : cs[b].type = bs[b].type
    BY <1>1, <2>2
  <2>5. \A b \in 1..Len(bs), k \in Keys :
            List(cs, b, k) = IF b = 1 /\ k = key THEN Tail(List(bs, b, k)) ELSE List(bs, b, k)
    BY <2>2
  <2>6. \E g : MovesUp(bs, cs, key, g)
    BY <1>1, <1>2, <1>3, <2>1, <2>4, <2>5, ShortenMovesUp
  <2>7. QED
    BY <1>1, <1>6, <2>1, <2>3, <2>6
<1>9. QED
  BY <1>7, <1>8

-----------------------------------------------------------------------------
(* The inductive invariant.                                                *)

\* A message waits in the queue of its own key, in a block of its own type.
Routed ==
    \A pl \in Places(blocks) :
        /\ ItemAt(blocks, pl).msg \in 1..Len(sent)
        /\ sent[ItemAt(blocks, pl).msg] = [type |-> blocks[pl.b].type, key |-> pl.k]

\* What the broker holds is in the order of publication, and so are the tags.
LineInOrder ==
    /\ \A i, j \in 1..Len(unacked) :
           i < j => unacked[i].msg < unacked[j].msg /\ unacked[i].tag < unacked[j].tag
    /\ \A i, j \in 1..Len(ready) : i < j => ready[i] < ready[j]
    /\ \A i \in 1..Len(unacked), j \in 1..Len(ready) : unacked[i].msg < ready[j]
    /\ \A i \in 1..Len(unacked) : unacked[i].tag <= lastTag /\ unacked[i].msg <= Len(sent)
    /\ \A i \in 1..Len(ready) : ready[i] <= Len(sent)

\* The broker holds message m.
AtBroker(m) == m \in UnackedMsgs \/ \E i \in 1..Len(ready) : ready[i] = m

\* A worker that was not told to stop holds what it was delivered and has not handled.
UnackedHeld ==
    ~closing => \A m \in UnackedMsgs : m \in handled \/ Held(blocks, m)

\* What must be handled before a message in the queue is handled, gone, or ahead of it.
NoneOvertaken ==
    \A pl \in Places(blocks) : \A m \in 1..Len(sent) :
        Before(m, ItemAt(blocks, pl).msg) =>
            \/ m \in handled
            \/ ~AtBroker(m) /\ ~Held(blocks, m)
            \/ \E ql \in Places(blocks) : ItemAt(blocks, ql).msg = m /\ Ahead(ql, pl)

\* On the first channel of a worker every item it holds is unacknowledged, and held once.
OnThisChannel ==
    losses = 0 =>
        /\ channel
        /\ \A pl \in Places(blocks) :
               \E i \in 1..Len(unacked) : unacked[i] = ItemAt(blocks, pl)
        /\ \A pl, ql \in Places(blocks) :
               ItemAt(blocks, pl).tag = ItemAt(blocks, ql).tag => pl = ql

\* A worker that is told to stop once waits for one cancel, or for none.
OneCancel ==
    MaxSignals = 1 => /\ signals = 0 => ~finished
                      /\ cancels > 0 => ~finished

IInv ==
    /\ TypeOK
    /\ InUse(blocks)
    /\ Routed
    /\ LineInOrder
    /\ UnackedHeld
    /\ NoneOvertaken
    /\ OnThisChannel
    /\ AckedUntilReconnected
    /\ OneCancel


-----------------------------------------------------------------------------
(* What the steps have in common.                                          *)

LEMMA MsgOfItem ==
    ASSUME NEW item \in Items
    PROVE  item = [msg |-> item.msg, tag |-> item.tag] /\ item.msg \in 1..MaxMsgs /\ item.tag \in Nat
BY DEF Items

LEMMA ItemIsItem ==
    ASSUME NEW bs \in Seq(Block), NEW pl \in Places(bs)
    PROVE  ItemAt(bs, pl) \in Items
<1>1. /\ pl.b \in 1..Len(bs) /\ pl.k \in Keys /\ pl.p \in Nat \ {0}
      /\ pl.p <= Len(List(bs, pl.b, pl.k))
  BY PlaceFields
<1>2. List(bs, pl.b, pl.k) \in Seq(Items) /\ Len(List(bs, pl.b, pl.k)) \in Nat
  BY <1>1, BlockFields
<1>3. pl.p \in 1..Len(List(bs, pl.b, pl.k))
  BY <1>1, <1>2
<1>4. QED
  BY <1>2, <1>3, ElementOfSeq DEF ItemAt

LEMMA NoPlaces == Places(<<>>) = {} /\ InUse(<<>>) /\ <<>> \in Seq(Block)
<1>1. Len(<<>>) = 0 /\ <<>> \in Seq(Block)
  BY EmptySeq
<1>2. 1..0 = {}
  OBVIOUS
<1>3. QED
  BY <1>1, <1>2 DEF Places, InUse

\* The delivery at place i is acknowledged.
LEMMA Removed ==
    ASSUME NEW u \in Seq(Items), NEW i \in 1..Len(u), NEW v, v = RemoveAt(u, i)
    PROVE  /\ v \in Seq(Items)
           /\ Len(v) = Len(u) - 1
           /\ \A j \in 1..Len(v) : v[j] = IF j < i THEN u[j] ELSE u[j + 1]
<1> DEFINE n == Len(u)
<1> DEFINE front == SubSeq(u, 1, i - 1)
<1> DEFINE back  == SubSeq(u, i + 1, n)
<1>0. n \in Nat /\ i \in 1..n /\ \A j \in 1..n : u[j] \in Items
  BY LenProperties, ElementOfSeq
<1>1. /\ front \in Seq(Items) /\ Len(front) = i - 1
      /\ \A j \in 1..(i - 1) : front[j] = u[j]
  <2>1. \A j \in 1..(i - 1) : u[j] \in Items
    BY <1>0
  <2>2. /\ front \in Seq(Items) /\ Len(front) = IF 1 <= i - 1 THEN (i - 1) - 1 + 1 ELSE 0
        /\ \A j \in 1..((i - 1) - 1 + 1) : front[j] = u[1 + j - 1]
    <3> DEFINE e == i - 1
    <3>1. e \in Int /\ \A j \in 1..e : u[j] \in Items
      BY <1>0, <2>1
    <3> HIDE DEF e
    <3>2. /\ SubSeq(u, 1, e) \in Seq(Items) /\ Len(SubSeq(u, 1, e)) = IF 1 <= e THEN e - 1 + 1 ELSE 0
          /\ \A j \in 1..(e - 1 + 1) : SubSeq(u, 1, e)[j] = u[1 + j - 1]
      BY <3>1, SubSeqProperties
    <3>3. QED
      BY <3>2 DEF e
  <2> HIDE DEF front
  <2>3. QED
    BY <1>0, <2>2
<1>2. /\ back \in Seq(Items) /\ Len(back) = n - i
      /\ \A j \in 1..(n - i) : back[j] = u[i + j]
  <2> DEFINE b == i + 1
  <2>1. b \in Int /\ n \in Int /\ \A j \in b..n : u[j] \in Items
    BY <1>0
  <2> HIDE DEF b, n
  <2>2. /\ SubSeq(u, b, n) \in Seq(Items) /\ Len(SubSeq(u, b, n)) = IF b <= n THEN n - b + 1 ELSE 0
        /\ \A j \in 1..(n - b + 1) : SubSeq(u, b, n)[j] = u[b + j - 1]
    BY <2>1, SubSeqProperties
  <2>3. back = SubSeq(u, b, n)
    BY DEF b
  <2> HIDE DEF back
  <2>4. Len(back) = n - i /\ back \in Seq(Items)
    BY <1>0, <2>2, <2>3 DEF b
  <2>5. ASSUME NEW j \in 1..(n - i)
        PROVE  back[j] = u[i + j]
    <3>1. j \in 1..(n - b + 1) /\ b + j - 1 = i + j
      BY <1>0 DEF b
    <3>2. QED
      BY <2>2, <2>3, <3>1
  <2>6. QED
    BY <2>4, <2>5
<1>3. v = front \o back
  BY DEF RemoveAt
<1> HIDE DEF front, back
<1>4. /\ v \in Seq(Items) /\ Len(v) = n - 1
      /\ \A j \in 1..(n - 1) : v[j] = IF j <= i - 1 THEN front[j] ELSE back[j - (i - 1)]
  <2>1. /\ v \in Seq(Items) /\ Len(v) = Len(front) + Len(back)
        /\ \A j \in 1..(Len(front) + Len(back)) :
               v[j] = IF j <= Len(front) THEN front[j] ELSE back[j - Len(front)]
    <3>1. front \in Seq(Items) /\ back \in Seq(Items)
      BY <1>1, <1>2
    <3>2. /\ front \o back \in Seq(Items) /\ Len(front \o back) = Len(front) + Len(back)
          /\ \A j \in 1..(Len(front) + Len(back)) : (front \o back)[j] =
                 IF j <= Len(front) THEN front[j] ELSE back[j - Len(front)]
      BY ONLY <3>1, ConcatProperties
    <3>3. QED
      BY ONLY <1>3, <3>2
  <2>2. Len(front) + Len(back) = n - 1
    BY <1>0, <1>1, <1>2
  <2>3. QED
    BY <1>1, <2>1, <2>2
<1>5. ASSUME NEW j \in 1..(n - 1)
      PROVE  v[j] = IF j < i THEN u[j] ELSE u[j + 1]
  <2>1. CASE j < i
    BY <1>0, <1>1, <1>4, <2>1
  <2>2. CASE ~ (j < i)
    <3>1. j - (i - 1) \in 1..(n - i) /\ i + (j - (i - 1)) = j + 1 /\ ~ (j <= i - 1)
      BY <1>0, <2>2
    <3>2. QED
      BY <1>2, <1>4, <2>2, <3>1
  <2>3. QED
    BY <2>1, <2>2
<1>6. QED
  BY <1>4, <1>5

\* The other deliveries are still there.
LEMMA RemovedKeeps ==
    ASSUME NEW u \in Seq(Items), NEW i \in 1..Len(u), NEW j \in 1..Len(u), j # i,
           NEW v, v = RemoveAt(u, i)
    PROVE  \E l \in 1..Len(v) : v[l] = u[j]
<1> DEFINE n == Len(u)
<1>1. Len(v) = n - 1 /\ \A l \in 1..Len(v) : v[l] = IF l < i THEN u[l] ELSE u[l + 1]
  BY Removed
<1>2. n \in Nat /\ i \in 1..n /\ j \in 1..n
  BY LenProperties
<1> HIDE DEF n
<1>3. CASE j < i
  <2>1. j \in 1..(n - 1)
    BY <1>2, <1>3
  <2>2. QED
    BY <1>1, <1>3, <2>1
<1>4. CASE ~ (j < i)
  <2>1. j - 1 \in 1..(n - 1) /\ ~ (j - 1 < i) /\ (j - 1) + 1 = j
    BY <1>2, <1>4
  <2>2. v[j - 1] = u[j]
    BY <1>1, <2>1
  <2>3. QED
    BY <1>1, <2>1, <2>2
<1>5. QED
  BY <1>3, <1>4

\* What goes back to the front of the line keeps it in order.
LEMMA RequeuedInOrder ==
    ASSUME TypeOK, LineInOrder
    PROVE  /\ Requeued \in Seq(1..MaxMsgs)
           /\ Len(Requeued) = Len(unacked) + Len(ready)
           /\ \A i, j \in 1..Len(Requeued) : i < j => Requeued[i] < Requeued[j]
           /\ \A i \in 1..Len(Requeued) : Requeued[i] <= Len(sent) /\ AtBroker(Requeued[i])
           /\ \A m : AtBroker(m) => \E i \in 1..Len(Requeued) : Requeued[i] = m
<1> DEFINE u == Len(unacked)
<1> DEFINE r == Len(ready)
<1> DEFINE front == [i \in 1..u |-> unacked[i].msg]
<1>1. /\ u \in Nat /\ r \in Nat /\ Len(sent) \in Nat
      /\ \A i \in 1..u : unacked[i] \in Items /\ unacked[i].msg \in 1..MaxMsgs
      /\ ready \in Seq(1..MaxMsgs) /\ \A i \in 1..r : ready[i] \in 1..MaxMsgs
  BY LenProperties, ElementOfSeq, MsgOfItem DEF TypeOK
<1>2. front \in Seq(1..MaxMsgs) /\ Len(front) = u /\ \A i \in 1..u : front[i] = unacked[i].msg
  <2>1. front \in [1..u -> 1..MaxMsgs] /\ DOMAIN front = 1..u /\ \A i \in 1..u : front[i] = unacked[i].msg
    BY <1>1
  <2> HIDE DEF front, u
  <2>2. front \in Seq(1..MaxMsgs)
    BY <1>1, <2>1, SeqDef
  <2>3. Len(front) = u
    BY <1>1, <2>1, <2>2, LenProperties
  <2>4. QED
    BY <2>1, <2>2, <2>3
<1>3. Requeued = front \o ready
  BY DEF Requeued
<1> HIDE DEF front
<1>4. /\ Requeued \in Seq(1..MaxMsgs)
      /\ Len(Requeued) = u + r
      /\ \A i \in 1..(u + r) : Requeued[i] = IF i <= u THEN unacked[i].msg ELSE ready[i - u]
  <2>1. /\ front \o ready \in Seq(1..MaxMsgs) /\ Len(front \o ready) = Len(front) + r
        /\ \A i \in 1..(Len(front) + r) : (front \o ready)[i] =
               IF i <= Len(front) THEN front[i] ELSE ready[i - Len(front)]
    <3>1. front \in Seq(1..MaxMsgs) /\ ready \in Seq(1..MaxMsgs)
      BY <1>1, <1>2
    <3>2. QED
      BY ONLY <3>1, ConcatProperties DEF r
  <2>2. /\ Requeued \in Seq(1..MaxMsgs) /\ Len(Requeued) = u + r
        /\ \A i \in 1..(u + r) : Requeued[i] = IF i <= u THEN front[i] ELSE ready[i - u]
    BY <1>2, <1>3, <2>1
  <2> HIDE DEF u, r
  <2>3. \A i \in 1..(u + r) : i <= u => i \in 1..u
    BY <1>1
  <2>4. QED
    BY <1>2, <2>2, <2>3
<1>5. LineInOrder
  OBVIOUS
<1>6. /\ \A i, j \in 1..u : i < j => unacked[i].msg < unacked[j].msg
      /\ \A i, j \in 1..r : i < j => ready[i] < ready[j]
      /\ \A i \in 1..u, j \in 1..r : unacked[i].msg < ready[j]
      /\ \A i \in 1..u : unacked[i].msg <= Len(sent)
      /\ \A i \in 1..r : ready[i] <= Len(sent)
  BY <1>5 DEF LineInOrder
<1>7. ASSUME NEW i \in 1..(u + r)
      PROVE  \/ i \in 1..u /\ i <= u /\ Requeued[i] = unacked[i].msg
             \/ i - u \in 1..r /\ ~(i <= u) /\ Requeued[i] = ready[i - u]
  BY <1>1, <1>4
<1>8. \A i \in 1..u : unacked[i].msg \in UnackedMsgs
  BY DEF UnackedMsgs
<1>9. \A m \in UnackedMsgs : \E i \in 1..u : unacked[i].msg = m
  BY DEF UnackedMsgs
<1> HIDE DEF u, r
<1>10. \A i \in 1..u : i \in 1..(u + r) /\ Requeued[i] = unacked[i].msg
  BY <1>1, <1>4
<1>11. ASSUME NEW i \in 1..r
       PROVE  i + u \in 1..(u + r) /\ Requeued[i + u] = ready[i]
  <2>1. i + u \in 1..(u + r) /\ ~(i + u <= u) /\ (i + u) - u = i
    BY <1>1
  <2>2. QED
    BY <1>4, <2>1
<1>12. ASSUME NEW i \in 1..(u + r), NEW j \in 1..(u + r), i < j
       PROVE  Requeued[i] < Requeued[j]
  <2>1. CASE j \in 1..u /\ j <= u /\ Requeued[j] = unacked[j].msg
    <3>1. i \in 1..u /\ Requeued[i] = unacked[i].msg
      BY <1>1, <1>7, <1>12, <2>1
    <3>2. QED
      BY <1>6, <1>12, <2>1, <3>1
  <2>2. CASE j - u \in 1..r /\ ~(j <= u) /\ Requeued[j] = ready[j - u]
    <3>1. CASE i \in 1..u /\ i <= u /\ Requeued[i] = unacked[i].msg
      BY <1>6, <2>2, <3>1
    <3>2. CASE i - u \in 1..r /\ ~(i <= u) /\ Requeued[i] = ready[i - u]
      <4>1. i - u < j - u
        BY <1>1, <1>12
      <4>2. QED
        BY <1>6, <2>2, <3>2, <4>1
    <3>3. QED
      BY <1>7, <3>1, <3>2
  <2>3. QED
    BY <1>7, <2>1, <2>2
<1>13. ASSUME NEW i \in 1..(u + r)
       PROVE  Requeued[i] <= Len(sent) /\ AtBroker(Requeued[i])
  <2>1. CASE i \in 1..u /\ i <= u /\ Requeued[i] = unacked[i].msg
    BY <1>6, <1>8, <2>1 DEF AtBroker
  <2>2. CASE i - u \in 1..r /\ ~(i <= u) /\ Requeued[i] = ready[i - u]
    BY <1>6, <2>2 DEF AtBroker, r
  <2>3. QED
    BY <1>7, <2>1, <2>2
<1>14. ASSUME NEW m, AtBroker(m)
       PROVE  \E i \in 1..(u + r) : Requeued[i] = m
  <2>1. CASE m \in UnackedMsgs
    BY <1>9, <1>10, <2>1
  <2>2. CASE \E i \in 1..r : ready[i] = m
    BY <1>11, <2>2
  <2>3. QED
    BY <1>14, <2>1, <2>2 DEF AtBroker, r
<1>15. QED
  BY <1>4, <1>12, <1>13, <1>14 DEF u, r

\* The line after the channel is gone: the same messages, all of them ready.
LEMMA LineAfterLoss ==
    ASSUME TypeOK, LineInOrder, ready' = Requeued, unacked' = <<>>, lastTag' = 0, sent' = sent
    PROVE  /\ ready' \in Seq(1..MaxMsgs) /\ unacked' \in Seq(Items) /\ lastTag' \in Nat
           /\ LineInOrder'
           /\ UnackedMsgs' = {}
           /\ \A m : AtBroker(m)' <=> AtBroker(m)
<1>1. Len(<<>>) = 0 /\ <<>> \in Seq(Items) /\ 0 \in Nat /\ 1..0 = {}
  BY EmptySeq
<1>2. UnackedMsgs' = {}
  BY <1>1 DEF UnackedMsgs
<1>3. LineInOrder'
  BY <1>1, RequeuedInOrder DEF LineInOrder
<1>4. ASSUME NEW m
      PROVE  AtBroker(m)' <=> AtBroker(m)
  <2>1. AtBroker(m)' <=> \E i \in 1..Len(Requeued) : Requeued[i] = m
    BY <1>2 DEF AtBroker
  <2>2. QED
    BY <2>1, RequeuedInOrder
<1>5. QED
  BY <1>1, <1>2, <1>3, <1>4, RequeuedInOrder

\* A step in which no message comes to the broker or to the worker that was not there
\* leaves the worker's queue as clear as it was.
LEMMA StaysClear ==
    ASSUME Routed, NoneOvertaken, sent' = sent, handled \subseteq handled',
           Places(blocks') = Places(blocks),
           \A pl \in Places(blocks) : /\ ItemAt(blocks', pl) = ItemAt(blocks, pl)
                                      /\ blocks'[pl.b].type = blocks[pl.b].type,
           \A m : AtBroker(m)' => AtBroker(m)
    PROVE  /\ Routed' /\ NoneOvertaken'
           /\ \A m : Held(blocks', m) <=> Held(blocks, m)
<1>1. Routed'
  BY DEF Routed
<1>2. ASSUME NEW m
      PROVE  Held(blocks', m) <=> Held(blocks, m)
  BY DEF Held
<1>3. ASSUME NEW pl \in Places(blocks), NEW m \in 1..Len(sent), Before(m, ItemAt(blocks, pl).msg)
      PROVE  \/ m \in handled'
             \/ ~AtBroker(m)' /\ ~Held(blocks', m)
             \/ \E ql \in Places(blocks) : ItemAt(blocks', ql).msg = m /\ Ahead(ql, pl)
  <2>1. \/ m \in handled
        \/ ~AtBroker(m) /\ ~Held(blocks, m)
        \/ \E ql \in Places(blocks) : ItemAt(blocks, ql).msg = m /\ Ahead(ql, pl)
    BY <1>3 DEF NoneOvertaken
  <2>2. CASE m \in handled
    BY <2>2
  <2>3. CASE ~AtBroker(m) /\ ~Held(blocks, m)
    BY <1>2, <2>3
  <2>4. CASE \E ql \in Places(blocks) : ItemAt(blocks, ql).msg = m /\ Ahead(ql, pl)
    BY <2>4
  <2>5. QED
    BY <2>1, <2>2, <2>3, <2>4
<1>4. \A m, n : Before(m, n)' <=> Before(m, n)
  BY DEF Before
<1>5. NoneOvertaken'
  BY <1>3, <1>4 DEF NoneOvertaken
<1>6. QED
  BY <1>1, <1>2, <1>5

\* A new worker holds nothing.
LEMMA NewWorker ==
    ASSUME IInv, Restarted, crashes' \in Nat, losses + crashes' <= MaxFaults
    PROVE  IInv'
<1>1. /\ TypeOK /\ LineInOrder /\ AckedUntilReconnected
      /\ ready' = Requeued /\ unacked' = <<>> /\ lastTag' = 0 /\ blocks' = <<>>
      /\ channel' = TRUE /\ consuming' = TRUE /\ closing' = FALSE /\ tagSeen' = FALSE
      /\ cancels' = 0 /\ finished' = FALSE /\ signals' = 0
      /\ sent' = sent /\ handled' = handled /\ losses' = losses
  BY DEF IInv, Restarted
<1>2. /\ ready' \in Seq(1..MaxMsgs) /\ unacked' \in Seq(Items) /\ lastTag' \in Nat
      /\ LineInOrder' /\ UnackedMsgs' = {}
      /\ \A m : AtBroker(m)' <=> AtBroker(m)
  BY <1>1, LineAfterLoss
<1>3. TypeOK'
  <2>1. 0 \in 0..MaxSignals /\ 0 \in 0..0
    BY AmqpBounds
  <2>2. QED
    BY <1>1, <1>2, <2>1, NoPlaces DEF TypeOK
<1>4. InUse(blocks') /\ Routed' /\ NoneOvertaken'
  BY <1>1, NoPlaces DEF Routed, NoneOvertaken
<1>5. UnackedHeld'
  BY <1>2 DEF UnackedHeld
<1>6. OnThisChannel'
  BY <1>1, NoPlaces DEF OnThisChannel
<1>7. AckedUntilReconnected'
  BY <1>1, <1>2 DEF AckedUntilReconnected, AckedOnlyWhenHandled, AtBroker
<1>8. OneCancel'
  BY <1>1 DEF OneCancel
<1>9. QED
  BY <1>2, <1>3, <1>4, <1>5, <1>6, <1>7, <1>8 DEF IInv

\* safeAck(): at most the delivery with this tag leaves the broker.
LEMMA LineAfterAck ==
    ASSUME TypeOK, LineInOrder, NEW tag, SafeAck(tag), sent' = sent
    PROVE  /\ ready' \in Seq(1..MaxMsgs) /\ unacked' \in Seq(Items) /\ lastTag' \in Nat
           /\ channel' \in BOOLEAN /\ consuming' \in BOOLEAN
           /\ LineInOrder'
           /\ UnackedMsgs' \subseteq UnackedMsgs
           /\ \A m : AtBroker(m)' => AtBroker(m)
<1>0. /\ ready \in Seq(1..MaxMsgs) /\ unacked \in Seq(Items) /\ lastTag \in Nat
      /\ channel \in BOOLEAN /\ consuming \in BOOLEAN /\ Len(unacked) \in Nat
  BY LenProperties DEF TypeOK
<1>1. CASE ~channel /\ UNCHANGED <<ready, unacked, lastTag, channel, consuming>>
  BY <1>0, <1>1 DEF LineInOrder, UnackedMsgs, AtBroker
<1>2. ASSUME channel, NEW i \in 1..Len(unacked), unacked' = RemoveAt(unacked, i),
             UNCHANGED <<ready, lastTag, channel, consuming>>
      PROVE  /\ ready' \in Seq(1..MaxMsgs) /\ unacked' \in Seq(Items) /\ lastTag' \in Nat
             /\ channel' \in BOOLEAN /\ consuming' \in BOOLEAN
             /\ LineInOrder'
             /\ UnackedMsgs' \subseteq UnackedMsgs
             /\ \A m : AtBroker(m)' => AtBroker(m)
  <2>1. /\ unacked' \in Seq(Items)
        /\ Len(unacked') = Len(unacked) - 1
        /\ \A j \in 1..Len(unacked') : unacked'[j] = IF j < i THEN unacked[j] ELSE unacked[j + 1]
    BY <1>0, <1>2, Removed
  <2> DEFINE old(j) == IF j < i THEN j ELSE j + 1
  <2>2. \A j \in 1..Len(unacked') : old(j) \in 1..Len(unacked) /\ unacked'[j] = unacked[old(j)]
    BY <1>0, <2>1
  <2>3. \A j, l \in 1..Len(unacked') : j < l => old(j) < old(l)
    BY <1>0, <2>1
  <2> HIDE DEF old
  <2>4. LineInOrder'
    <3>1. LineInOrder
      OBVIOUS
    <3>2. \A j, l \in 1..Len(unacked') :
              j < l => unacked'[j].msg < unacked'[l].msg /\ unacked'[j].tag < unacked'[l].tag
      BY <2>2, <2>3, <3>1 DEF LineInOrder
    <3>3. \A j \in 1..Len(unacked'), l \in 1..Len(ready') : unacked'[j].msg < ready'[l]
      BY <1>2, <2>2, <3>1 DEF LineInOrder
    <3>4. \A j \in 1..Len(unacked') : unacked'[j].tag <= lastTag' /\ unacked'[j].msg <= Len(sent')
      BY <1>2, <2>2, <3>1 DEF LineInOrder
    <3>5. /\ \A j, l \in 1..Len(ready') : j < l => ready'[j] < ready'[l]
          /\ \A j \in 1..Len(ready') : ready'[j] <= Len(sent')
      BY <1>2, <3>1 DEF LineInOrder
    <3>6. QED
      BY <3>2, <3>3, <3>4, <3>5 DEF LineInOrder
  <2>5. UnackedMsgs' \subseteq UnackedMsgs
    BY <2>2 DEF UnackedMsgs
  <2>6. QED
    BY <1>0, <1>2, <2>1, <2>4, <2>5 DEF AtBroker
<1>3. CASE channel /\ LoseChannel
  <2>1. /\ ready' = Requeued /\ unacked' = <<>> /\ lastTag' = 0
        /\ channel' = FALSE /\ consuming' = FALSE
    BY <1>3 DEF LoseChannel
  <2>2. QED
    BY <2>1, LineAfterLoss
<1>4. QED
  BY <1>1, <1>2, <1>3 DEF SafeAck

\* add() and the tick after it.
LEMMA AddPump ==
    ASSUME NEW bs \in Seq(Block), InUse(bs), NEW type \in Types, NEW key \in Keys,
           NEW item \in Items, NEW cs, cs \in Pump(PQ!AddTo(bs, type, key, item))
    PROVE  /\ cs \in Seq(Block)
           /\ InUse(cs)
           /\ \E new \in Places(cs) :
                 /\ new \notin Places(bs)
                 /\ Places(cs) = Places(bs) \cup {new}
                 /\ \A pl \in Places(bs) : /\ ItemAt(cs, pl) = ItemAt(bs, pl)
                                           /\ cs[pl.b].type = bs[pl.b].type
                                           /\ Ahead(pl, new) \/ (pl.b = new.b /\ pl.k # key)
                 /\ ItemAt(cs, new) = item
                 /\ cs[new.b].type = type /\ new.k = key
<1> DEFINE as == PQ!AddTo(bs, type, key, item)
<1>1. cs \in Pump(as)
  OBVIOUS
<1>2. as = PQ!AddTo(bs, type, key, item)
  OBVIOUS
<1> HIDE DEF as
<1>3. as \in Seq(Block) /\ InUse(as)
  BY <1>2, AddPlaces
<1>4. PICK new \in Places(as) :
           /\ new \notin Places(bs)
           /\ Places(as) = Places(bs) \cup {new}
           /\ \A pl \in Places(bs) : /\ ItemAt(as, pl) = ItemAt(bs, pl)
                                     /\ as[pl.b].type = bs[pl.b].type
                                     /\ Ahead(pl, new) \/ (pl.b = new.b /\ pl.k # key)
           /\ ItemAt(as, new) = item
           /\ as[new.b].type = type /\ new.k = key
  BY <1>2, AddPlaces
<1>5. /\ cs \in Seq(Block) /\ InUse(cs) /\ Places(cs) = Places(as)
      /\ \A pl \in Places(as) : ItemAt(cs, pl) = ItemAt(as, pl) /\ cs[pl.b].type = as[pl.b].type
  BY <1>1, <1>3, PumpPlaces
<1>6. /\ new \in Places(cs)
      /\ new \notin Places(bs)
      /\ Places(cs) = Places(bs) \cup {new}
      /\ \A pl \in Places(bs) : /\ ItemAt(cs, pl) = ItemAt(bs, pl)
                                /\ cs[pl.b].type = bs[pl.b].type
                                /\ Ahead(pl, new) \/ (pl.b = new.b /\ pl.k # key)
      /\ ItemAt(cs, new) = item
      /\ cs[new.b].type = type /\ new.k = key
  BY <1>4, <1>5
<1>7. QED
  BY <1>5, <1>6

\* ack() and the tick after it.
LEMMA AckPump ==
    ASSUME NEW bs \in Seq(Block), InUse(bs), NEW key \in PQ!Busy(bs),
           NEW cs, cs \in Pump(PQ!AckIn(bs, key))
    PROVE  /\ cs \in Seq(Block)
           /\ InUse(cs)
           /\ key \in Keys
           /\ FirstOf(key) \in Places(bs)
           /\ ItemAt(bs, FirstOf(key)) = bs[1].queues[key].list[1]
           /\ \E g : MovesUp(bs, cs, key, g)
<1> DEFINE as == PQ!AckIn(bs, key)
<1>1. cs \in Pump(as)
  OBVIOUS
<1>2. as = PQ!AckIn(bs, key)
  OBVIOUS
<1> HIDE DEF as
<1>3. /\ as \in Seq(Block) /\ InUse(as) /\ key \in Keys
      /\ FirstOf(key) \in Places(bs)
      /\ ItemAt(bs, FirstOf(key)) = bs[1].queues[key].list[1]
  BY <1>2, AckPlaces
<1>4. PICK g : MovesUp(bs, as, key, g)
  BY <1>2, AckPlaces
<1>5. /\ cs \in Seq(Block) /\ InUse(cs) /\ Places(cs) = Places(as)
      /\ \A pl \in Places(as) : ItemAt(cs, pl) = ItemAt(as, pl) /\ cs[pl.b].type = as[pl.b].type
  BY <1>1, <1>3, PumpPlaces
<1>6. MovesUp(bs, cs, key, g)
  BY <1>4, <1>5 DEF MovesUp
<1>7. QED
  BY <1>3, <1>5, <1>6

LEMMA InitIInv == Init => IInv
<1> SUFFICES ASSUME Init
             PROVE  IInv
  OBVIOUS
<1> USE DEF Init
<1>0. Len(<<>>) = 0 /\ 1..0 = {}
  OBVIOUS
<1>1. TypeOK
  <2>1. <<>> \in Seq(Routes) /\ <<>> \in Seq(1..MaxMsgs) /\ <<>> \in Seq(Items)
    OBVIOUS
  <2>2. 0 \in 0..MaxSignals /\ 0 \in 0..0 /\ 0 <= MaxMsgs /\ 0 + 0 <= MaxFaults
    BY AmqpBounds
  <2>3. QED
    BY <1>0, <2>1, <2>2, NoPlaces DEF TypeOK
<1>2. UnackedMsgs = {}
  BY <1>0 DEF UnackedMsgs
<1>3. LineInOrder
  BY <1>0 DEF LineInOrder
<1>4. InUse(blocks) /\ Routed /\ NoneOvertaken /\ OnThisChannel
  BY NoPlaces DEF Routed, NoneOvertaken, OnThisChannel
<1>5. UnackedHeld /\ AckedUntilReconnected /\ OneCancel
  BY <1>0, <1>2 DEF UnackedHeld, AckedUntilReconnected, AckedOnlyWhenHandled, OneCancel
<1>6. QED
  BY <1>1, <1>3, <1>4, <1>5 DEF IInv

\* The steps that leave messages and the worker's queue where they are.
LEMMA Steady ==
    ASSUME IInv, UNCHANGED <<sent, ready, unacked, blocks, handled>>
    PROVE  /\ InUse(blocks') /\ Routed' /\ NoneOvertaken'
           /\ AckedOnlyWhenHandled' <=> AckedOnlyWhenHandled
           /\ UnackedMsgs' = UnackedMsgs
<1>1. UnackedMsgs' = UnackedMsgs
  BY DEF UnackedMsgs
<1>2. \A m : AtBroker(m)' <=> AtBroker(m)
  BY <1>1 DEF AtBroker
<1>3. Routed' /\ NoneOvertaken'
  BY <1>2, StaysClear DEF IInv
<1>4. AckedOnlyWhenHandled' <=> AckedOnlyWhenHandled
  BY <1>1 DEF AckedOnlyWhenHandled
<1>5. QED
  BY <1>1, <1>3, <1>4 DEF IInv

-----------------------------------------------------------------------------
(* Every step preserves the invariant.                                     *)

LEMMA StepPublish == ASSUME IInv, NEW r \in Routes, Publish(r) PROVE IInv'
<1> DEFINE n == Len(sent)
<1> DEFINE w == Len(ready)
<1>1. /\ TypeOK /\ LineInOrder /\ Routed /\ NoneOvertaken
      /\ n < MaxMsgs /\ sent' = Append(sent, r) /\ ready' = Append(ready, n + 1)
      /\ UNCHANGED <<unacked, lastTag, channel, consuming, workerVars, handled, losses, crashes>>
  BY DEF IInv, Publish
<1>2. /\ sent \in Seq(Routes) /\ n \in Nat /\ ready \in Seq(1..MaxMsgs) /\ w \in Nat
      /\ blocks \in Seq(Block)
  BY <1>1, LenProperties DEF TypeOK
<1>3. n + 1 \in 1..MaxMsgs
  BY <1>1, <1>2, AmqpBounds
<1>4. /\ sent' \in Seq(Routes) /\ Len(sent') = n + 1
      /\ \A m \in 1..n : sent'[m] = sent[m]
  BY <1>1, <1>2, AppendProperties
<1>5. /\ ready' \in Seq(1..MaxMsgs) /\ Len(ready') = w + 1 /\ ready'[w + 1] = n + 1
      /\ \A i \in 1..w : ready'[i] = ready[i]
  BY <1>1, <1>2, <1>3, AppendProperties
<1> HIDE DEF n, w
<1>6. \A i \in 1..(w + 1) : i \in 1..w \/ i = w + 1
  BY <1>2
<1>7. /\ UnackedMsgs' = UnackedMsgs
      /\ \A m : AtBroker(m)' <=> AtBroker(m) \/ m = n + 1
  <2>1. UnackedMsgs' = UnackedMsgs
    BY <1>1 DEF UnackedMsgs, workerVars
  <2>2. ASSUME NEW m
        PROVE  (\E i \in 1..Len(ready') : ready'[i] = m) <=> (\E i \in 1..w : ready[i] = m) \/ m = n + 1
    <3>1. w + 1 \in 1..(w + 1) /\ \A i \in 1..w : i \in 1..(w + 1)
      BY <1>2
    <3>2. QED
      BY <1>5, <1>6, <3>1
  <2>3. QED
    BY <2>1, <2>2 DEF AtBroker, w
<1>8. TypeOK'
  BY <1>1, <1>3, <1>4, <1>5 DEF TypeOK, workerVars
<1>9. LineInOrder'
  <2>1. /\ \A i, j \in 1..Len(unacked) :
               i < j => unacked[i].msg < unacked[j].msg /\ unacked[i].tag < unacked[j].tag
        /\ \A i, j \in 1..w : i < j => ready[i] < ready[j]
        /\ \A i \in 1..Len(unacked), j \in 1..w : unacked[i].msg < ready[j]
        /\ \A i \in 1..Len(unacked) : unacked[i].tag <= lastTag /\ unacked[i].msg <= n
        /\ \A i \in 1..w : ready[i] <= n
    BY <1>1 DEF LineInOrder, n, w
  <2>2. \A i \in 1..Len(unacked) : unacked[i].msg \in Nat
    <3>1. \A i \in 1..Len(unacked) : unacked[i] \in Items
      BY <1>1, ElementOfSeq DEF TypeOK
    <3>2. QED
      BY <3>1, MsgOfItem
  <2>3. \A i \in 1..w : ready[i] \in Nat
    <3>1. \A i \in 1..w : ready[i] \in 1..MaxMsgs
      BY <1>2, ElementOfSeq DEF w
    <3>2. QED
      BY <3>1
  <2>4. \A i \in 1..w : ready'[i] = ready[i] /\ ready[i] < n + 1
    BY <1>2, <1>5, <2>1, <2>3
  <2>5. \A i, j \in 1..(w + 1) : i < j => ready'[i] < ready'[j]
    <3>1. ASSUME NEW i \in 1..(w + 1), NEW j \in 1..(w + 1), i < j
          PROVE  ready'[i] < ready'[j]
      <4>1. i \in 1..w
        BY <1>2, <3>1
      <4>2. CASE j \in 1..w
        BY <2>1, <2>4, <3>1, <4>1, <4>2
      <4>3. CASE j = w + 1
        BY <1>5, <2>4, <4>1, <4>3
      <4>4. QED
        BY <1>6, <4>2, <4>3
    <3>2. QED
      BY <3>1
  <2>6. \A i \in 1..Len(unacked), j \in 1..(w + 1) : unacked[i].msg < ready'[j]
    <3>1. ASSUME NEW i \in 1..Len(unacked), NEW j \in 1..(w + 1)
          PROVE  unacked[i].msg < ready'[j]
      <4>1. CASE j \in 1..w
        BY <2>1, <2>4, <4>1
      <4>2. CASE j = w + 1
        BY <1>2, <1>5, <2>1, <2>2, <4>2
      <4>3. QED
        BY <1>6, <4>1, <4>2
    <3>2. QED
      BY <3>1
  <2>7. \A i \in 1..(w + 1) : ready'[i] <= n + 1
    <3>1. ASSUME NEW i \in 1..(w + 1)
          PROVE  ready'[i] <= n + 1
      <4>1. CASE i \in 1..w
        BY <1>2, <2>3, <2>4, <4>1
      <4>2. CASE i = w + 1
        BY <1>2, <1>5, <4>2
      <4>3. QED
        BY <1>6, <4>1, <4>2
    <3>2. QED
      BY <3>1
  <2>8. \A i \in 1..Len(unacked) : unacked[i].tag <= lastTag /\ unacked[i].msg <= n + 1
    BY <1>2, <2>1, <2>2
  <2>9. QED
    BY <1>1, <1>4, <1>5, <2>1, <2>5, <2>6, <2>7, <2>8 DEF LineInOrder
<1>10. blocks' = blocks /\ closing' = closing /\ handled' = handled /\ losses' = losses
       /\ channel' = channel /\ unacked' = unacked /\ finished' = finished
       /\ signals' = signals /\ cancels' = cancels
  BY <1>1 DEF workerVars
<1>11. \A pl \in Places(blocks) : ItemAt(blocks, pl).msg \in 1..n
  BY <1>1 DEF Routed, n
<1>12. Routed'
  <2>1. \A m \in 1..n : m \in 1..(n + 1)
    BY <1>2
  <2>2. QED
    BY <1>1, <1>4, <1>10, <1>11, <2>1 DEF Routed
<1>13. NoneOvertaken'
  <2>1. ASSUME NEW pl \in Places(blocks), NEW m \in 1..(n + 1), Before(m, ItemAt(blocks, pl).msg)'
        PROVE  \/ m \in handled
               \/ ~AtBroker(m)' /\ ~Held(blocks, m)
               \/ \E ql \in Places(blocks) : ItemAt(blocks, ql).msg = m /\ Ahead(ql, pl)
    <3> DEFINE x == ItemAt(blocks, pl).msg
    <3>1. x \in 1..n /\ m < x
      BY <1>10, <1>11, <2>1 DEF Before
    <3>2. m \in 1..n /\ m # n + 1
      BY <1>2, <3>1
    <3>3. sent'[m] = sent[m] /\ sent'[x] = sent[x]
      BY <1>4, <3>1, <3>2
    <3>4. Before(m, x)
      BY <1>10, <2>1, <3>3 DEF Before
    <3>5. \/ m \in handled
          \/ ~AtBroker(m) /\ ~Held(blocks, m)
          \/ \E ql \in Places(blocks) : ItemAt(blocks, ql).msg = m /\ Ahead(ql, pl)
      BY <1>1, <3>2, <3>4 DEF NoneOvertaken, n
    <3>6. QED
      BY <1>7, <3>2, <3>5
  <2>2. QED
    BY <1>4, <1>10, <2>1 DEF NoneOvertaken
<1>14. InUse(blocks') /\ UnackedHeld' /\ OnThisChannel' /\ OneCancel'
  BY <1>7, <1>10 DEF IInv, UnackedHeld, OnThisChannel, OneCancel
<1>15. AckedUntilReconnected'
  <2>1. ASSUME losses = 0, NEW m \in 1..(n + 1)
        PROVE  m \in handled \/ AtBroker(m)'
    <3>1. m \in 1..n \/ m = n + 1
      BY <1>2
    <3>2. QED
      BY <1>7, <2>1, <3>1 DEF IInv, AckedUntilReconnected, AckedOnlyWhenHandled, AtBroker, n
  <2>2. QED
    BY <1>4, <1>10, <2>1 DEF AckedUntilReconnected, AckedOnlyWhenHandled, AtBroker
<1>16. QED
  BY <1>8, <1>9, <1>12, <1>13, <1>14, <1>15 DEF IInv

LEMMA StepReconnect == ASSUME IInv, Reconnect PROVE IInv'
<1>1. /\ ~channel /\ channel' = TRUE /\ consuming' = TRUE
      /\ UNCHANGED <<sent, ready, unacked, lastTag, blocks, closing, tagSeen, cancels, finished,
                     signals, handled, losses, crashes>>
  BY DEF Reconnect, brokerVars, workerVars
<1>2. /\ InUse(blocks') /\ Routed' /\ NoneOvertaken'
      /\ AckedOnlyWhenHandled' <=> AckedOnlyWhenHandled
      /\ UnackedMsgs' = UnackedMsgs
  BY <1>1, Steady
<1>3. TypeOK'
  BY <1>1 DEF IInv, TypeOK
<1>4. LineInOrder' /\ UnackedHeld' /\ AckedUntilReconnected' /\ OneCancel'
  BY <1>1, <1>2 DEF IInv, LineInOrder, UnackedHeld, AckedUntilReconnected, OneCancel
<1>5. losses' # 0
  BY <1>1 DEF IInv, OnThisChannel
<1>6. OnThisChannel'
  BY <1>5 DEF OnThisChannel
<1>7. QED
  BY <1>2, <1>3, <1>4, <1>6 DEF IInv

LEMMA StepChannelLost == ASSUME IInv, ChannelLost PROVE IInv'
<1>1. /\ TypeOK /\ LineInOrder
      /\ channel' = FALSE /\ consuming' = FALSE
      /\ ready' = Requeued /\ unacked' = <<>> /\ lastTag' = 0
      /\ losses + crashes < MaxFaults /\ losses' = losses + 1
      /\ UNCHANGED <<sent, blocks, closing, tagSeen, cancels, finished, signals, handled, crashes>>
  BY DEF IInv, ChannelLost, LoseChannel, workerVars
<1>2. /\ ready' \in Seq(1..MaxMsgs) /\ unacked' \in Seq(Items) /\ lastTag' \in Nat
      /\ LineInOrder' /\ UnackedMsgs' = {}
      /\ \A m : AtBroker(m)' <=> AtBroker(m)
  BY <1>1, LineAfterLoss
<1>3. losses' \in Nat /\ losses' # 0 /\ crashes' \in Nat /\ losses' + crashes' <= MaxFaults
  BY <1>1, AmqpBounds DEF TypeOK
<1>4. TypeOK'
  BY <1>1, <1>2, <1>3 DEF TypeOK
<1>5. Routed' /\ NoneOvertaken'
  BY <1>1, <1>2, StaysClear DEF IInv
<1>6. InUse(blocks') /\ UnackedHeld' /\ OnThisChannel' /\ AckedUntilReconnected' /\ OneCancel'
  BY <1>1, <1>2, <1>3 DEF IInv, UnackedHeld, OnThisChannel, AckedUntilReconnected, OneCancel
<1>7. QED
  BY <1>2, <1>4, <1>5, <1>6 DEF IInv

LEMMA StepCrash == ASSUME IInv, Crash PROVE IInv'
<1>1. Restarted /\ crashes' = crashes + 1 /\ losses + crashes < MaxFaults
  BY DEF Crash
<1>2. crashes' \in Nat /\ losses + crashes' <= MaxFaults
  BY <1>1, AmqpBounds DEF IInv, TypeOK
<1>3. QED
  BY <1>1, <1>2, NewWorker

LEMMA StepShutdown == ASSUME IInv, Shutdown PROVE IInv'
<1>0. crashes' = crashes /\ crashes \in Nat /\ losses + crashes <= MaxFaults
  BY DEF IInv, TypeOK, Shutdown
<1>1. CASE Restarted
  BY <1>0, <1>1, NewWorker
<1>2. ASSUME /\ closing' = TRUE /\ signals < MaxSignals /\ signals' = signals + 1
             /\ \/ cancels' = cancels + 1 /\ finished' = finished
                \/ cancels' = cancels /\ finished' = TRUE
             /\ UNCHANGED <<brokerVars, channel, consuming, blocks, tagSeen, handled, losses>>
      PROVE  IInv'
  <2>1. /\ UNCHANGED <<sent, ready, unacked, lastTag, channel, consuming, blocks, tagSeen, handled,
                       losses, crashes>>
        /\ closing' = TRUE
    BY <1>0, <1>2 DEF brokerVars
  <2>2. /\ InUse(blocks') /\ Routed' /\ NoneOvertaken'
        /\ AckedOnlyWhenHandled' <=> AckedOnlyWhenHandled
        /\ UnackedMsgs' = UnackedMsgs
    BY <2>1, Steady
  <2>3. signals \in 0..MaxSignals /\ cancels \in 0..signals /\ finished \in BOOLEAN
    BY DEF IInv, TypeOK
  <2>4. signals' \in 0..MaxSignals /\ cancels' \in 0..signals' /\ finished' \in BOOLEAN
    <3>1. signals' \in 0..MaxSignals
      BY <1>2, <2>3, AmqpBounds
    <3>2. cancels' = cancels + 1 \/ cancels' = cancels
      BY <1>2
    <3>3. cancels' \in 0..signals'
      BY <1>2, <2>3, <3>2, AmqpBounds
    <3>4. finished' = finished \/ finished' = TRUE
      BY <1>2
    <3>5. finished' \in BOOLEAN
      BY <2>3, <3>4
    <3>6. QED
      BY <3>1, <3>3, <3>5
  <2>5. TypeOK'
    BY <2>1, <2>4 DEF IInv, TypeOK
  <2>6. LineInOrder' /\ UnackedHeld' /\ AckedUntilReconnected' /\ OnThisChannel'
    BY <2>1, <2>2 DEF IInv, LineInOrder, UnackedHeld, AckedUntilReconnected, OnThisChannel
  <2>7. OneCancel'
    <3>1. ASSUME MaxSignals = 1
          PROVE  signals' # 0 /\ (cancels' > 0 => ~finished')
      <4>1. signals = 0 /\ cancels = 0 /\ signals' = 1
        BY <1>2, <2>3, <3>1
      <4>2. ~finished
        BY <3>1, <4>1 DEF IInv, OneCancel
      <4>3. CASE cancels' = cancels + 1 /\ finished' = finished
        BY <4>1, <4>2, <4>3
      <4>4. CASE cancels' = cancels /\ finished' = TRUE
        BY <4>1, <4>4
      <4>5. QED
        BY <1>2, <4>1, <4>3, <4>4
    <3>2. QED
      BY <3>1 DEF OneCancel
  <2>8. QED
    BY <2>2, <2>5, <2>6, <2>7 DEF IInv
<1>3. QED
  BY <1>1, <1>2 DEF Shutdown

LEMMA StepCancelOk == ASSUME IInv, CancelOk PROVE IInv'
<1>0. crashes' = crashes /\ crashes \in Nat /\ losses + crashes <= MaxFaults
  BY DEF IInv, TypeOK, CancelOk
<1>1. CASE Restarted
  BY <1>0, <1>1, NewWorker
<1>2. ASSUME /\ cancels > 0 /\ cancels' = cancels - 1 /\ consuming' = FALSE /\ finished' = TRUE
             /\ UNCHANGED <<brokerVars, channel, blocks, closing, tagSeen, signals, handled, losses>>
      PROVE  IInv'
  <2>1. UNCHANGED <<sent, ready, unacked, lastTag, channel, blocks, closing, tagSeen, signals,
                    handled, losses, crashes>>
    BY <1>0, <1>2 DEF brokerVars
  <2>2. /\ InUse(blocks') /\ Routed' /\ NoneOvertaken'
        /\ AckedOnlyWhenHandled' <=> AckedOnlyWhenHandled
        /\ UnackedMsgs' = UnackedMsgs
    BY <2>1, Steady
  <2>3. signals \in 0..MaxSignals /\ cancels \in 0..signals
    BY DEF IInv, TypeOK
  <2>4. cancels' \in 0..signals' /\ finished' \in BOOLEAN /\ consuming' \in BOOLEAN
    <3>1. cancels' \in 0..signals'
      <4>1. cancels > 0 /\ cancels' = cancels - 1 /\ signals' = signals
        BY <1>2
      <4>2. QED
        BY <2>3, <4>1, AmqpBounds
    <3>2. QED
      BY <1>2, <3>1
  <2>5. TypeOK'
    BY <2>1, <2>4 DEF IInv, TypeOK
  <2>6. LineInOrder' /\ UnackedHeld' /\ AckedUntilReconnected' /\ OnThisChannel'
    BY <2>1, <2>2 DEF IInv, LineInOrder, UnackedHeld, AckedUntilReconnected, OnThisChannel
  <2>7. OneCancel'
    <3>1. ASSUME MaxSignals = 1
          PROVE  signals' # 0 /\ ~(cancels' > 0)
      BY <1>2, <2>1, <2>3, <3>1
    <3>2. QED
      BY <3>1 DEF OneCancel
  <2>8. QED
    BY <2>2, <2>5, <2>6, <2>7 DEF IInv
<1>3. QED
  BY <1>1, <1>2 DEF CancelOk

\* A delivery takes the head of the line.
LEMMA HeadTaken ==
    ASSUME TypeOK, LineInOrder, ready # <<>>
    PROVE  /\ Head(ready) \in 1..MaxMsgs /\ Head(ready) \in 1..Len(sent)
           /\ AtBroker(Head(ready)) /\ Head(ready) \notin UnackedMsgs
           /\ Tail(ready) \in Seq(1..MaxMsgs)
           /\ \A i \in 1..Len(Tail(ready)) :
                  ready[i + 1] = Tail(ready)[i] /\ i + 1 \in 1..Len(ready) /\ i \in Nat
           /\ 1 \in 1..Len(ready) /\ ready[1] = Head(ready)
           /\ \A i \in 1..Len(ready) : ready[i] # Head(ready) =>
                  Head(ready) < ready[i] /\ \E j \in 1..Len(Tail(ready)) : Tail(ready)[j] = ready[i]
           /\ \A i \in 1..Len(Tail(ready)) : Head(ready) < Tail(ready)[i]
<1> DEFINE w == Len(ready)
<1>1. /\ ready \in Seq(1..MaxMsgs) /\ w \in Nat \ {0} /\ Len(sent) \in Nat
      /\ \A i \in 1..w : ready[i] \in 1..MaxMsgs
  BY EmptySeq, LenProperties, ElementOfSeq DEF TypeOK
<1>2. /\ Head(ready) \in 1..MaxMsgs
      /\ Tail(ready) \in Seq(1..MaxMsgs) /\ Len(Tail(ready)) = w - 1
      /\ \A i \in 1..Len(Tail(ready)) : Tail(ready)[i] = ready[i + 1]
  BY <1>1, HeadTailProperties
<1>3. Head(ready) = ready[1]
  BY <1>1
<1>4. LineInOrder
  OBVIOUS
<1>5. /\ \A i, j \in 1..w : i < j => ready[i] < ready[j]
      /\ \A i \in 1..Len(unacked), j \in 1..w : unacked[i].msg < ready[j]
      /\ \A i \in 1..w : ready[i] <= Len(sent)
  BY <1>4 DEF LineInOrder
<1>6. 1 \in 1..w
  BY <1>1
<1>7. Head(ready) \in 1..Len(sent)
  <2>1. ready[1] \in 1..MaxMsgs /\ ready[1] <= Len(sent)
    BY <1>1, <1>5, <1>6
  <2>2. QED
    BY <1>1, <1>3, <2>1, AmqpBounds
<1>8. AtBroker(Head(ready))
  BY <1>3, <1>6 DEF AtBroker
<1>9. Head(ready) \notin UnackedMsgs
  <2>1. ASSUME NEW i \in 1..Len(unacked), unacked[i].msg = ready[1]
        PROVE  FALSE
    <3>1. ready[1] < ready[1] /\ ready[1] \in Nat
      BY <1>1, <1>5, <1>6, <2>1
    <3>2. QED
      BY <3>1
  <2>2. QED
    BY <1>3, <2>1 DEF UnackedMsgs
<1>10. ASSUME NEW i \in 1..(w - 1)
       PROVE  ready[i + 1] = Tail(ready)[i] /\ i + 1 \in 1..w /\ i \in Nat /\ Head(ready) < Tail(ready)[i]
  <2>1. i + 1 \in 1..w /\ 1 < i + 1 /\ i \in Nat
    BY <1>1
  <2>2. ready[1] < ready[i + 1]
    BY <1>5, <1>6, <2>1
  <2>3. QED
    BY <1>2, <1>3, <2>1, <2>2
<1>11. ASSUME NEW i \in 1..w, ready[i] # Head(ready)
       PROVE  Head(ready) < ready[i] /\ \E j \in 1..(w - 1) : Tail(ready)[j] = ready[i]
  <2>1. i # 1 /\ 1 < i
    BY <1>1, <1>3, <1>11
  <2>2. Head(ready) < ready[i]
    BY <1>3, <1>5, <1>6, <2>1
  <2>3. i - 1 \in 1..(w - 1) /\ (i - 1) + 1 = i
    BY <1>1, <2>1
  <2>4. Tail(ready)[i - 1] = ready[i]
    BY <1>2, <2>3
  <2>5. QED
    BY <2>2, <2>3, <2>4
<1>12. QED
  BY <1>2, <1>3, <1>6, <1>7, <1>8, <1>9, <1>10, <1>11

\* The line after a delivery that is acknowledged at once.
LEMMA LineWithoutHead ==
    ASSUME TypeOK, LineInOrder, ready # <<>>, ready' = Tail(ready), lastTag' = lastTag + 1,
           unacked' = unacked, sent' = sent
    PROVE  /\ ready' \in Seq(1..MaxMsgs) /\ lastTag' \in Nat
           /\ LineInOrder'
           /\ UnackedMsgs' = UnackedMsgs
           /\ \A m : AtBroker(m)' => AtBroker(m)
           /\ \A m : AtBroker(m) => AtBroker(m)' \/ m = Head(ready)
<1>1. /\ ready' \in Seq(1..MaxMsgs) /\ lastTag' \in Nat /\ lastTag \in Nat
      /\ \A i \in 1..Len(unacked) : unacked[i] \in Items
  BY HeadTaken, ElementOfSeq DEF TypeOK
<1>2. UnackedMsgs' = UnackedMsgs
  BY DEF UnackedMsgs
<1>3. \A i \in 1..Len(ready') : ready'[i] = ready[i + 1] /\ i + 1 \in 1..Len(ready) /\ i \in Nat
  BY HeadTaken
<1>4. LineInOrder
  OBVIOUS
<1>5. \A i, j \in 1..Len(ready') : i < j => ready'[i] < ready'[j]
  <2>1. ASSUME NEW i \in 1..Len(ready'), NEW j \in 1..Len(ready'), i < j
        PROVE  ready'[i] < ready'[j]
    <3>1. i + 1 < j + 1
      BY <1>3, <2>1
    <3>2. QED
      BY <1>3, <1>4, <3>1 DEF LineInOrder
  <2>2. QED
    BY <2>1
<1>6. \A i \in 1..Len(unacked), j \in 1..Len(ready') : unacked[i].msg < ready'[j]
  BY <1>3, <1>4 DEF LineInOrder
<1>7. \A i \in 1..Len(unacked) : unacked[i].tag <= lastTag'
  <2>1. ASSUME NEW i \in 1..Len(unacked)
        PROVE  unacked[i].tag <= lastTag'
    <3>1. unacked[i].tag <= lastTag /\ unacked[i].tag \in Nat
      BY <1>1, <1>4, MsgOfItem DEF LineInOrder
    <3>2. QED
      BY <1>1, <3>1
  <2>2. QED
    BY <2>1
<1>8. \A i \in 1..Len(ready') : ready'[i] <= Len(sent)
  BY <1>3, <1>4 DEF LineInOrder
<1>9. LineInOrder'
  BY <1>4, <1>5, <1>6, <1>7, <1>8 DEF LineInOrder
<1>10. ASSUME NEW m
       PROVE  /\ AtBroker(m)' => AtBroker(m)
              /\ AtBroker(m) => AtBroker(m)' \/ m = Head(ready)
  <2>1. ASSUME NEW i \in 1..Len(ready'), ready'[i] = m
        PROVE  AtBroker(m)
    BY <1>3, <2>1 DEF AtBroker
  <2>2. ASSUME NEW i \in 1..Len(ready), ready[i] = m, m # Head(ready)
        PROVE  AtBroker(m)'
    <3>1. \E j \in 1..Len(ready') : ready'[j] = ready[i]
      BY <2>2, HeadTaken
    <3>2. QED
      BY <2>2, <3>1 DEF AtBroker
  <2>3. QED
    BY <1>2, <2>1, <2>2 DEF AtBroker
<1>11. QED
  BY <1>1, <1>2, <1>9, <1>10

\* The line after a delivery that waits for its acknowledgement.
LEMMA LineWithUnacked ==
    ASSUME TypeOK, LineInOrder, ready # <<>>, ready' = Tail(ready), lastTag' = lastTag + 1,
           unacked' = Append(unacked, Item(Head(ready), lastTag + 1)), sent' = sent
    PROVE  /\ ready' \in Seq(1..MaxMsgs) /\ lastTag' \in Nat /\ unacked' \in Seq(Items)
           /\ Item(Head(ready), lastTag + 1) \in Items
           /\ Len(unacked') = Len(unacked) + 1
           /\ \A i \in 1..Len(unacked) :
                  /\ i \in 1..Len(unacked') /\ unacked'[i] = unacked[i]
                  /\ unacked[i].tag # lastTag + 1
           /\ \E i \in 1..Len(unacked') : unacked'[i] = Item(Head(ready), lastTag + 1)
           /\ LineInOrder'
           /\ UnackedMsgs' = UnackedMsgs \cup {Head(ready)}
           /\ \A m : AtBroker(m)' <=> AtBroker(m)
<1> DEFINE item == Item(Head(ready), lastTag + 1)
<1> DEFINE u == Len(unacked)
<1>1. /\ unacked \in Seq(Items) /\ u \in Nat /\ lastTag \in Nat
      /\ \A i \in 1..u : unacked[i] \in Items
      /\ \A i \in 1..u : unacked[i].tag \in Nat /\ unacked[i].msg \in Nat
      /\ Len(sent) \in Nat
  <2>1. /\ unacked \in Seq(Items) /\ u \in Nat /\ lastTag \in Nat /\ Len(sent) \in Nat
        /\ \A i \in 1..u : unacked[i] \in Items
    BY ElementOfSeq, LenProperties DEF TypeOK
  <2>2. QED
    BY <2>1, MsgOfItem
<1>2. item \in Items /\ item.msg = Head(ready) /\ item.tag = lastTag + 1
  BY <1>1, HeadTaken DEF Item, Items
<1> HIDE DEF item
<1>3. /\ unacked' \in Seq(Items) /\ Len(unacked') = u + 1 /\ unacked'[u + 1] = item
      /\ \A i \in 1..u : unacked'[i] = unacked[i]
  <2>1. unacked' = Append(unacked, item)
    BY DEF item
  <2>2. QED
    BY <1>1, <1>2, <2>1, AppendProperties
<1> HIDE DEF u
<1>4. \A i \in 1..(u + 1) : i \in 1..u \/ i = u + 1
  BY <1>1
<1>5. u + 1 \in 1..(u + 1) /\ \A i \in 1..u : i \in 1..(u + 1) /\ i < u + 1
  BY <1>1
<1>6. LineInOrder
  OBVIOUS
<1>7. /\ \A i, j \in 1..u : i < j => unacked[i].msg < unacked[j].msg /\ unacked[i].tag < unacked[j].tag
      /\ \A i, j \in 1..Len(ready) : i < j => ready[i] < ready[j]
      /\ \A i \in 1..u, j \in 1..Len(ready) : unacked[i].msg < ready[j]
      /\ \A i \in 1..u : unacked[i].tag <= lastTag /\ unacked[i].msg <= Len(sent)
      /\ \A i \in 1..Len(ready) : ready[i] <= Len(sent)
  BY <1>6 DEF LineInOrder, u
<1>8. /\ \A i \in 1..Len(ready') : ready'[i] = ready[i + 1] /\ i + 1 \in 1..Len(ready) /\ i \in Nat
      /\ \A i \in 1..Len(ready') : Head(ready) < ready'[i]
      /\ Head(ready) \in 1..Len(sent) /\ Head(ready) = ready[1] /\ 1 \in 1..Len(ready)
      /\ ready' \in Seq(1..MaxMsgs)
  BY HeadTaken
<1>9. \A i \in 1..u : unacked[i].msg < Head(ready) /\ unacked[i].tag < lastTag + 1
  <2>1. ASSUME NEW i \in 1..u
        PROVE  unacked[i].msg < Head(ready) /\ unacked[i].tag < lastTag + 1
    <3>1. unacked[i].msg < ready[1] /\ unacked[i].tag <= lastTag /\ unacked[i].tag \in Nat
      BY <1>1, <1>7, <1>8
    <3>2. QED
      BY <1>1, <1>8, <3>1
  <2>2. QED
    BY <2>1
<1>10. LineInOrder'
  <2>1. ASSUME NEW i \in 1..(u + 1), NEW j \in 1..(u + 1), i < j
        PROVE  unacked'[i].msg < unacked'[j].msg /\ unacked'[i].tag < unacked'[j].tag
    <3>1. i \in 1..u
      BY <1>1, <2>1
    <3>2. CASE j \in 1..u
      BY <1>3, <1>7, <2>1, <3>1, <3>2
    <3>3. CASE j = u + 1
      BY <1>2, <1>3, <1>9, <3>1, <3>3
    <3>4. QED
      BY <1>4, <3>2, <3>3
  <2>2. ASSUME NEW i \in 1..(u + 1)
        PROVE  /\ \A j \in 1..Len(ready') : unacked'[i].msg < ready'[j]
               /\ unacked'[i].tag <= lastTag' /\ unacked'[i].msg <= Len(sent')
    <3>1. CASE i \in 1..u
      <4>1. \A j \in 1..Len(ready') : unacked[i].msg < ready'[j]
        BY <1>7, <1>8, <3>1
      <4>2. unacked[i].tag <= lastTag + 1 /\ unacked[i].msg <= Len(sent)
        BY <1>1, <1>7, <1>9, <3>1
      <4>3. QED
        BY <1>3, <3>1, <4>1, <4>2
    <3>2. CASE i = u + 1
      <4>1. unacked'[i] = item /\ item.msg <= Len(sent) /\ item.tag <= lastTag + 1
        BY <1>1, <1>2, <1>3, <1>8, <3>2
      <4>2. QED
        BY <1>2, <1>8, <4>1
    <3>3. QED
      BY <1>4, <3>1, <3>2
  <2>3. \A i, j \in 1..Len(ready') : i < j => ready'[i] < ready'[j]
    <3>1. ASSUME NEW i \in 1..Len(ready'), NEW j \in 1..Len(ready'), i < j
          PROVE  ready'[i] < ready'[j]
      <4>1. i + 1 < j + 1
        BY <1>8, <3>1
      <4>2. QED
        BY <1>7, <1>8, <4>1
    <3>2. QED
      BY <3>1
  <2>4. \A i \in 1..Len(ready') : ready'[i] <= Len(sent)
    BY <1>7, <1>8
  <2>5. QED
    BY <1>3, <2>1, <2>2, <2>3, <2>4 DEF LineInOrder
<1>11. UnackedMsgs' = UnackedMsgs \cup {Head(ready)}
  <2>1. UnackedMsgs = {unacked[i].msg : i \in 1..u}
    BY DEF UnackedMsgs, u
  <2>2. UnackedMsgs' = {unacked'[i].msg : i \in 1..(u + 1)}
    BY <1>3 DEF UnackedMsgs
  <2>3. QED
    BY <1>2, <1>3, <1>4, <1>5, <2>1, <2>2
<1>12. ASSUME NEW m
       PROVE  AtBroker(m)' <=> AtBroker(m)
  <2>1. ASSUME NEW i \in 1..Len(ready'), ready'[i] = m
        PROVE  AtBroker(m)
    BY <1>8, <2>1 DEF AtBroker
  <2>2. ASSUME NEW i \in 1..Len(ready), ready[i] = m
        PROVE  AtBroker(m)'
    <3>1. CASE m = Head(ready)
      BY <1>11, <3>1 DEF AtBroker
    <3>2. CASE m # Head(ready)
      <4>1. \E j \in 1..Len(ready') : ready'[j] = ready[i]
        BY <2>2, <3>2, HeadTaken
      <4>2. QED
        BY <2>2, <4>1 DEF AtBroker
    <3>3. QED
      BY <3>1, <3>2
  <2>3. AtBroker(Head(ready))
    BY HeadTaken
  <2>4. QED
    BY <1>11, <2>1, <2>2, <2>3 DEF AtBroker
<1>13. \A i \in 1..u : unacked[i].tag # lastTag + 1
  BY <1>1, <1>9
<1>14. lastTag' \in Nat
  BY <1>1
<1>15. QED
  BY <1>2, <1>3, <1>5, <1>8, <1>10, <1>11, <1>12, <1>13, <1>14 DEF item, u

LEMMA StepDeliver == ASSUME IInv, Deliver PROVE IInv'
<1> DEFINE n == Head(ready)
<1> DEFINE r == sent[n]
<1> DEFINE tag == lastTag + 1
<1> DEFINE item == Item(n, tag)
<1>1. /\ TypeOK /\ LineInOrder /\ InUse(blocks) /\ Routed /\ NoneOvertaken
      /\ ready # <<>> /\ ready' = Tail(ready) /\ lastTag' = tag
      /\ UNCHANGED <<sent, channel, consuming, closing, cancels, finished, signals, losses, crashes>>
      /\ blocks \in Seq(Block)
  BY DEF IInv, TypeOK, Deliver
<1>2. OneCancel'
  BY <1>1 DEF IInv, OneCancel
<1>3. CASE closing /\ unacked' = Append(unacked, item) /\ UNCHANGED <<blocks, handled, tagSeen>>
  <2>1. /\ ready' \in Seq(1..MaxMsgs) /\ lastTag' \in Nat /\ unacked' \in Seq(Items)
        /\ \A i \in 1..Len(unacked) : i \in 1..Len(unacked') /\ unacked'[i] = unacked[i]
        /\ LineInOrder'
        /\ \A m : AtBroker(m)' <=> AtBroker(m)
    BY <1>1, <1>3, LineWithUnacked
  <2>2. TypeOK'
    BY <1>1, <1>3, <2>1 DEF TypeOK
  <2>3. Routed' /\ NoneOvertaken'
    BY <1>1, <1>3, <2>1, StaysClear
  <2>4. UnackedHeld'
    BY <1>1, <1>3 DEF UnackedHeld
  <2>5. OnThisChannel'
    <3>1. OnThisChannel
      BY DEF IInv
    <3>2. blocks' = blocks /\ losses' = losses /\ channel' = channel
      BY <1>1, <1>3
    <3>3. ASSUME losses = 0, NEW pl \in Places(blocks)
          PROVE  \E i \in 1..Len(unacked') : unacked'[i] = ItemAt(blocks, pl)
      <4>1. PICK i \in 1..Len(unacked) : unacked[i] = ItemAt(blocks, pl)
        BY <3>1, <3>3 DEF OnThisChannel
      <4>2. QED
        BY <2>1, <4>1
    <3>4. QED
      BY <3>1, <3>2, <3>3 DEF OnThisChannel
  <2>6. AckedUntilReconnected'
    BY <1>1, <1>3, <2>1 DEF IInv, AckedUntilReconnected, AckedOnlyWhenHandled, AtBroker
  <2>7. QED
    BY <1>1, <1>2, <1>3, <2>1, <2>2, <2>3, <2>4, <2>5, <2>6 DEF IInv
<1>4. CASE /\ ~closing /\ r.type = "unheard"
           /\ handled' = handled \union {n}
           /\ blocks' \in Pump(blocks)
           /\ tagSeen' = TRUE
           /\ UNCHANGED unacked
  <2>1. /\ ready' \in Seq(1..MaxMsgs) /\ lastTag' \in Nat
        /\ LineInOrder' /\ UnackedMsgs' = UnackedMsgs
        /\ \A m : AtBroker(m)' => AtBroker(m)
        /\ \A m : AtBroker(m) => AtBroker(m)' \/ m = n
    BY <1>1, <1>4, LineWithoutHead
  <2>2. /\ blocks' \in Seq(Block) /\ InUse(blocks') /\ Places(blocks') = Places(blocks)
        /\ \A pl \in Places(blocks) : /\ ItemAt(blocks', pl) = ItemAt(blocks, pl)
                                      /\ blocks'[pl.b].type = blocks[pl.b].type
    BY <1>1, <1>4, PumpPlaces
  <2>3. n \in 1..MaxMsgs /\ handled' \subseteq 1..MaxMsgs
    BY <1>1, <1>4, HeadTaken DEF TypeOK
  <2>4. TypeOK'
    BY <1>1, <1>4, <2>1, <2>2, <2>3 DEF TypeOK
  <2>5. Routed' /\ NoneOvertaken' /\ \A m : Held(blocks', m) <=> Held(blocks, m)
    BY <1>1, <1>4, <2>1, <2>2, StaysClear
  <2>6. UnackedHeld'
    BY <1>1, <1>4, <2>1, <2>5 DEF IInv, UnackedHeld
  <2>7. OnThisChannel'
    BY <1>1, <1>4, <2>2 DEF IInv, OnThisChannel
  <2>8. AckedUntilReconnected'
    BY <1>1, <1>4, <2>1 DEF IInv, AckedUntilReconnected, AckedOnlyWhenHandled, AtBroker
  <2>9. QED
    BY <1>2, <2>1, <2>2, <2>4, <2>5, <2>6, <2>7, <2>8 DEF IInv
<1>5. CASE /\ ~closing /\ r.type # "unheard"
           /\ unacked' = Append(unacked, item)
           /\ blocks' \in Pump(PQ!AddTo(blocks, r.type, r.key, item))
           /\ tagSeen' = TRUE
           /\ UNCHANGED handled
  <2>1. /\ ready' \in Seq(1..MaxMsgs) /\ lastTag' \in Nat /\ unacked' \in Seq(Items)
        /\ item \in Items
        /\ \A i \in 1..Len(unacked) : /\ i \in 1..Len(unacked') /\ unacked'[i] = unacked[i]
                                      /\ unacked[i].tag # tag
        /\ \E i \in 1..Len(unacked') : unacked'[i] = item
        /\ LineInOrder'
        /\ UnackedMsgs' = UnackedMsgs \cup {n}
        /\ \A m : AtBroker(m)' <=> AtBroker(m)
    BY <1>1, <1>5, LineWithUnacked
  <2>2. n \in 1..MaxMsgs /\ n \in 1..Len(sent) /\ AtBroker(n)
    BY <1>1, HeadTaken
  <2>3. r \in Routes
    BY <1>1, <2>2, ElementOfSeq DEF TypeOK
  <2>4. r.type \in Types /\ r.key \in Keys /\ r = [type |-> r.type, key |-> r.key]
    <3> HIDE DEF r
    <3>1. r.type # "unheard"
      BY <1>5
    <3>2. QED
      BY <2>3, <3>1 DEF Routes, Types, Keys
  <2>5. item.msg = n /\ item.tag = tag
    BY DEF Item
  <2> HIDE DEF n, r, tag, item
  <2>6. /\ blocks' \in Seq(Block) /\ InUse(blocks')
        /\ \E new \in Places(blocks') :
                 /\ new \notin Places(blocks)
                 /\ Places(blocks') = Places(blocks) \cup {new}
                 /\ \A pl \in Places(blocks) :
                        /\ ItemAt(blocks', pl) = ItemAt(blocks, pl)
                        /\ blocks'[pl.b].type = blocks[pl.b].type
                        /\ Ahead(pl, new) \/ (pl.b = new.b /\ pl.k # r.key)
                 /\ ItemAt(blocks', new) = item
                 /\ blocks'[new.b].type = r.type /\ new.k = r.key
    <3>1. /\ blocks \in Seq(Block) /\ InUse(blocks) /\ r.type \in Types /\ r.key \in Keys
          /\ item \in Items /\ blocks' \in Pump(PQ!AddTo(blocks, r.type, r.key, item))
      BY <1>1, <1>5, <2>1, <2>4
    <3>2. QED
      BY ONLY <3>1, AddPump
  <2>7. PICK new \in Places(blocks') :
                 /\ new \notin Places(blocks)
                 /\ Places(blocks') = Places(blocks) \cup {new}
                 /\ \A pl \in Places(blocks) :
                        /\ ItemAt(blocks', pl) = ItemAt(blocks, pl)
                        /\ blocks'[pl.b].type = blocks[pl.b].type
                        /\ Ahead(pl, new) \/ (pl.b = new.b /\ pl.k # r.key)
                 /\ ItemAt(blocks', new) = item
                 /\ blocks'[new.b].type = r.type /\ new.k = r.key
    BY <2>6
  <2>8. TypeOK'
    BY <1>1, <1>5, <2>1, <2>6 DEF TypeOK
  <2>9. Routed'
    <3>1. ASSUME NEW pl \in Places(blocks)
          PROVE  /\ ItemAt(blocks', pl).msg \in 1..Len(sent')
                 /\ sent'[ItemAt(blocks', pl).msg] = [type |-> blocks'[pl.b].type, key |-> pl.k]
      BY <1>1, <2>7, <3>1 DEF Routed
    <3>2. /\ ItemAt(blocks', new).msg \in 1..Len(sent')
          /\ sent'[ItemAt(blocks', new).msg] = [type |-> blocks'[new.b].type, key |-> new.k]
      BY <1>1, <2>2, <2>4, <2>5, <2>7 DEF r
    <3>3. QED
      BY <2>7, <3>1, <3>2 DEF Routed
  <2>10. \A m : Held(blocks', m) <=> Held(blocks, m) \/ m = n
    <3>1. ASSUME NEW m
          PROVE  Held(blocks', m) <=> Held(blocks, m) \/ m = n
      BY <2>5, <2>7 DEF Held
    <3>2. QED
      BY <3>1
  <2>11. UnackedHeld'
    BY <1>1, <1>5, <2>1, <2>10 DEF IInv, UnackedHeld
  <2>12. \* what was held before and goes before n is ahead of it
         ASSUME NEW pl \in Places(blocks), Before(ItemAt(blocks, pl).msg, n)
         PROVE  Ahead(pl, new)
    <3> DEFINE m == ItemAt(blocks, pl).msg
    <3>1. sent[m] = [type |-> blocks[pl.b].type, key |-> pl.k]
      BY <1>1 DEF Routed
    <3>2. sent[m].type = blocks[pl.b].type /\ sent[m].key = pl.k
      BY <3>1
    <3>3. sent[m].type # r.type \/ sent[m].key = r.key
      BY <2>12 DEF Before, r
    <3>4. ASSUME pl.b = new.b, pl.k # r.key
          PROVE  FALSE
      <4>1. blocks[pl.b].type = r.type
        BY <2>7, <3>4
      <4>2. QED
        BY <3>2, <3>3, <3>4, <4>1
    <3>5. QED
      BY <2>7, <3>4
  <2>13. ASSUME NEW m \in 1..Len(sent), Before(m, n)
         PROVE  \/ m \in handled
                \/ ~AtBroker(m)' /\ ~Held(blocks', m)
                \/ \E ql \in Places(blocks') : ItemAt(blocks', ql).msg = m /\ Ahead(ql, new)
    <3>1. m # n /\ ~ (n < m)
      BY <2>2, <2>13 DEF Before
    <3>2. CASE Held(blocks, m)
      <4>1. PICK pl \in Places(blocks) : ItemAt(blocks, pl).msg = m
        BY <3>2 DEF Held
      <4>2. Ahead(pl, new)
        BY <2>12, <2>13, <4>1
      <4>3. pl \in Places(blocks') /\ ItemAt(blocks', pl).msg = m
        BY <2>7, <4>1
      <4>4. QED
        BY <4>2, <4>3
    <3>3. CASE ~Held(blocks, m) /\ m \notin handled
      <4>1. m \notin UnackedMsgs
        BY <1>5, <3>3 DEF IInv, UnackedHeld
      <4>2. ~ (\E i \in 1..Len(ready) : ready[i] = m)
        BY <1>1, <3>1, HeadTaken DEF n
      <4>3. ~AtBroker(m)
        BY <4>1, <4>2 DEF AtBroker
      <4>4. QED
        BY <2>1, <2>10, <3>1, <3>3, <4>3
    <3>4. QED
      BY <3>2, <3>3
  <2>14. NoneOvertaken'
    <3>1. \A m, x : Before(m, x)' <=> Before(m, x)
      BY <1>1 DEF Before
    <3>2. ASSUME NEW pl \in Places(blocks), NEW m \in 1..Len(sent),
                 Before(m, ItemAt(blocks, pl).msg)
          PROVE  \/ m \in handled
                 \/ ~AtBroker(m)' /\ ~Held(blocks', m)
                 \/ \E ql \in Places(blocks') : ItemAt(blocks', ql).msg = m /\ Ahead(ql, pl)
      <4>1. \/ m \in handled
            \/ ~AtBroker(m) /\ ~Held(blocks, m)
            \/ \E ql \in Places(blocks) : ItemAt(blocks, ql).msg = m /\ Ahead(ql, pl)
        BY <1>1, <3>2 DEF NoneOvertaken
      <4>2. CASE ~AtBroker(m) /\ ~Held(blocks, m)
        BY <2>1, <2>2, <2>10, <4>2
      <4>3. CASE \E ql \in Places(blocks) : ItemAt(blocks, ql).msg = m /\ Ahead(ql, pl)
        BY <2>7, <4>3
      <4>4. QED
        BY <4>1, <4>2, <4>3
    <3>3. ASSUME NEW pl \in Places(blocks'), NEW m \in 1..Len(sent),
                 Before(m, ItemAt(blocks', pl).msg)
          PROVE  \/ m \in handled
                 \/ ~AtBroker(m)' /\ ~Held(blocks', m)
                 \/ \E ql \in Places(blocks') : ItemAt(blocks', ql).msg = m /\ Ahead(ql, pl)
      <4>1. CASE pl \in Places(blocks)
        BY <2>7, <3>2, <3>3, <4>1
      <4>2. CASE pl = new
        BY <2>5, <2>7, <2>13, <3>3, <4>2
      <4>3. QED
        BY <2>7, <4>1, <4>2
    <3>4. QED
      BY <1>1, <1>5, <3>1, <3>3 DEF NoneOvertaken
  <2>15. OnThisChannel'
    <3>1. OnThisChannel
      BY DEF IInv
    <3>2. ASSUME losses = 0, NEW pl \in Places(blocks)
          PROVE  /\ \E i \in 1..Len(unacked') : unacked'[i] = ItemAt(blocks', pl)
                 /\ ItemAt(blocks', pl).tag # tag
      <4>1. PICK i \in 1..Len(unacked) : unacked[i] = ItemAt(blocks, pl)
        BY <3>1, <3>2 DEF OnThisChannel
      <4>2. QED
        BY <2>1, <2>7, <4>1
    <3>3. ASSUME losses = 0, NEW pl \in Places(blocks'), NEW ql \in Places(blocks'),
                 ItemAt(blocks', pl).tag = ItemAt(blocks', ql).tag
          PROVE  pl = ql
      <4>1. CASE pl \in Places(blocks) /\ ql \in Places(blocks)
        BY <2>7, <3>1, <3>3, <4>1 DEF OnThisChannel
      <4>2. CASE pl = new \/ ql = new
        BY <2>5, <2>7, <3>2, <3>3, <4>2
      <4>3. QED
        BY <2>7, <4>1, <4>2
    <3>4. ASSUME losses = 0, NEW pl \in Places(blocks')
          PROVE  \E i \in 1..Len(unacked') : unacked'[i] = ItemAt(blocks', pl)
      BY <2>1, <2>7, <3>2, <3>4
    <3>5. QED
      BY <1>1, <3>1, <3>3, <3>4 DEF OnThisChannel
  <2>16. AckedUntilReconnected'
    BY <1>1, <1>5, <2>1 DEF IInv, AckedUntilReconnected, AckedOnlyWhenHandled, AtBroker
  <2>17. QED
    BY <1>2, <2>1, <2>6, <2>8, <2>9, <2>11, <2>14, <2>15, <2>16 DEF IInv
<1>6. QED
  BY <1>3, <1>4, <1>5 DEF Deliver

LEMMA StepComplete == ASSUME IInv, NEW k \in Keys, Complete(k) PROVE IInv'
<1> DEFINE it == blocks[1].queues[k].list[1]
<1>1. /\ TypeOK /\ LineInOrder /\ InUse(blocks) /\ Routed /\ NoneOvertaken /\ blocks \in Seq(Block)
      /\ k \in PQ!Busy(blocks)
      /\ handled' = handled \union {it.msg}
      /\ blocks' \in Pump(PQ!AckIn(blocks, k))
      /\ SafeAck(it.tag)
      /\ UNCHANGED <<sent, closing, tagSeen, cancels, finished, signals, losses, crashes>>
  BY DEF IInv, TypeOK, Complete
<1> HIDE DEF it
<1>2. /\ blocks' \in Seq(Block) /\ InUse(blocks')
      /\ FirstOf(k) \in Places(blocks) /\ ItemAt(blocks, FirstOf(k)) = it
      /\ \E g : MovesUp(blocks, blocks', k, g)
  BY <1>1, AckPump DEF it
<1>3. PICK g : MovesUp(blocks, blocks', k, g)
  BY <1>2
<1>4. /\ \A pl \in Places(blocks') : /\ g[pl] \in Places(blocks) /\ g[pl] # FirstOf(k)
                                     /\ ItemAt(blocks', pl) = ItemAt(blocks, g[pl])
                                     /\ g[pl].k = pl.k
                                     /\ blocks'[pl.b].type = blocks[g[pl].b].type
      /\ \A pl, ql \in Places(blocks') : /\ Ahead(g[pl], g[ql]) => Ahead(pl, ql)
                                         /\ g[pl] = g[ql] => pl = ql
      /\ \A ql \in Places(blocks) : ql = FirstOf(k) \/ \E pl \in Places(blocks') : g[pl] = ql
  BY <1>3 DEF MovesUp
<1>5. /\ ready' \in Seq(1..MaxMsgs) /\ unacked' \in Seq(Items) /\ lastTag' \in Nat
      /\ channel' \in BOOLEAN /\ consuming' \in BOOLEAN
      /\ LineInOrder'
      /\ UnackedMsgs' \subseteq UnackedMsgs
      /\ \A m : AtBroker(m)' => AtBroker(m)
  BY <1>1, LineAfterAck
<1>6. it.msg \in 1..MaxMsgs /\ it \in Items
  BY <1>1, <1>2, ItemIsItem, MsgOfItem
<1>7. TypeOK'
  <2>1. handled' \subseteq 1..MaxMsgs
    BY <1>1, <1>6 DEF TypeOK
  <2>2. QED
    BY <1>1, <1>2, <1>5, <2>1 DEF TypeOK
<1>8. Routed'
  <2>1. ASSUME NEW pl \in Places(blocks')
        PROVE  /\ ItemAt(blocks', pl).msg \in 1..Len(sent)
               /\ sent[ItemAt(blocks', pl).msg] = [type |-> blocks'[pl.b].type, key |-> pl.k]
    BY <1>1, <1>4 DEF Routed
  <2>2. QED
    BY <1>1, <2>1 DEF Routed
<1>9. ASSUME NEW m
      PROVE  /\ Held(blocks', m) => Held(blocks, m)
             /\ Held(blocks, m) => Held(blocks', m) \/ m \in handled'
  <2>1. ASSUME NEW pl \in Places(blocks'), ItemAt(blocks', pl).msg = m
        PROVE  Held(blocks, m)
    BY <1>4, <2>1 DEF Held
  <2>2. ASSUME NEW ql \in Places(blocks), ItemAt(blocks, ql).msg = m
        PROVE  Held(blocks', m) \/ m \in handled'
    <3>1. CASE ql = FirstOf(k)
      BY <1>1, <1>2, <2>2, <3>1
    <3>2. CASE \E pl \in Places(blocks') : g[pl] = ql
      BY <1>4, <2>2, <3>2 DEF Held
    <3>3. QED
      BY <1>4, <3>1, <3>2
  <2>3. QED
    BY <2>1, <2>2 DEF Held
<1>10. UnackedHeld'
  BY <1>1, <1>5, <1>9 DEF IInv, UnackedHeld
<1>11. NoneOvertaken'
  <2>1. \A m, x : Before(m, x)' <=> Before(m, x)
    BY <1>1 DEF Before
  <2>2. ASSUME NEW pl \in Places(blocks'), NEW m \in 1..Len(sent),
               Before(m, ItemAt(blocks', pl).msg)
        PROVE  \/ m \in handled'
               \/ ~AtBroker(m)' /\ ~Held(blocks', m)
               \/ \E ql \in Places(blocks') : ItemAt(blocks', ql).msg = m /\ Ahead(ql, pl)
    <3>1. g[pl] \in Places(blocks) /\ Before(m, ItemAt(blocks, g[pl]).msg)
      BY <1>4, <2>2
    <3>2. \/ m \in handled
          \/ ~AtBroker(m) /\ ~Held(blocks, m)
          \/ \E ql \in Places(blocks) : ItemAt(blocks, ql).msg = m /\ Ahead(ql, g[pl])
      BY <1>1, <3>1 DEF NoneOvertaken
    <3>3. CASE m \in handled
      BY <1>1, <3>3
    <3>4. CASE ~AtBroker(m) /\ ~Held(blocks, m)
      BY <1>5, <1>9, <3>4
    <3>5. ASSUME NEW ql \in Places(blocks), ItemAt(blocks, ql).msg = m, Ahead(ql, g[pl])
          PROVE  \/ m \in handled'
                 \/ \E x \in Places(blocks') : ItemAt(blocks', x).msg = m /\ Ahead(x, pl)
      <4>1. CASE ql = FirstOf(k)
        BY <1>1, <1>2, <3>5, <4>1
      <4>2. CASE \E x \in Places(blocks') : g[x] = ql
        BY <1>4, <3>5, <4>2
      <4>3. QED
        BY <1>4, <4>1, <4>2
    <3>6. QED
      BY <3>2, <3>3, <3>4, <3>5
  <2>3. QED
    BY <1>1, <2>1, <2>2 DEF NoneOvertaken
<1>12. ASSUME losses = 0
       PROVE  /\ channel /\ channel' = channel /\ ready' = ready
              /\ \E i \in 1..Len(unacked) : unacked[i] = it /\ unacked' = RemoveAt(unacked, i)
  <2>1. channel /\ \E i \in 1..Len(unacked) : unacked[i] = it
    BY <1>2, <1>12 DEF IInv, OnThisChannel
  <2>2. PICK i \in 1..Len(unacked) : unacked[i] = it
    BY <2>1
  <2>3. /\ UNCHANGED <<ready, channel>>
        /\ \E j \in 1..Len(unacked) : unacked[j].tag = it.tag /\ unacked' = RemoveAt(unacked, j)
    BY <1>1, <2>1, <2>2 DEF SafeAck
  <2>4. PICK j \in 1..Len(unacked) : unacked[j].tag = it.tag /\ unacked' = RemoveAt(unacked, j)
    BY <2>3
  <2>5. i = j
    <3>1. \A x, y \in 1..Len(unacked) : x < y => unacked[x].tag < unacked[y].tag
      BY <1>1 DEF LineInOrder
    <3>2. ~ (it.tag < it.tag)
      BY <1>6, MsgOfItem
    <3>3. Len(unacked) \in Nat
      BY <1>1, LenProperties DEF TypeOK
    <3>4. ~ (i < j) /\ ~ (j < i)
      BY <2>2, <2>4, <3>1, <3>2
    <3>5. QED
      BY <3>3, <3>4
  <2>6. QED
    BY <2>1, <2>2, <2>3, <2>4, <2>5
<1>13. ASSUME losses = 0, NEW j \in 1..Len(unacked), unacked[j] # it
       PROVE  \E l \in 1..Len(unacked') : unacked'[l] = unacked[j]
  <2>1. PICK i \in 1..Len(unacked) : unacked[i] = it /\ unacked' = RemoveAt(unacked, i)
    BY <1>12, <1>13
  <2>2. unacked \in Seq(Items) /\ j # i
    BY <1>1, <1>13, <2>1 DEF TypeOK
  <2>3. QED
    BY <2>1, <2>2, RemovedKeeps
<1>14. OnThisChannel'
  <2>1. OnThisChannel
    BY DEF IInv
  <2>2. ASSUME losses = 0, NEW pl \in Places(blocks')
        PROVE  \E l \in 1..Len(unacked') : unacked'[l] = ItemAt(blocks', pl)
    <3>1. PICK j \in 1..Len(unacked) : unacked[j] = ItemAt(blocks, g[pl])
      BY <1>4, <2>1, <2>2 DEF OnThisChannel
    <3>2. unacked[j] # it
      BY <1>2, <1>4, <2>1, <2>2, <3>1 DEF OnThisChannel
    <3>3. QED
      BY <1>4, <1>13, <2>2, <3>1, <3>2
  <2>3. ASSUME losses = 0, NEW pl \in Places(blocks'), NEW ql \in Places(blocks'),
               ItemAt(blocks', pl).tag = ItemAt(blocks', ql).tag
        PROVE  pl = ql
    <3>1. g[pl] = g[ql]
      BY <1>4, <2>1, <2>3 DEF OnThisChannel
    <3>2. QED
      BY <1>4, <3>1
  <2>4. losses = 0 => channel'
    BY <1>12
  <2>5. QED
    BY <1>1, <2>2, <2>3, <2>4 DEF OnThisChannel
<1>15. AckedUntilReconnected'
  <2>1. ASSUME losses = 0, NEW m \in 1..Len(sent)
        PROVE  m \in handled' \/ AtBroker(m)'
    <3>1. m \in handled \/ m \in UnackedMsgs \/ \E i \in 1..Len(ready) : ready[i] = m
      BY <2>1 DEF IInv, AckedUntilReconnected, AckedOnlyWhenHandled
    <3>2. CASE m \in handled
      BY <1>1, <3>2
    <3>3. CASE m \in UnackedMsgs
      <4>1. PICK j \in 1..Len(unacked) : unacked[j].msg = m
        BY <3>3 DEF UnackedMsgs
      <4>2. CASE unacked[j] = it
        BY <1>1, <4>1, <4>2
      <4>3. CASE unacked[j] # it
        <5>1. PICK l \in 1..Len(unacked') : unacked'[l] = unacked[j]
          BY <1>13, <2>1, <4>3
        <5>2. m \in UnackedMsgs'
          BY <4>1, <5>1 DEF UnackedMsgs
        <5>3. QED
          BY <5>2 DEF AtBroker
      <4>4. QED
        BY <4>2, <4>3
    <3>4. CASE \E i \in 1..Len(ready) : ready[i] = m
      BY <1>12, <2>1, <3>4 DEF AtBroker
    <3>5. QED
      BY <3>1, <3>2, <3>3, <3>4
  <2>2. QED
    BY <1>1, <2>1 DEF AckedUntilReconnected, AckedOnlyWhenHandled, AtBroker
<1>16. OneCancel'
  BY <1>1 DEF IInv, OneCancel
<1>17. QED
  BY <1>2, <1>5, <1>7, <1>8, <1>10, <1>11, <1>14, <1>15, <1>16 DEF IInv

LEMMA StepStutter == ASSUME IInv, UNCHANGED vars PROVE IInv'
<1>1. UNCHANGED <<sent, ready, unacked, lastTag, channel, consuming, blocks, closing, tagSeen,
                  cancels, finished, signals, handled, losses, crashes>>
  BY DEF vars, brokerVars, workerVars
<1>2. /\ InUse(blocks') /\ Routed' /\ NoneOvertaken'
      /\ AckedOnlyWhenHandled' <=> AckedOnlyWhenHandled
      /\ UnackedMsgs' = UnackedMsgs
  BY <1>1, Steady
<1>3. TypeOK'
  BY <1>1 DEF IInv, TypeOK
<1>4. LineInOrder' /\ UnackedHeld' /\ OnThisChannel' /\ AckedUntilReconnected' /\ OneCancel'
  BY <1>1, <1>2 DEF IInv, LineInOrder, UnackedHeld, OnThisChannel, AckedUntilReconnected, OneCancel
<1>5. QED
  BY <1>2, <1>3, <1>4 DEF IInv

-----------------------------------------------------------------------------
(* The theorems.                                                           *)

\* The inductive invariant holds in every reachable state.
THEOREM Invariance == Spec => []IInv
<1>1. Init => IInv
  BY InitIInv
<1>2. IInv /\ [Next]_vars => IInv'
  <2> SUFFICES ASSUME IInv, [Next]_vars
               PROVE  IInv'
    OBVIOUS
  <2>1. ASSUME NEW r \in Routes, Publish(r) PROVE IInv'
    BY <2>1, StepPublish
  <2>2. CASE Deliver
    BY <2>2, StepDeliver
  <2>3. ASSUME NEW k \in Keys, Complete(k) PROVE IInv'
    BY <2>3, StepComplete
  <2>4. CASE ChannelLost
    BY <2>4, StepChannelLost
  <2>5. CASE Reconnect
    BY <2>5, StepReconnect
  <2>6. CASE Crash
    BY <2>6, StepCrash
  <2>7. CASE Shutdown
    BY <2>7, StepShutdown
  <2>8. CASE CancelOk
    BY <2>8, StepCancelOk
  <2>9. CASE UNCHANGED vars
    BY <2>9, StepStutter
  <2>10. QED
    BY <2>1, <2>2, <2>3, <2>4, <2>5, <2>6, <2>7, <2>8, <2>9 DEF Next
<1>3. QED
  BY <1>1, <1>2, PTL DEF Spec

\* Every variable keeps its type, whatever the queues, the channel and the worker go through.
THEOREM TypeCorrect == Spec => []TypeOK
<1>1. IInv => TypeOK
  BY DEF IInv
<1>2. QED
  BY <1>1, Invariance, PTL

\* Until the channel is made anew under running handlers, a message that the broker has
\* no copy of has been handled: safeAck() acknowledges nothing that a crash could lose
\* (queue.js:135-190).
THEOREM AcksAreSafe == Spec => []AckedUntilReconnected
<1>1. IInv => AckedUntilReconnected
  BY DEF IInv
<1>2. QED
  BY <1>1, Invariance, PTL

\* Through the places of the ParallelQueue one sees all the items the worker holds.
LEMMA HeldItems ==
    ASSUME TypeOK, NEW m, ~Held(blocks, m)
    PROVE  \A it \in ItemsHeld : it.msg # m
<1>1. ASSUME NEW b \in 1..Len(blocks), NEW k \in Keys, NEW it \in Range(blocks[b].queues[k].list)
      PROVE  it.msg # m
  <2>1. blocks \in Seq(Block)
    BY DEF TypeOK
  <2>2. List(blocks, b, k) \in Seq(Items)
    BY <2>1, BlockFields
  <2>3. PICK p \in 1..Len(List(blocks, b, k)) : it = List(blocks, b, k)[p]
    <3>1. DOMAIN List(blocks, b, k) = 1..Len(List(blocks, b, k))
      BY <2>2, LenProperties
    <3>2. \E p \in DOMAIN List(blocks, b, k) : it = List(blocks, b, k)[p]
      BY DEF Range, List
    <3>3. QED
      BY <3>1, <3>2
  <2> DEFINE pl == [b |-> b, k |-> k, p |-> p]
  <2>4. pl \in Places(blocks)
    <3>1. p \in Nat \ {0} /\ p <= Len(List(blocks, b, k))
      BY <2>2, LenProperties
    <3>2. QED
      BY <3>1, PlaceMade
  <2>5. ItemAt(blocks, pl) = it
    BY <2>3 DEF ItemAt
  <2> HIDE DEF pl
  <2>6. QED
    BY <2>4, <2>5 DEF Held
<1>2. QED
  BY <1>1 DEF ItemsHeld

\* No message is overtaken: when a handler runs, everything published before its message
\* that it must follow has been handled or is in nobody's memory any more, through crashes,
\* redeliveries, new channels and acknowledgements by stale tags.
THEOREM NoneIsOvertaken == Spec => []HandledInOrder
<1>1. IInv => HandledInOrder
  <2> SUFFICES ASSUME IInv, NEW k \in PQ!Busy(blocks), NEW m \in 1..Len(sent),
                      Before(m, Current(k)), m \notin handled
               PROVE  Gone(m)
    BY DEF HandledInOrder
  <2>1. TypeOK /\ InUse(blocks) /\ NoneOvertaken /\ blocks \in Seq(Block)
    BY DEF IInv, TypeOK
  <2>2. FirstOf(k) \in Places(blocks) /\ ItemAt(blocks, FirstOf(k)).msg = Current(k)
    <3> DEFINE as == PQ!AckIn(blocks, k)
    <3>1. as = PQ!AckIn(blocks, k)
      OBVIOUS
    <3> HIDE DEF as
    <3>2. FirstOf(k) \in Places(blocks) /\ ItemAt(blocks, FirstOf(k)) = blocks[1].queues[k].list[1]
      BY <2>1, <3>1, AckPlaces
    <3>3. QED
      BY <3>2 DEF Current
  <2>3. ASSUME NEW ql \in Places(blocks), Ahead(ql, FirstOf(k))
        PROVE  FALSE
    <3>1. ql.b \in 1..Len(blocks) /\ ql.p \in Nat \ {0}
      BY PlaceFields
    <3>2. FirstOf(k).b = 1 /\ FirstOf(k).p = 1
      BY DEF FirstOf
    <3>3. QED
      BY <2>3, <3>1, <3>2 DEF Ahead
  <2>4. ~AtBroker(m) /\ ~Held(blocks, m)
    BY <2>1, <2>2, <2>3 DEF NoneOvertaken
  <2>5. m \notin UnackedMsgs /\ m \notin Range(ready)
    <3>1. Range(ready) = {ready[i] : i \in 1..Len(ready)}
      BY <2>1, RangeEquality DEF TypeOK
    <3>2. QED
      BY <2>4, <3>1 DEF AtBroker
  <2>6. QED
    BY <2>1, <2>4, <2>5, HeldItems DEF Gone
<1>2. QED
  BY <1>1, Invariance, PTL

\* A worker that is stopped once, by a signal, exits between handlers (worker.js:160,
\* WaitGroup.js).
THEOREM ExitsBetweenHandlers == ASSUME MaxSignals = 1 PROVE Spec => GracefulExit
<1>1. IInv /\ [Next]_vars => [Restarted /\ crashes' = crashes => PQ!Busy(blocks) = {}]_vars
  <2> SUFFICES ASSUME IInv, Next, Restarted, crashes' = crashes
               PROVE  PQ!Busy(blocks) = {}
    BY DEF vars, brokerVars, workerVars
  <2>1. signals \in 0..1 /\ cancels \in 0..signals /\ crashes \in Nat /\ lastTag \in Nat
    BY DEF IInv, TypeOK
  <2>2. /\ sent' = sent /\ ready' = Requeued /\ lastTag' = 0 /\ blocks' = <<>>
        /\ channel' = TRUE /\ consuming' = TRUE /\ signals' = 0
    BY DEF Restarted
  <2>3. InFlight \in Nat /\ (InFlight = 0 => PQ!Busy(blocks) = {})
    <3>1. IsFiniteSet(Keys)
      BY AmqpBounds, FS_Union, FS_Singleton DEF Keys
    <3>2. PQ!Busy(blocks) \subseteq Keys
      BY DEF PQ!Busy
    <3>3. IsFiniteSet(PQ!Busy(blocks))
      BY <3>1, <3>2, FS_Subset
    <3>4. QED
      BY <3>3, FS_CardinalityType, FS_EmptySet DEF InFlight
  <2>4. CASE CancelOk
    <3>1. cancels > 0 /\ ~finished
      BY <2>4 DEF IInv, OneCancel, CancelOk
    <3>2. WgCount = 1
      BY <2>2, <2>4, <3>1 DEF CancelOk
    <3>3. InFlight = 0
      BY <2>1, <2>3, <3>1, <3>2 DEF WgCount
    <3>4. QED
      BY <2>3, <3>3
  <2>5. CASE Shutdown
    <3>1. signals = 0
      BY <2>1, <2>5 DEF Shutdown
    <3>2. ~finished /\ cancels = 0
      BY <2>1, <3>1 DEF IInv, OneCancel
    <3>3. signals' # signals + 1
      BY <2>2, <3>1
    <3>4. WgCount = 0
      BY <2>5, <3>2, <3>3 DEF Shutdown
    <3>5. InFlight = 0
      BY <2>3, <3>2, <3>4 DEF WgCount
    <3>6. QED
      BY <2>3, <3>5
  <2>6. CASE Crash
    BY <2>1, <2>6 DEF Crash
  <2>7. ASSUME NEW r \in Routes, Publish(r)
        PROVE  FALSE
    <3>1. Len(Append(sent, r)) = Len(sent) + 1 /\ Len(sent) \in Nat
      BY AppendProperties, LenProperties DEF IInv, TypeOK
    <3>2. QED
      BY <2>2, <2>7, <3>1 DEF Publish
  <2>8. CASE Deliver
    BY <2>1, <2>2, <2>8 DEF Deliver
  <2>9. ASSUME NEW k \in Keys, Complete(k)
        PROVE  FALSE
    <3>1. PICK tag : SafeAck(tag)
      BY <2>9 DEF Complete
    <3>2. PICK i \in 1..Len(unacked) : ready' = ready
      BY <2>2, <3>1 DEF SafeAck, LoseChannel
    <3>3. ready = Requeued
      BY <2>2, <3>2
    <3>4. /\ unacked \in Seq(Items) /\ ready \in Seq(1..MaxMsgs)
          /\ Len(unacked) \in Nat /\ Len(ready) \in Nat
      BY LenProperties DEF IInv, TypeOK
    <3>5. Len(ready) = Len(unacked) + Len(ready)
      BY <3>3, RequeuedInOrder DEF IInv
    <3>6. Len(unacked) = 0
      BY <3>4, <3>5
    <3>7. QED
      BY <3>2, <3>6
  <2>10. CASE ChannelLost
    BY <2>2, <2>10 DEF ChannelLost, LoseChannel
  <2>11. CASE Reconnect
    BY <2>2, <2>11 DEF Reconnect, workerVars, PQ!Busy
  <2>12. QED
    BY <2>4, <2>5, <2>6, <2>7, <2>8, <2>9, <2>10, <2>11 DEF Next
<1>2. QED
  BY <1>1, Invariance, PTL DEF Spec, GracefulExit

=============================================================================
