--------------------------- MODULE ParallelQueue ---------------------------
(***************************************************************************)
(* libs/ParallelQueue.js: FIFO queues grouped into blocks.  Queues of the  *)
(* first block are handed out in parallel, one item of a queue at a time;  *)
(* the next block is reached when the first one is empty.                  *)
(*                                                                         *)
(* An item is its arrival number, an index into the history arrivals.  A   *)
(* block's queues are a total function: a key the code's object does not   *)
(* hold has an empty list and is not in progress, which is what add() puts *)
(* there before it pushes.  get() takes the first idle queue in the        *)
(* object's key order; here it takes any idle queue.                       *)
(***************************************************************************)
EXTENDS Naturals, Sequences, FiniteSets

CONSTANTS Types,     \* the block types ("connection", "bnc")
          Keys,      \* the queue keys (connection ids, "internal")
          MaxItems   \* bound: how many items are ever added

ASSUME MaxItemsNat == MaxItems \in Nat

VARIABLES arrivals,  \* history: the route of every item added
          blocks     \* this.blocks

vars == <<arrivals, blocks>>

Routes == [type: Types, key: Keys]
Queue  == [list: Seq(Nat), inProgress: BOOLEAN]
Block  == [type: Types, queues: [Keys -> Queue]]

NoQueue == [list |-> <<>>, inProgress |-> FALSE]

NewBlock(type) == [type |-> type, queues |-> [k \in Keys |-> NoQueue]]

\* The list of queue k of block b.
List(b, k) == blocks[b].queues[k].list

\* block.queues[key].list.push(item)
Push(block, key, item) ==
    [block EXCEPT !.queues[key].list = Append(@, item)]

\* A plausible bug: the item goes to any block of its type, overtaking a barrier.
AddToFirstBlock(bs, type, key, item) ==
    IF bs # <<>> /\ bs[1].type = type
    THEN [bs EXCEPT ![1] = Push(@, key, item)]
    ELSE Append(bs, Push(NewBlock(type), key, item))

\* A plausible bug: the block's type is not looked at.
AddToLastBlock(bs, type, key, item) ==
    IF bs # <<>>
    THEN [bs EXCEPT ![Len(bs)] = Push(@, key, item)]
    ELSE Append(bs, Push(NewBlock(type), key, item))

\* add(): the last block takes the item if it has the item's type, else a new one does.
AddTo(bs, type, key, item) ==
    IF bs # <<>> /\ bs[Len(bs)].type = type
    THEN [bs EXCEPT ![Len(bs)] = Push(@, key, item)]
    ELSE Append(bs, Push(NewBlock(type), key, item))

\* The queues of the first block that get() may pick.
Idle(bs) ==
    IF bs = <<>> THEN {}
    ELSE {k \in Keys : bs[1].queues[k].list # <<>> /\ ~bs[1].queues[k].inProgress}

\* The queues of the first block whose head item is handed out and not acknowledged.
Busy(bs) ==
    IF bs = <<>> THEN {} ELSE {k \in Keys : bs[1].queues[k].inProgress}

\* get(): the queue's head item is handed out.
MarkBusy(bs, k) == [bs EXCEPT ![1].queues[k].inProgress = TRUE]

\* A plausible bug: an emptied block stays in front of the others.
AckInKeepingBlock(bs, k) ==
    [bs EXCEPT ![1].queues[k] = [list |-> Tail(@.list), inProgress |-> FALSE]]

\* item.ack(): the head leaves its queue, an emptied queue its
\* block, an emptied block the blocks.
AckIn(bs, k) ==
    LET block == [bs[1] EXCEPT !.queues[k] =
                     [list |-> Tail(@.list), inProgress |-> FALSE]]
    IN  IF \A q \in Keys : block.queues[q].list = <<>>
        THEN Tail(bs) ELSE [bs EXCEPT ![1] = block]

Init ==
    /\ arrivals = <<>>
    /\ blocks = <<>>

Add(r) ==
    /\ Len(arrivals) < MaxItems
    /\ arrivals' = Append(arrivals, r)
    /\ blocks' = AddTo(blocks, r.type, r.key, Len(arrivals) + 1)

Get(k) ==
    /\ k \in Idle(blocks)
    /\ blocks' = MarkBusy(blocks, k)
    /\ UNCHANGED arrivals

Ack(k) ==
    /\ k \in Busy(blocks)
    /\ blocks' = AckIn(blocks, k)
    /\ UNCHANGED arrivals

Next ==
    \/ \E r \in Routes : Add(r)
    \/ \E k \in Keys : Get(k)
    \/ \E k \in Keys : Ack(k)

Spec == Init /\ [][Next]_vars

\* The consumer calls get() until nothing is idle and acknowledges what it took.
Fairness == \A k \in Keys : WF_vars(Get(k)) /\ WF_vars(Ack(k))

FairSpec == Spec /\ Fairness

----------------------------------------------------------------------------
(* The refinement mapping to OrderedDispatch.                              *)

Open ==
    {i \in 1..Len(arrivals) :
        \E b \in 1..Len(blocks) : \E k \in Keys :
            \E p \in 1..Len(List(b, k)) : List(b, k)[p] = i}

Running ==
    {i \in 1..Len(arrivals) :
        blocks # <<>> /\ \E k \in Busy(blocks) : List(1, k)[1] = i}

Abstract == INSTANCE OrderedDispatch WITH open <- Open, running <- Running

\* ParallelQueue implements OrderedDispatch: nothing is handed out while an earlier
\* unfinished item conflicts with it, and nothing is lost, duplicated or invented.
ImplementsOrderedDispatch == Abstract!Spec

\* Two items handed out at the same time never conflict.
Exclusive == Abstract!Exclusive

\* Whatever is added is finished in the end: no queue and no block is left behind.
EveryItemFinishes ==
    \A i \in 1..MaxItems : i \in Open ~> i \notin Open

----------------------------------------------------------------------------
(* The invariant the proofs rest on, as named parts.                       *)

TypeOK ==
    /\ arrivals \in Seq(Routes)
    /\ blocks \in Seq(Block)

\* An item sits in the queue of its own key, in a block of its own type.
Routed ==
    \A b \in 1..Len(blocks), k \in Keys : \A p \in 1..Len(List(b, k)) :
        /\ List(b, k)[p] \in 1..Len(arrivals)
        /\ arrivals[List(b, k)[p]] = [type |-> blocks[b].type, key |-> k]

\* A queue holds its items in arrival order.
ListsInOrder ==
    \A b \in 1..Len(blocks), k \in Keys :
        \A p, q \in 1..Len(List(b, k)) : p < q => List(b, k)[p] < List(b, k)[q]

\* Every item of a block arrived before every item of a later block.
BlocksInOrder ==
    \A b, c \in 1..Len(blocks) : b < c =>
        \A k, m \in Keys :
            \A p \in 1..Len(List(b, k)), q \in 1..Len(List(c, m)) :
                List(b, k)[p] < List(c, m)[q]

\* No block is empty, and only queues of the first block are in progress.
BlocksInUse ==
    \A b \in 1..Len(blocks) :
        /\ \E k \in Keys : List(b, k) # <<>>
        /\ \A k \in Keys :
              blocks[b].queues[k].inProgress => b = 1 /\ List(b, k) # <<>>

\* The conjunction is inductive, and it is what makes a queue's head the only item
\* that may be handed out.
Inv == TypeOK /\ Routed /\ ListsInOrder /\ BlocksInOrder /\ BlocksInUse

=============================================================================
