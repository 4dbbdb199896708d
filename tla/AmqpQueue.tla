----------------------------- MODULE AmqpQueue -----------------------------
(***************************************************************************)
(* libs/queue.js: the worker's side of the AMQP queue from the sockets     *)
(* layer.  The broker delivers messages over a channel; every delivery is  *)
(* put into a ParallelQueue, handlers run from there, and a message is     *)
(* acknowledged when its handler is done.  Modelled: delivery and prefetch,*)
(* the in-flight limit, acknowledgements by delivery tag, loss of the      *)
(* channel and reconnection, worker crash, and the graceful shutdown with  *)
(* its WaitGroup (libs/WaitGroup.js).                                      *)
(*                                                                         *)
(* A delivery callback and the process.nextTick(processMsgQueue) it asks   *)
(* for are one step: nothing but other ticks runs in between.  The end of  *)
(* a handler and the tick after it are one step for the same reason.       *)
(* process.exit() and the restart of the worker are one step: what arrives *)
(* in between waits at the broker.                                         *)
(***************************************************************************)
EXTENDS Naturals, Sequences, FiniteSets, SequencesExt

CONSTANTS Conns,          \* connection ids
          Internal,       \* the key of internal events
          MaxMsgs,        \* bound: messages published
          Prefetch,       \* channel.prefetch(1000)
          InFlightLimit,  \* the 1000 of processMsgQueue()
          MaxFaults,      \* bound: worker crashes and losses of the channel
          MaxSignals      \* bound: SIGTERMs per worker

ASSUME AmqpBounds ==
    /\ MaxMsgs \in Nat /\ MaxFaults \in Nat /\ MaxSignals \in Nat
    /\ Prefetch \in Nat \ {0} /\ InFlightLimit \in Nat \ {0}
    /\ IsFiniteSet(Conns) /\ Internal \notin Conns

VARIABLES
    sent,      \* history: the routes of the messages published; message m is the m-th
    ready,     \* the broker's queue
    unacked,   \* the deliveries on this channel the broker has no ack for: Items, in order
    lastTag,   \* the tag of the last delivery on this channel
    channel,   \* this.channel is set (and live at the broker)
    consuming, \* the consumer is armed on this channel and not cancelled
    blocks,    \* the ParallelQueue q
    handled,   \* history: messages whose handlers have finished, or that nobody listens to
    closing,   \* this.closing
    tagSeen,   \* this.consumerTag is set
    cancels,   \* channel.cancel() calls not yet answered
    finished,  \* closingWg.finished
    signals,   \* SIGTERMs this worker got
    losses, crashes

brokerVars == <<sent, ready, unacked, lastTag>>
workerVars == <<blocks, closing, tagSeen, cancels, finished, signals>>
vars == <<brokerVars, channel, consuming, workerVars, handled, losses, crashes>>

Keys  == Conns \union {Internal}
Types == {"connection", "bnc"}

PQ == INSTANCE ParallelQueue WITH arrivals <- sent, MaxItems <- MaxMsgs

\* The routes q.add() is called with, and "unheard" for an event without listeners.
Routes ==
    {[type |-> "connection", key |-> c] : c \in Conns}
        \union {[type |-> "bnc", key |-> Internal], [type |-> "unheard", key |-> Internal]}

\* An item of the ParallelQueue: {amqpMsg, event}; the tag is amqpMsg's delivery tag.
Item(m, tag) == [msg |-> m, tag |-> tag]

Items == [msg : 1..MaxMsgs, tag : Nat]

UnackedMsgs == {unacked[i].msg : i \in 1..Len(unacked)}

\* What the broker's queue holds once the channel is gone: the unacknowledged
\* messages are put back in front, in the order in which they were delivered.
Requeued == [i \in 1..Len(unacked) |-> unacked[i].msg] \o ready

InFlight == Cardinality(PQ!Busy(blocks))

\* closingWg.count: the handlers and the cancel calls that are not done.
WgCount == InFlight + cancels

Queue == [list : Seq(Items), inProgress : BOOLEAN]
Block == [type : Types, queues : [Keys -> Queue]]

TypeOK ==
    /\ sent \in Seq(Routes) /\ Len(sent) <= MaxMsgs
    /\ ready \in Seq(1..MaxMsgs)
    /\ unacked \in Seq(Items) /\ lastTag \in Nat
    /\ blocks \in Seq(Block)
    /\ handled \subseteq 1..MaxMsgs
    /\ {channel, consuming, closing, tagSeen, finished} \subseteq BOOLEAN
    /\ signals \in 0..MaxSignals /\ cancels \in 0..signals
    /\ losses \in Nat /\ crashes \in Nat /\ losses + crashes <= MaxFaults

Init ==
    /\ sent = <<>> /\ ready = <<>> /\ unacked = <<>> /\ lastTag = 0
    /\ channel = TRUE /\ consuming = TRUE
    /\ blocks = <<>> /\ handled = {}
    /\ closing = FALSE /\ tagSeen = FALSE /\ cancels = 0 /\ finished = FALSE
    /\ signals = 0 /\ losses = 0 /\ crashes = 0

\* One tick of processMsgQueue(): at most one handler starts.
Pump(bs) ==
    IF closing \/ Cardinality(PQ!Busy(bs)) >= InFlightLimit \/ PQ!Idle(bs) = {}
    THEN {bs}
    ELSE {PQ!MarkBusy(bs, k) : k \in PQ!Idle(bs)}

\* The sockets layer publishes (sendToWorker).
Publish(r) ==
    /\ Len(sent) < MaxMsgs
    /\ sent' = Append(sent, r)
    /\ ready' = Append(ready, Len(sent) + 1)
    /\ UNCHANGED <<unacked, lastTag, channel, consuming, workerVars, handled, losses, crashes>>

\* The consumer callback of _startConsuming().
Deliver ==
    LET m   == Head(ready)
        r   == sent[m]
        tag == lastTag + 1
    IN  /\ channel /\ consuming /\ ready # <<>>
        /\ Len(unacked) < Prefetch
        /\ ready' = Tail(ready)
        /\ lastTag' = tag
        /\ \/ /\ closing                    \* left unacknowledged
              /\ unacked' = Append(unacked, Item(m, tag))
              /\ UNCHANGED <<blocks, handled, tagSeen>>
           \/ /\ ~closing /\ r.type = "unheard"
              /\ handled' = handled \union {m}
              /\ blocks' \in Pump(blocks)
              /\ tagSeen' = TRUE
              /\ UNCHANGED unacked            \* acknowledged at once
           \/ /\ ~closing /\ r.type # "unheard"
              /\ unacked' = Append(unacked, Item(m, tag))
              /\ blocks' \in Pump(PQ!AddTo(blocks, r.type, r.key, Item(m, tag)))
              /\ tagSeen' = TRUE
              /\ UNCHANGED handled
        /\ UNCHANGED <<sent, channel, consuming, closing, cancels, finished, signals,
                       losses, crashes>>

\* Every way a channel ends: onLost(), and the broker takes back what was not acknowledged.
LoseChannel ==
    /\ channel' = FALSE /\ consuming' = FALSE
    /\ ready' = Requeued /\ unacked' = <<>> /\ lastTag' = 0

\* safeAck(): the tag is sent on whatever channel is current.  The broker closes a
\* channel on which it is given a tag it does not know.
SafeAck(tag) ==
    \/ /\ ~channel
       /\ UNCHANGED <<ready, unacked, lastTag, channel, consuming>>
    \/ /\ channel
       /\ \E i \in 1..Len(unacked) :
              unacked[i].tag = tag /\ unacked' = RemoveAt(unacked, i)
       /\ UNCHANGED <<ready, lastTag, channel, consuming>>
    \/ /\ channel /\ \A i \in 1..Len(unacked) : unacked[i].tag # tag
       /\ LoseChannel

\* A plausible bug: amqplib's allUpTo, every tag up to this one is acknowledged.
CompleteAckingAll(k) ==
    LET it == blocks[1].queues[k].list[1] IN
    /\ k \in PQ!Busy(blocks)
    /\ handled' = handled \union {it.msg}
    /\ blocks' \in Pump(PQ!AckIn(blocks, k))
    /\ unacked' = SelectSeq(unacked, LAMBDA u : u.tag > it.tag)
    /\ UNCHANGED <<ready, lastTag, channel, consuming>>
    /\ UNCHANGED <<sent, closing, tagSeen, cancels, finished, signals, losses, crashes>>

\* A plausible bug: nothing looks for the next message once a handler is done.
CompleteWithoutTick(k) ==
    LET it == blocks[1].queues[k].list[1] IN
    /\ k \in PQ!Busy(blocks)
    /\ handled' = handled \union {it.msg}
    /\ blocks' = PQ!AckIn(blocks, k)
    /\ SafeAck(it.tag)
    /\ UNCHANGED <<sent, closing, tagSeen, cancels, finished, signals, losses, crashes>>

\* A handler ends (or throws, which is caught): ack() in the ParallelQueue, safeAck(),
\* closingWg.done(), whose checkCount() does nothing once finished, and the next tick.
Complete(k) ==
    LET it == blocks[1].queues[k].list[1] IN
    /\ k \in PQ!Busy(blocks)
    /\ handled' = handled \union {it.msg}
    /\ blocks' \in Pump(PQ!AckIn(blocks, k))
    /\ SafeAck(it.tag)
    /\ UNCHANGED <<sent, closing, tagSeen, cancels, finished, signals, losses, crashes>>

\* The connection or channel is closed by the other side.
ChannelLost ==
    /\ channel
    /\ losses + crashes < MaxFaults
    /\ losses' = losses + 1
    /\ LoseChannel
    /\ UNCHANGED <<sent, workerVars, handled, crashes>>

\* scheduleReconnect() gives up when closing; a handler that sends something calls
\* connect() all the same.  Both end in ensureConsuming().
Reconnect ==
    /\ ~channel
    /\ ~closing \/ PQ!Busy(blocks) # {}
    /\ channel' = TRUE /\ consuming' = TRUE
    /\ UNCHANGED <<brokerVars, workerVars, handled, losses, crashes>>

\* A new worker: an empty ParallelQueue, a fresh channel, armed once it is set up.
Restarted ==
    /\ ready' = Requeued /\ unacked' = <<>> /\ lastTag' = 0
    /\ channel' = TRUE /\ consuming' = TRUE
    /\ blocks' = <<>>
    /\ closing' = FALSE /\ tagSeen' = FALSE /\ cancels' = 0 /\ finished' = FALSE
    /\ signals' = 0
    /\ UNCHANGED <<sent, handled, losses>>

\* The worker dies, whatever its handlers are doing.
Crash ==
    /\ losses + crashes < MaxFaults
    /\ crashes' = crashes + 1
    /\ Restarted

\* SIGTERM: prepareShutdown() calls stopListening().  Without a consumer tag or without
\* a channel there is nothing to cancel and closingWg.wait() follows at once.
Shutdown ==
    /\ signals < MaxSignals
    /\ \/ /\ tagSeen /\ channel
          /\ closing' = TRUE
          /\ signals' = signals + 1
          /\ cancels' = cancels + 1
          /\ UNCHANGED <<brokerVars, channel, consuming, blocks, tagSeen, finished, handled,
                         losses>>
       \/ /\ ~(tagSeen /\ channel) /\ (finished \/ WgCount = 0)
          /\ Restarted
       \/ /\ ~(tagSeen /\ channel) /\ ~finished /\ WgCount > 0
          /\ closing' = TRUE
          /\ signals' = signals + 1
          /\ finished' = TRUE
          /\ UNCHANGED <<brokerVars, channel, consuming, blocks, tagSeen, cancels, handled,
                         losses>>
    /\ UNCHANGED crashes

\* A plausible bug: the process exits as soon as the consumer is cancelled.
CancelAndExit ==
    /\ cancels > 0
    /\ Restarted
    /\ UNCHANGED crashes

\* The broker confirms a cancel: closingWg.done('channel.cancel'), then closingWg.wait().
CancelOk ==
    /\ cancels > 0
    /\ \/ /\ finished \/ WgCount = 1
          /\ Restarted
       \/ /\ ~finished /\ WgCount > 1
          /\ cancels' = cancels - 1
          /\ consuming' = FALSE
          /\ finished' = TRUE
          /\ UNCHANGED <<brokerVars, channel, blocks, closing, tagSeen, signals, handled, losses>>
    /\ UNCHANGED crashes

Next ==
    \/ \E r \in Routes : Publish(r)
    \/ Deliver
    \/ \E k \in Keys : Complete(k)
    \/ ChannelLost
    \/ Reconnect
    \/ Crash
    \/ Shutdown
    \/ CancelOk

Spec == Init /\ [][Next]_vars

\* The broker keeps delivering, handlers end, and reconnection is retried for ever.
Fairness ==
    /\ WF_vars(Deliver) /\ WF_vars(Reconnect) /\ WF_vars(CancelOk)
    /\ \A k \in Keys : WF_vars(Complete(k))

FairSpec == Spec /\ Fairness

----------------------------------------------------------------------------

\* A message the broker has no copy of any more has been handled: a worker that dies at
\* any point loses nothing ("the broker redelivers unacked messages", queue.js:135).
AckedOnlyWhenHandled ==
    \A m \in 1..Len(sent) :
        m \in handled \/ m \in UnackedMsgs \/ \E i \in 1..Len(ready) : ready[i] = m

\* The same as long as the channel has never been made anew under running handlers.
AckedUntilReconnected == losses = 0 => AckedOnlyWhenHandled

\* The message whose handler is running for key k.
Current(k) == blocks[1].queues[k].list[1].msg

\* m must be handled before n: same connection, or one of them is an internal event.
Before(m, n) ==
    /\ m < n
    /\ "unheard" \notin {sent[m].type, sent[n].type}
    /\ sent[m].type # sent[n].type \/ sent[m].key = sent[n].key

\* The items the worker holds in its ParallelQueue.
ItemsHeld ==
    UNION {Range(blocks[b].queues[k].list) : b \in 1..Len(blocks), k \in Keys}

\* The worker holds no copy of message m and the broker none: it can reach no handler.
Gone(m) ==
    /\ m \notin UnackedMsgs \cup Range(ready)
    /\ \A it \in ItemsHeld : it.msg # m

\* A handler runs only when everything published earlier that it must follow has been
\* handled, or will never be: no message is overtaken, through crashes, redeliveries,
\* reconnections and acknowledgements by tags of an older channel.
HandledInOrder ==
    \A k \in PQ!Busy(blocks) : \A m \in 1..Len(sent) :
        Before(m, Current(k)) => m \in handled \/ Gone(m)

\* A worker that is stopped once, by a signal, exits between handlers: WaitGroup.wait()
\* holds the exit back for the handlers that run (worker.js:160).
GracefulExit ==
    [][Restarted /\ crashes' = crashes => PQ!Busy(blocks) = {}]_vars

\* Every published message is handled in the end, unless a worker that was told to stop
\* never gets to its exit, is stopped after its channel was made anew, or loses it while it
\* is closing: what is then acknowledged by a stale tag is in no worker's memory any more.
EventuallyHandled ==
    \/ <>[]closing
    \/ <>(losses > 0 /\ (closing \/ crashes > 0))
    \/ \A m \in 1..MaxMsgs : m \in 1..Len(sent) ~> m \in handled

\* "This worker will get restarted" (worker.js:159): a worker that was told to stop does.
ShutdownCompletes == closing ~> ~closing

=============================================================================
