------------------------------ MODULE IpcQueue ------------------------------
(***************************************************************************)
(* libs/ipcqueue.js with the respawn loop of actions/run.js: the queue from *)
(* the sockets process to the worker when no AMQP server is used.  The     *)
(* worker asks for one message at a time over the IPC pipe; the sockets    *)
(* process answers from its queue, or keeps the request waiting for at     *)
(* most three seconds.  Workers die and are respawned; they are counted,   *)
(* and worker is the number of the one that lives or whose exit has not    *)
(* been seen yet, so that a request of an older one has workerClosed set.  *)
(*                                                                         *)
(* pResolve(payload) and the .then() of getMessage are one step: no event  *)
(* of the sockets process runs in between.                                 *)
(***************************************************************************)
EXTENDS Naturals, Sequences, FiniteSets, SequencesExt

CONSTANTS MaxMsgs,     \* bound: messages sent
          MaxCrashes,  \* bound: workers that crash
          MaxStops     \* bound: workers that are told to stop

ASSUME IpcBounds == MaxMsgs \in Nat /\ MaxCrashes \in Nat /\ MaxStops \in Nat

VARIABLES
    sent,      \* messages sent so far; message m is the m-th
    queue,     \* this.toWorkerQueue
    waits,     \* this.toWorkerQueueWaits: the worker each waiting request is from
    failed,    \* failedReplies
    requests,  \* getMessage requests in the pipe, by worker
    reply,     \* <<m>> while an answer is in the pipe to the worker
    worker,    \* the number of the worker
    phase,     \* "booting", "asking", "handling" or "dead"
    current,   \* <<m>> while the worker handles m
    stopping,  \* the worker's stopPromise is set
    handled,   \* history: messages handled, in order
    lost,      \* history: messages that died with a worker
    crashes, stops

sockets == <<sent, queue, waits, failed>>
vars == <<sockets, requests, reply, worker, phase, current, stopping, handled, lost,
          crashes, stops>>

Empty == 0                    \* the payload ''
Message == 1..MaxMsgs

\* The messages among what a pipe or a handler holds.
Real(s) == IF s = <<Empty>> THEN <<>> ELSE s

Init ==
    /\ sent = 0
    /\ queue = <<>> /\ waits = <<>> /\ failed = <<>>
    /\ requests = {} /\ reply = <<>>
    /\ worker = 1 /\ phase = "booting" /\ current = <<>> /\ stopping = FALSE
    /\ handled = <<>> /\ lost = <<>>
    /\ crashes = 0 /\ stops = 0

\* reply(null, m) to worker w: nobody reads it when w is gone, seen or not.
ReplyTo(w, m) ==
    IF w = worker /\ phase # "dead"
    THEN reply' = <<m>> /\ UNCHANGED lost
    ELSE /\ lost' = IF m = Empty THEN lost ELSE Append(lost, m)
         /\ UNCHANGED reply

\* The .then() of getMessage: an item for a worker that is known to be gone is kept.
AnswerOrKeep(w, m) ==
    \/ /\ w < worker
       /\ failed' = Append(failed, m)
       /\ UNCHANGED <<reply, lost>>
    \/ /\ w = worker
       /\ ReplyTo(w, m)
       /\ UNCHANGED failed

\* A plausible bug: the request that waits is answered and stays in the list.
SendKeepingWait ==
    /\ sent < MaxMsgs
    /\ sent' = sent + 1
    /\ \/ /\ waits # <<>>
          /\ AnswerOrKeep(Head(waits), sent + 1)
          /\ UNCHANGED <<waits, queue>>
       \/ /\ waits = <<>>
          /\ queue' = Append(queue, sent + 1)
          /\ UNCHANGED <<waits, failed, reply, lost>>
    /\ UNCHANGED <<requests, worker, phase, current, stopping, handled, crashes, stops>>

\* sendToWorker() in the sockets process.
SendToWorker ==
    /\ sent < MaxMsgs
    /\ sent' = sent + 1
    /\ \/ /\ waits # <<>>
          /\ AnswerOrKeep(Head(waits), sent + 1)
          /\ waits' = Tail(waits)
          /\ UNCHANGED queue
       \/ /\ waits = <<>>
          /\ queue' = Append(queue, sent + 1)
          /\ UNCHANGED <<waits, failed, reply, lost>>
    /\ UNCHANGED <<requests, worker, phase, current, stopping, handled, crashes, stops>>

\* A plausible bug: nobody looks at failedReplies.
GetMessageFromQueue(w) ==
    /\ w \in requests
    /\ requests' = requests \ {w}
    /\ \/ /\ queue # <<>>
          /\ queue' = Tail(queue)
          /\ AnswerOrKeep(w, Head(queue))
          /\ UNCHANGED waits
       \/ /\ queue = <<>>
          /\ waits' = Append(waits, w)
          /\ UNCHANGED <<queue, failed, reply, lost>>
    /\ UNCHANGED <<sent, worker, phase, current, stopping, handled, crashes, stops>>

\* The getMessage request of worker w reaches the sockets process, which also reads what
\* a dead worker had written.
GetMessage(w) ==
    /\ w \in requests
    /\ requests' = requests \ {w}
    /\ \/ /\ failed # <<>>
          /\ failed' = Tail(failed)
          /\ ReplyTo(w, Head(failed))
          /\ UNCHANGED <<queue, waits>>
       \/ /\ failed = <<>> /\ queue # <<>>
          /\ queue' = Tail(queue)
          /\ AnswerOrKeep(w, Head(queue))
          /\ UNCHANGED waits
       \/ /\ failed = <<>> /\ queue = <<>>
          /\ waits' = Append(waits, w)
          /\ UNCHANGED <<queue, failed, reply, lost>>
    /\ UNCHANGED <<sent, worker, phase, current, stopping, handled, crashes, stops>>

\* The three seconds of the oldest waiting request are over.
Timeout ==
    /\ waits # <<>>
    /\ waits' = Tail(waits)
    /\ \/ /\ Head(waits) < worker
          /\ UNCHANGED <<reply, lost>>
       \/ /\ Head(waits) = worker
          /\ ReplyTo(worker, Empty)
    /\ UNCHANGED <<sent, queue, failed, requests, worker, phase, current, stopping, handled,
                   crashes, stops>>

\* listenForEvents() in the worker, once it has started.
Listen ==
    /\ phase = "booting"
    /\ phase' = "asking"
    /\ requests' = requests \union {worker}
    /\ UNCHANGED <<sockets, reply, worker, current, stopping, handled, lost, crashes, stops>>

\* The worker gets the answer, and triggerPayload() starts.
Receive ==
    /\ phase = "asking" /\ reply # <<>>
    /\ phase' = "handling"
    /\ current' = reply /\ reply' = <<>>
    /\ UNCHANGED <<sockets, requests, worker, stopping, handled, lost, crashes, stops>>

\* A plausible bug: stopListening() resolves while the next request is out already.
HandledThenAsk ==
    /\ phase = "handling"
    /\ current' = <<>>
    /\ handled' = handled \o Real(current)
    /\ requests' = requests \union {worker}
    /\ phase' = IF stopping THEN "dead" ELSE "asking"
    /\ UNCHANGED <<sockets, reply, worker, stopping, lost, crashes, stops>>

\* triggerPayload() is done: the worker exits if it is to stop, else it asks again.
Handled ==
    /\ phase = "handling"
    /\ current' = <<>>
    /\ handled' = handled \o Real(current)
    /\ \/ /\ stopping
          /\ phase' = "dead"
          /\ UNCHANGED requests
       \/ /\ ~stopping
          /\ phase' = "asking"
          /\ requests' = requests \union {worker}
    /\ UNCHANGED <<sockets, reply, worker, stopping, lost, crashes, stops>>

\* stopListening(), from a signal or from the handler of "reset".
StopListening ==
    /\ stops < MaxStops
    /\ phase # "dead" /\ ~stopping
    /\ stopping' = TRUE
    /\ stops' = stops + 1
    /\ UNCHANGED <<sockets, requests, reply, worker, phase, current, handled, lost, crashes>>

\* The worker dies: the answer on its way, or the message in its handler, goes with it.
Crash ==
    /\ crashes < MaxCrashes
    /\ crashes' = crashes + 1
    /\ phase # "dead"
    /\ phase' = "dead"
    /\ lost' = lost \o Real(reply) \o Real(current)
    /\ reply' = <<>> /\ current' = <<>>
    /\ UNCHANGED <<sockets, requests, worker, stopping, handled, stops>>

\* workerProc.on('exit'): workerClosed is set and a new worker is forked.
Exit ==
    /\ phase = "dead"
    /\ worker' = worker + 1
    /\ phase' = "booting"
    /\ stopping' = FALSE
    /\ UNCHANGED <<sockets, requests, reply, current, handled, lost, crashes, stops>>

Next ==
    \/ SendToWorker
    \/ \E w \in requests : GetMessage(w)
    \/ Timeout
    \/ Listen
    \/ Receive
    \/ Handled
    \/ StopListening
    \/ Crash
    \/ Exit

Spec == Init /\ [][Next]_vars

\* Both processes keep running, timers fire, handlers end, and the living worker's
\* request reaches the sockets process.
Fairness ==
    /\ WF_vars(Timeout) /\ WF_vars(Listen) /\ WF_vars(Receive)
    /\ WF_vars(Handled) /\ WF_vars(Exit)
    /\ WF_vars(worker \in requests /\ GetMessage(worker))

FairSpec == Spec /\ Fairness

----------------------------------------------------------------------------

TypeOK ==
    /\ sent \in 0..MaxMsgs
    /\ queue \in Seq(Message) /\ failed \in Seq(Message)
    /\ handled \in Seq(Message) /\ lost \in Seq(Message)
    /\ worker \in Nat \ {0}
    /\ waits \in Seq(1..worker)
    /\ requests \subseteq 1..worker
    /\ reply \in Seq(Message \union {Empty}) /\ Len(reply) <= 1
    /\ current \in Seq(Message \union {Empty}) /\ Len(current) <= 1
    /\ phase \in {"booting", "asking", "handling", "dead"}
    /\ stopping \in BOOLEAN
    /\ crashes \in 0..MaxCrashes /\ stops \in 0..MaxStops

\* Every message sent is in exactly one place: nothing is duplicated and nothing
\* disappears, whenever workers die.
OnePlace ==
    LET places == queue \o failed \o Real(reply) \o Real(current) \o handled \o lost
    IN  IsInjective(places) /\ ToSet(places) = 1..sent

\* A crash costs at most the one message that was on its way or being handled, and a
\* graceful exit costs none.
AtMostOneLostPerCrash == Len(lost) <= crashes

\* "Worker process closed, queing up reply for next worker" (ipcqueue.js:85): once the
\* exit of a worker has been seen no message is given to it any more.
ClosedWorkerLosesNothing == [][lost' # lost => "dead" \in {phase, phase'}]_vars

\* Messages are handled in the order in which they were sent.
HandledInOrder ==
    \A i, j \in 1..Len(handled) : i < j => handled[i] < handled[j]

\* Every message is handled, or died with a worker.
EveryMessageEnds ==
    \A m \in Message : m <= sent ~> m \in ToSet(handled) \union ToSet(lost)

=============================================================================
