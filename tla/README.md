# Formal models of kiwibnc

kiwibnc is an IRC bouncer made of two processes. The *sockets* process owns
every TCP connection and does as little as possible, so that it never has to be
restarted; the *worker* process holds all the logic and may crash or be
restarted at any time. A queue joins them, either AMQP (RabbitMQ) or a pipe
between the parent and its child (IPC). What is hard in this program is hard
because of that split: what is lost, repeated or reordered between the two, what
a new worker believes about connections it did not open, and what the asynchronous
parts of the worker do to each other.

The modules below are TLA+ translations of those parts, model-checked with TLC on
small instances; eight of them carry theorems checked by TLAPS for every value of
the constants. Paths are relative to the repository; `worker/x.js` stands for
`src/worker/x.js`, and so on.

## 1. Inventory

| Part | State it keeps | Operations | Model |
| --- | --- | --- | --- |
| Parallel queue, `libs/ParallelQueue.js` | blocks of FIFO queues | `add`, `get`, `ack` | `ParallelQueue`, `OrderedDispatch` |
| AMQP queue, `libs/queue.js`, `libs/WaitGroup.js` | channel, consumer, deliveries, in-flight count, closing | consume, handle, ack, reconnect, stop | `AmqpQueue` (sockets to worker) |
| IPC queue, `libs/ipcqueue.js`; respawn, `actions/run.js` | queue, waiting requests, failed replies, worker process | send, request, time out, exit, respawn | `IpcQueue` (sockets to worker) |
| Outgoing connection, `worker/connectionoutgoing.js` with `sockets/sockets.js`, `sockets/connection.js` | flags, timers, socket objects, throttle turns | open, connected, closed, reconnect, close | `UpstreamLink` |
| Upstream commands, `worker/upstreamcommands.js` | capabilities, nick, channels, users | CAP, AUTHENTICATE, 001 to 376, JOIN, PART, KICK, QUIT, NICK, MODE, NAMES | `CapNegotiation`, `ChannelView`, `UpstreamLink` |
| Client connections, `worker/connectionincoming.js`, `clientcommands.js` | registration state, login, link to an upstream | CAP, PASS, NICK, USER, login, burst, departure | `ClientSession` |
| Connection state, `worker/connectionstate.js`, `connectiondict.js` | flags, buffers, links, dirty bit, save timer, row | mark, save, load, destroy | `ConnectionStates`; contents in `ChannelView`, `UpstreamLink` |
| Worker, `worker/worker.js` | dictionary, startup and shutdown | event dispatch, load, reconcile, reset, shutdown | `ConnectionStates`, `UpstreamLink` |
| Users and networks, `worker/users.js`, `libs/dataModels/*`; BOUNCER extension; client control | rows, networks, what clients were told | CONNECT, DISCONNECT, ADD/CHANGE/DEL/LISTNETWORKS, state messages | `Networks` |
| Message store, `worker/messagestores/sqlite.js` | two tables, id cache, write queue, retention task | store, retry, delete, collect | `MessageStore` |
| History: CHATHISTORY and BOUNCER extensions, the dump of `connectionincoming.js`, the queries of `sqlite.js` | read and delivery marks per buffer | live delivery (which moves a mark), dump (which does not), LATEST, BEFORE, AFTER, LISTBUFFERS, CHANGEBUFFER, DELBUFFER | `History` |
| WHO routing, reply router | queue of clients that wait for an answer | route, drop | planned |
| Throttler, `libs/throttler.js` | promises per label, ticking timer | wait, tick, stop | a "turn" in `UpstreamLink` |
| Hooks, `libs/eventemitter.js` | listeners | emit, awaited chain | not modelled |
| Listening sockets, HTTP and WebSocket detection | bytes read so far | parse | not modelled |

**How they interact.** A line from a socket becomes a `connection.data` message;
the queue hands it to the worker's dispatcher (`worker.js:241`), serially per
connection and in parallel between connections; the handler updates the
connection's state and may send messages back. `connection.open` and `.close` from
the worker create and end socket objects, whose life is reported by
`connection.open`, `.existing` and `.close` in the other direction. A client's lines
first register it; its login finds the user's connection to the network in the
dictionary or makes one, and links the two. The state of every connection is
saved by a debounced timer into a row, and the next worker loads
those rows and asks for every outgoing connection again: the sockets process answers
`existing` for those that never went away, and with a list of the incoming ones that
are alive. Independently the worker gives every
message to the store, whose writes are queued, and dropped one by one when the database is busy, and
whose retention task works between them.

**What is hard, and what makes each part correct.**

* *Parallel queue*: `ack` runs an await after `get`, with any number of other calls
  in between. Correct means that conflicting items (same connection, or an internal
  event) never run together, run in arrival order, and all finish.
* *AMQP queue*: at-least-once delivery, a limit on what is in flight, a pump that
  runs by ticks, reconnection under running handlers, shutdown. Correct means: what
  is acknowledged was handled; order survives redelivery; a graceful exit interrupts no
  handler; everything is handled in the end.
* *IPC queue*: a request that waits may belong to a worker that is dead already, seen
  or not. Correct means: each message in exactly one place, at most one lost with each
  crash, none with a stop, everything answered.
* *Outgoing connection*: two asynchronous directions, persisted flags, a timer and a
  throttle. Correct means: one connection, flags that agree with the server, and a
  network that comes back.
* *Capabilities*: replies in several lines, a connection that may be lost between any two,
  announcements at any time. Correct means: the worker has the set the server has enabled, the
  login comes before the end of the registration, and the registration ends.
* *Channels*: a view that follows the server's lines one by one and is saved a second late.
  Correct means: the view agrees whenever nothing is on its way, in this worker and the next.
* *Client connections*: lines in any order, handlers that await the database, a network that
  registers, drops and comes back meanwhile, other clients of the same user. Correct means: one
  burst each, messages to those who are there, the away mark when nobody is, logins that end.
* *Connection states*: three parties with their own idea of which clients exist. Correct means:
  a live client stays known, a dead one is forgotten.
* *Networks*: read, await, write, with other clients doing the same, and messages that wait for reads
  nobody awaits. Correct means: one
  connection for each network, none for a deleted one, no change undone by another, and
  clients that are told the truth.
* *Message store*: ids are cached, rolled back, deleted and given out again. Correct
  means: a stored row reads back as the message it was written for, retention deletes
  what it should and leaves nothing behind, a busy database costs no more than it must, the queue
  empties.
* *History*: messages are found by time, and times are shared, late, and moved past by what is
  sent to a client live. Correct means: nobody misses a message, histories have no holes, the unread
  count is exact.

`PROJECT.json` lists the hazards with the line of each and the properties that watch
over it.

## 2. The modules

**`OrderedDispatch`** is the contract of a dispatcher: items arrive, may be started
when no earlier unfinished item conflicts with them, and finish. Nothing in it is from
the code; it is what `ParallelQueue` is shown to implement.

**`ParallelQueue`** has the code's `blocks` and one action for each of `add`, `get`,
`ack`. The code's object of queues is a total function (a missing key is an empty
list). The refinement mapping reads off the blocks which items are open and which run.

**`AmqpQueue`** instantiates the operators of `ParallelQueue` for the worker's queue
and adds the broker (the line `ready`, and `unacked`, the deliveries it waits to be acknowledged),
the channel, and the shutdown. Tags count the deliveries on the current channel; `SafeAck` sends one
on whatever channel is current, as `queue.js:141` does. `Deliver` is the consumer callback and the tick it asks
for; `Complete` is the end of a handler, the ack, `closingWg.done()` and the next tick:
only other ticks run in between, so they are one step. `Shutdown` and `CancelOk` follow
`stopListening()` and the `WaitGroup`, with its `finished` flag.

**`IpcQueue`** has the sockets process's `toWorkerQueue`, its waiting requests and
`failedReplies`, the pipe, and a worker that boots, asks, handles and dies. Workers are
numbered; a request of an older number has `workerClosed` set. A crash and the `exit`
event are two steps: between them an answer may still be written to a dead worker.

**`UpstreamLink`** is one network connection through all its parts: the worker's flags,
the row, the reconnection timers, both queues, the socket objects with the turns they
wait for in the throttle, and the server. The flags are the ones `onUpstreamConnected`,
`onUpstreamClosed`, `connection.existing`, 001 and 376 write. A socket object outlives its
removal from `cons`, which is the point of several properties. Its simplifications: the
lines of a registration, the numerics of a welcome and the JOINs are one message each; a
worker's death and the start of the next one are one step (whatever happens in between may
happen before the new worker reads its first message); a restart always asks for the
connection; `connection.data` for other lines is not there. A connection may be lost at any time: before it
is registered this is an `abort`, after which the worker makes no new one (`connectionoutgoing.js:285`),
afterwards a `drop`. The user's reconnection loop
cannot be stopped by a disconnect while not connected, as in the code.

**`CapNegotiation`** looks into the registration of one connection: the handlers of CAP LS,
ACK, LIST, NEW and DEL, of 903, 904 and AUTHENTICATE, with the parts of incomplete replies
that are kept in `tempData`, against a server that enables what it is asked for, announces and
withdraws capabilities, holds the registration until CAP END, and may be lost at any time, with
the last of the lines on their way, between the lines of one reply too (`cut`, history).
The unknown of the model is the server: what it offers, how it splits its replies, when it
speaks unasked.

**`ChannelView`** has the server's channels (members, prefixes, the user's nick) and the
worker's view of them, which follows JOIN, PART, KICK, QUIT, NICK, MODE and 353/366. A client's NAMES
reaches the server only without a channel (`clientcommands.js:366`), and is answered by one list of
many channels with a single end, in any order (`AsksNames`, `NamesList`, `Orders`); the flag
`receiving_names` is one for the connection, so that only the first channel of the list is emptied. The lines
are a FIFO; the row is written by the save timer, by the flush of a stop, or not at all by a
crash. Handlers that run after the flush (`worker.js:180`) are there. `synced`, `began`,
`listed`, `late` and `crashed` are history, which the properties need to say from when on the
view must be right.

**`ClientSession`** has the clients of one user. A handler is split where it awaits: `Login` is
the rest of a handler after `loginToNetwork()`, `Burst` what `registerClient()` does after the hook
`available_isupports`, one of whose listeners reads the database, `Dumped` the rest of it after
the history was read, `Destroy` the rest of the close after `prepareDestroy()`. `registerClient()` is called by
the login, which awaits it, and by the end of the MOTD, which does not: `calls` and `dumps` count, for each
client, those that wait in either place, and some of them may outlive their client or the connection
they were made for. The registration
queue, the negotiation flag, `cachedUpstreamId`, `linkedIncomingConIds` and the temporary
`set_away` are the code's. The upstream is a short form of `UpstreamLink`. A restart loads clients
that were authenticated and drops the others; that what is kept was saved is the business of
`ConnectionStates`.

**`ConnectionStates`** has the same clients as the sockets process, the worker's dictionary and
the `connections` table know them: save timers (also those of destroyed states, which still
run), the flush, the reset of the sockets process with its two statements and the exit behind them,
`loadConnections()`, the purge of rows without a user, and the reconciliation with
`connections.active` and its fail-safe timer. `links` are a network connection's
`linkedIncomingConIds`.

**`Networks`** has the rows of a user's networks with two columns each, the connections in the dictionary, and
the clients' handlers cut at their awaits: `Command`
starts one, `Read` is the first answer of the database, `Login`, `Connect`, `CloseUp`, `Drop`, `Insert`, ... are
what follows. `Parallel` says whether handlers of different
clients interleave, which they do over AMQP. A client's `upstream` is the connection it has `cached`, for as long as
the dictionary has that connection and whatever network it is now for (`Upstream`); only else it is looked for, in a
dictionary that may have several (`Found`). CONNECT of `*bnc` is three steps, since it looks before it reads
(`BncConnect`, `MakeReads`, `MakeUpstream`). `save()` writes the columns whose value is not the one that was read (`Saved`).
A state message has its text when it waits for the database, and the answers may come in any order (`notes`, `Note`).
`view` is what each client was told by state messages and network lists. Four variables are history, for
what the properties except: `raced`, the networks that were deleted while another handler that had read
the row was to connect them; `moved`, those that have taken a connection of another, and those it was taken from;
`clash`, the columns last set by a handler that had read an old value; `overtaken` and `behind`, which of the state
messages that wait had been overtaken by a later one, and the networks whose last message was one of these.

**`MessageStore`** is the store of one worker: the tables `logs` and `data`, the LRU cache
(as a map; what an eviction does is what a restart does to one entry, and only a hit can be
wrong), the write queue with its loop flag, retry timer and `setImmediate` callbacks, and the
retention task with its batches, its temp table and its chunks. Two of a row's five strings
are kept, the buffer and the text; the others take the same path. A message is `text`,
`ignored` (a CTCP or a command that is not logged) or `bare` (no text parameter): `dataId()` inserts a NULL
for the last, which no lookup finds, and the row refers to nothing. The lock may be taken during the first
lookups only (`WriteDamaged`: `dataId()` swallows the failure of its insert and returns null, and the row is
committed with a NULL reference), until the row is inserted (`FailBusy`), or the transaction may fail for
another reason after its lookups (`RollBack`: the cache keeps their ids). Which rows
are old enough for retention is left open.

**`History`** is what the clients of one query get to see of the stored messages. A message is a
number, in order of arrival, with a time that may be shared or lie behind the clock; pages are sets,
since SQLite may return messages of one time in any order, and every page it may return is tried.
`Arrive` is the PRIVMSG handler with the delivery behind it, the new buffer and its anchor; `Store`
writes what had to wait; `Dump` is the part of `dumpChannels()` that reads this buffer, which comes
after other awaits: the client is `dumping`, and live, from `PlainLogin` on. A dump leaves the mark where it is:
messages read from the database have a prefix and no nick (`sqlite.js:769`), and `writeMsg()` looks for the buffer of a
query by the nick (`connectionincoming.js:179`). How a bouncer client
fills its history (`WebConnect`, `Fill`, `ScrollBack`) is taken from the comment at
`chathistory/index.js:199` and is an assumption about clients. `owed` and `holes` are history: what a
client is still to be given, and what it may miss for a reason the property excepts.

The modules divide the system along its interfaces and each states the others' contract in a
short form: the order `ChannelView` and `UpstreamLink` assume of their lines is what
`IpcQueue`, `AmqpQueue` and `ParallelQueue` promise; the upstream of `ClientSession` and
`Networks` is `UpstreamLink`; that known clients survive a restart is `ConnectionStates`.


`MCParallelQueue`, `MCAmqpQueue` and `MCClientSession` define the constants a cfg cannot write
down, and `MCNetworks` the symmetry of its two clients, which nothing in `Networks` tells apart; the other runs give theirs in the cfg. The theorems (section 4) are in modules of their own,
with nothing that belongs to the models: `AmqpQueueProofs`, `IpcQueueProofs`,
`ConnectionStatesProofs`, `NetworksProofs`, `UpstreamLinkProofs`, and three that are about two models
each: `WorkerProofs` (`ParallelQueue`, `ClientSession`), `UpstreamProofs` (`CapNegotiation`,
`ChannelView`: the handlers of `upstreamcommands.js`) and `MessageStoreProofs` (`MessageStore`, `History`).
Two models that one module extends may share no name, which is why the second of each pair has
`SessionSpec`, `ViewSpec` and `HistorySpec` where the others have `Spec`. In every module the definitions whose comment starts
with "A plausible bug", and in `MessageStore` the ones that say what they lack, are
mutated forms of a definition after them: `PROJECT.json` names, for every property of
a passing run, the one that violates it.

## 3. The runs

Run one with `tlc -config <cfg> <module>`.

| Run | What it shows |
| --- | --- |
| `parallel_queue` | The invariant of the proofs, exclusion, refinement of `OrderedDispatch`, everything finishes. 2 types, 2 keys that occur under both, 4 items: enough for two blocks of one type around one of the other. |
| `amqp_faults` | One fault (a crash or a loss of the channel under running handlers), one signal, 3 messages on 2 connections and the internal queue, in-flight limit 2: nothing lost until a channel was made anew, order through every fault (of all messages of which the broker or the worker has a copy), exit between handlers, everything handled (except by a worker that hangs in its shutdown, or that is stopped and loses its channel, before or while it is closing). |
| `ipc_faults` | Two crashes, two stops, 4 messages: one place, one loss per crash at most, every message ends. |
| `link_faults` | Any three drops (before or after the registration), failed attempts, crashes, stops and user commands, 4 socket objects: no second connection, never taken for registered too early and back up when left alone, a new worker learns what is registered. |
| `caps` | Three capabilities, two wanted, two announcements, two lost connections: caps in sync when all is quiet (unless one was requested late, or a LIST reply was cut in two), SASL before CAP END, the registration ends. |
| `channels` | Two channels, three nicks, four events, one stop or crash: users and prefixes after a list that began with the channel, whatever bare NAMES lists are merged, channels and nick always (by which messages of a channel are kept or dropped). |
| `clients` | Two clients, one that negotiates and one that does not, any order of their lines, one fault (drop, failed attempt or restart): one burst, and one more for each call of `registerClient()` that waited since the connection before, `forEachClient()` reaches who is there, no away mark with a client there, logins end. |
| `states` | Two clients, three faults (crash, stop, restart of the sockets process): known while live, never forgotten alive, forgotten when dead. |
| `networks` | Two clients, two networks, two connections, three commands, one drop, one restart: one connection per network unless one was taken for another network, no setting undone by a client that changed another, deleted networks gone, clients told whatever order the state messages are sent in. |
| `message_store` | Three messages of any kind, channel retention in batches and chunks of one, two of its runs, a busy database (wholly or in part), a failed transaction, a user's deletion and a restart: cache and rows agree with the strings, no string left behind, only retained rows deleted, one loss per busy database, the queue empties. |
| `store_busy` | The opposite of what a log line says (`BusyIsRetried`, violated; see the finding below): a message that met a busy database is not retried. |
| `history` | One plain and one bouncer client, three messages, three ticks, pages of one and two, one rare thing (a late time, a late write, a purge): no message missed, no hole, exact unread counts. |

`TypeOK` (`SessionTypeOK`, `ViewTypeOK`, `HistoryTypeOK`) of the modules other than `ParallelQueue`, where
it is part of `Inv`, is in no cfg: it is proved for every one of them (section 4).

**Why the bounds are enough.** Each is the smallest at which the case the run is about
happens with something else going on beside it: two connections and an internal event are
all the kinds of conflict there are; a limit of 2 in flight is reached with 3 messages; a lost
IPC message needs one request left by the previous worker, so two crashes make it happen
with a request of a dead worker waiting; a socket object that outlives its successor needs
two objects, and there are four; a string used again needs a message before, between and
after the collection; an answer to the request of an earlier worker needs two restarts and there
are three; a channel's list that is broken off, a change that is missed and a second list need
three events; two clients are what it takes for one to leave while the other logs in, and for two
handlers to read the same row; two networks are what it takes for one to take the other's connection; a
transaction that fails, a string that is used again and an id that is given again need three messages; three messages are
more than a page and than a dump, and the ones before, at and after a mark. `history` also holds with
two rare things, and with four ticks.
The counters (`MaxItems`, `MaxMsgs`, `MaxFaults`, `MaxSignals`,
`MaxCrashes`, `MaxStops`, `MaxDrops`, `MaxEvents`, `MaxSocks`, `MaxChanges`, `MaxLines`, `MaxOps`,
`MaxBusy`, `MaxErrors`, `MaxCleanups`, `MaxRestarts`, `MaxDeletes`, `MaxMessages`, `MaxClock`, `MaxLag`, `MaxRare`) only bound how often the environment acts,
and `Objects`, `Kinds` and `MixedLines` what it has. `MaxLines` of `ChannelView` bounds the lines on
their way: two suffice for one to be handled after the flush.
`MaxNetworks` is not reached by `networks`, whose two networks are as many as it allows; the count and the
insert are there (section 5).
`CHECK_DEADLOCK FALSE` is there because when these are used up and all work is done
the system rests, as the program does when nothing arrives.

**Fairness.** Weak fairness, of what the event loops do by themselves: callbacks and timers
that are due run, the broker delivers what it may deliver, handlers end, a child that has
exited is forked again, a connection attempt succeeds or fails, the IRC server answers what it
was sent. Nothing is fair that
depends on the world: publishing, user commands, lines of a client, crashes, signals, drops, failures
and a busy
database may or may not happen. In `UpstreamLink` the server closes a connection that
nobody registers, as IRC servers do; in `IpcQueue` only the living worker's request must arrive.
`ChannelView`, `Networks` and `History` state safety only.

**What the qualified properties leave out** is known to go wrong and is named here rather than
hidden. Each cfg checks one property that the code violates; the module to run it with is
in the second column.

| Configuration | Module | Property | What happens |
| --- | --- | --- | --- |
| `MCAmqpStaleAck` | `MCAmqpQueue` | `AckedOnlyWhenHandled` | `safeAck()` sends a tag on whatever channel is current (`libs/queue.js:141`): a handler that ends after a reconnection acknowledges another message, which is gone unhandled. |
| `MCAmqpHang` | `MCAmqpQueue` | `ShutdownCompletes` | `WaitGroup.wait()` sets `finished`, after which `checkCount()` (`libs/WaitGroup.js:48`) returns at once: a wait that found handlers running is never woken, and the worker neither listens nor exits. |
| `MCIpcClosed` | `IpcQueue` | `ClosedWorkerLosesNothing` | A request is answered from `failedReplies` without a look at `workerClosed` (`libs/ipcqueue.js:76`). |
| `MCIpcReorder` | `IpcQueue` | `HandledInOrder` | A dead worker's waiting request takes a message into `failedReplies` while the next one goes straight to the new worker. |
| `MCLinkStuck` | `UpstreamLink` | `StaysConnected` | A persisted `reconnecting` makes the next close leave the network down. |
| `MCLinkDispose` | `UpstreamLink` | `OneSocketUnlessRepeated` | A worker that restarts between a disconnect and the close of the socket gets a new socket; the old one's `dispose` then removes the new one from `cons`. |
| `MCLinkRejoin` | `UpstreamLink` | `StaysOnline` | `onUpstreamClosed()` calls `leave()` on every channel, which clears `shouldBeJoined`: after a reconnection 376 joins nothing. |
| `MCCapNew` | `CapNegotiation` | `CapsInSync` | The ACK of a capability asked for after a CAP NEW replaces the whole set (`upstreamcommands.js:164`). |
| `MCCapRefused` | `CapNegotiation` | `EveryRegistrationEnds` | A NAK has no handler: neither the login nor CAP END follows. |
| `MCViewLate` | `ChannelView` | `FlushKeepsChannels` | A line handled while `stopListening()` waits changes the state after the flush; the save timer dies with the process. |
| `MCViewNames` | `ChannelView` | `KnownOnceListed` | `receiving_names` is one flag for the connection and is saved: a worker that loads it merges the next list into the old one, and of a bare NAMES list every channel but the first is merged (`upstreamcommands.js:541`). |
| `MCClientStuck` | `MCClientSession` | `EveryLoginEnds` | A connection marked as registered by `existing` while it registers never runs the end of the MOTD for its clients. |
| `MCClientAway` | `MCClientSession` | `AwayWhenLastLeaves` | Two clients that leave at once each see the other, and nobody is marked away. |
| `MCClientSwallow` | `MCClientSession` | `NoLineSwallowed` | Lines queued by a negotiation after the login are taken off the queue and dropped. |
| `MCStatesReset` | `ConnectionStates` | `ResetWipes` | States changed just before a reset are written again by their timers or the flush. |
| `MCStatesPurge` | `ConnectionStates` | `PurgesOnlyDead` | A live client in the middle of its registration loses its row when a worker starts. |
| `MCStatesLinks` | `ConnectionStates` | `LinksGo` | A link saved with the network's connection outlives the client whose row was lost or purged. |
| `MCNetConnect` | `Networks` | `KeepsItsNetwork` | `makeUpstream()` (`connectionincoming.js:645`) takes the connection that the client has cached for another network. |
| `MCNetTold` | `Networks` | `ToldTheTruth` | A state message that waits for the database when the worker stops is lost, and the next worker is answered `existing`, which tells nobody. |
| `MCStoreStaleId` | `MessageStore` | `RowsRead` | An id cached in a transaction that was rolled back is used for a later row. |
| `MCStoreStall` | `MessageStore` | `QueueAlwaysDrains` | A CTCP or unlogged command at the head of a backlog ends the loop without scheduling it again. |
| `MCStoreOrphans` | `MessageStore` | `OrphansAreListed` | Strings of a chunk whose collection failed are on no later list. |

**The finding.** `store_busy` refutes a log line. When SQLite reports SQLITE_BUSY, `storeMessageLoop()` logs
"storeMessage: database busy, retrying in 100ms" (`sqlite.js:742`), and the comment at line 46 says "retries
are handled async". The message was shifted off the queue at line 661 and nothing puts it back: the
timer's call takes the next one, or finds the queue empty. `AtMostOneLostPerBusy` bounds the damage: one message each
time.

More exceptions are needed and have no configuration of their own. `OneSocketUnlessRepeated` fails without
`repeated`: of two requests for a socket in the throttle, the second connects the socket again after it was open
and lost, unknown to `cons` (`sockets.js:85`). After an attempt that failed it does not, since
`connecting` stays set (`sockets/connection.js:47`, `:138`). `OneSocketPerTurn` fails when the user gives
commands and a connection is lost before it is registered (`abort`): a request to close then meets a new
socket that waits for its turn, on which `close()` does nothing, is taken out of `cons` all the same
(`sockets.js:117`), and the socket connects when its turn comes. `RegisteredWhenWelcomed` fails without
its condition on what happened: a second `connection.open` read just
after the socket connected is answered `existing`, and the worker takes a registration that is going on for
one that is done. `CapsInSyncUnlessNew` fails without `cut`: the
first lines of a LIST reply that a lost connection cut off stay in `tempData`, and the LIST reply of
the next connection is added to them (`upstreamcommands.js:17`), so a capability that the new
connection does not have counts as enabled.

What the properties of `Networks` except goes wrong too. A handler that read the row before DELNETWORK opens the
connection after it (`raced`). Two state messages whose reads end in the other order leave the clients with the older
state until the next message or list (`behind`). A client that gives a setting back the value it had read, when
another one changed it meanwhile, writes nothing (`clash`). One that connects another network with the connection it had
cached leaves the first network without, and a later login to either makes a second one (`moved`). Of `OneBurst`: a
`registerClient()` that waits for its hook while the connection closes, opens and comes to its 376 writes a burst
of the new connection, and so does the one that the 376 calls (`connectionincoming.js:408`).

What the properties of `MessageStore` except besides: a message whose first lookups meet a busy database is
written with NULL references, and its text or buffer is lost (`sqlite.js:347`); the NULL row that
`dataId(undefined)` inserts for a message without a text stays in `data` for good.

What the properties of `History` except goes wrong as well; each exception is needed on the instance
of its run. A live message that comes to a client before its dump does moves the mark past all it
missed (`connectionincoming.js:181` and `:512`). A client that was never sent a message live is given
the last day at each login, however often it comes, and nothing older. A message that comes with an earlier time than the mark,
or is stored late, is in no later dump. Two messages of one millisecond, the first of which a bouncer
client holds, are one to AFTER, and a message that was deleted finds nothing (`sqlite.js:386`). The
anchor of a query is one message too early when its message waits in the store's queue
(`bouncer/index.js:221`).

## 4. The proofs

Every safety property of the runs is proved, for any values of the constants that the named
assumptions allow.

**`WorkerProofs`, the queue** (any `Types`, `Keys`, `MaxItems \in Nat`).
`Invariance` proves `[]Inv`, `Inv` being `TypeOK`, `Routed` (an item is in the queue of
its key in a block of its type), `ListsInOrder`, `BlocksInOrder` and `BlocksInUse` (no
empty block, only the first one in progress). `Exclusive` alone is not inductive: that a
head handed out now conflicts with nothing needs to know that everything older is in
front of it, which is what the order of lists and blocks says, and that a key of a block
stands for one queue. From `Inv`, `MutualExclusion` proves `[]Exclusive`, and `Refinement` that
every step maps to a step of `OrderedDispatch` or a stutter: `Add` to an arrival, `Get` to
a start (the guard is where the order of the blocks is used), `Ack` to a finish (where
`ListsInOrder` shows that exactly one item disappears).

**`AmqpQueueProofs`** (any finite number of connections and every limit and bound;
`AmqpBounds`). `AcksAreSafe` proves `[]AckedUntilReconnected`, `NoneIsOvertaken` proves
`[]HandledInOrder`, `ExitsBetweenHandlers` proves `GracefulExit` for `MaxSignals = 1`: a second
signal adds a second `wait()` to the group, after which the property is not meant to hold.
Neither safety property is inductive: both speak of the handlers that run, and what will run is decided by
everything behind the heads and by the line at the broker. `IInv` therefore gives every item a
*place* (block, key, position) and says that items lie where they belong (`Routed`), that `ready` and
`unacked` are in order of publication and of tags (`LineInOrder`), that a worker that listens holds
what it was delivered and has not handled (`UnackedHeld`), that for every item in any place,
not only a head, each earlier message it must follow is handled, gone, or in a place ahead of it
(`NoneOvertaken`), and that on a worker's first channel every item stands for one unacknowledged
delivery with a tag of its own (`OnThisChannel`, which is why an ack cannot hit another message before
a reconnection). `AddPlaces` and `AckPlaces` reduce what `add()` and `ack()` do to one new place and to a
map of places that keeps what is ahead of what; each step is then followed once at the broker and
once in the places. The proof refuted an earlier form of `HandledInOrder`, that everything
earlier *is handled*: with four messages and two faults, more than the run's instance, a stale tag acknowledges a message
whose only copy dies with the worker, and a later one is handled. What holds, and
is now stated, excepts messages of which neither broker nor worker has a copy.

**`IpcQueueProofs`** (any number of messages, crashes and stops; `IpcBounds`). `NothingLostOrDoubled`
proves `[]OnePlace`, `CrashCostsOne` proves `[]AtMostOneLostPerCrash`. The loss may come after the crash
that causes it, when the request of a dead worker is answered; the invariant (`PaidFor`) counts the
requests that no living worker waits for with the losses, and needs to know that a worker has one
request at most, in the pipe or waiting (`AskedOnce`, `OneAtATime`). `Placed` says of the six places a message may be in
that each message is in one of them once; `MovedStaysPlaced` and `PutStaysPlaced`
follow a message from the head of one to the end of another.

**`ConnectionStatesProofs`** (any clients, any number of faults; `StatesAssumption`).
`AuthenticatedStayKnown` proves `[]KnownWhileLive`, `LiveAreNeverForgotten` proves `NeverForgetsLive`.
The invariant has to speak of the events on their way: an event that denies an open socket (its
close, a list of the active sockets without it, a reset) is older than the announcement of that socket, which
is still behind it in the queue (`DeniesOnlyOlder`), each socket is announced once (`AnnouncedOnce`), and
nothing is known, stored or waiting in a destroyed state's timer before that (`KnownOnceAnnounced`,
`GhostsGone`). `Saved` adds what a crash must find: what has to survive is in memory, and in its row or
about to be written by a timer of a worker that runs.

**`MessageStoreProofs`, the store** (any users, buffers and texts, any kinds of message, any batch and chunk, any
bounds; `StoreAssumption`). One invariant, `IInv`, for six results: `TypeCorrect`; `CacheIsSound` and `RowsReadBack`
(`CacheAgrees`, `ReadsBack`, until a transaction is rolled back after its lookups); `NoStringLeftBehind`
(`CollectsOrphans`, but for what `missed` says was forgotten); `BusyCostsOne` (`AtMostOneLostPerBusy`); `RetainsTheRest`
(`OnlyRetainedDeleted`, of the steps other than the deletion of a user, which removes rows of any buffer, as it
should). It says that `data` is a table with bounded ids and one row for each string, that the cache leads to the
strings in it and every row to its own (`Sound`, under the condition that none was rolled back), that the waiting
messages carry their numbers in the history (`Numbered`), and
what the retention task may hold in which phase (`OffIsDone`, `BufsNameBuffers`: the temp table still
names buffers of the retained kind after every await). The interesting steps are `Collect`, where the ids
that disappear are referred to by no row and the cache is emptied when there are any, so that an
id given out again is never a cached one, and the writes between two chunks, in which a string is added only
for the row that refers to it, whichever lookups fail (`LookupsGrow`): a lookup that finds the lock taken adds nothing, and
after one that added something none does. The condition on `ReadsBack` is needed: after a rollback the cache and
the rows are wrong, which is what `MCStoreStaleId` shows.

**`NetworksProofs`** (`NetworksAssumption`: any clients, any nonempty set of networks, any bounds, handlers that
interleave or do not). `Invariance` proves `IInv`, and from it follow all four properties of the run.
`OneToFind` needs that `makeUpstream()` looks for a connection in the same
synchronous step that makes one, and that a connection changes its network only where `moved` notes it (`AtMostOne`).
`SettingsAreKept` needs that a handler that finds the value it had read writes what it was given, or has nothing to
write (`SameValues`). `DeletedHasNone` (`GoneUnlessRaced`) is about deletions across two awaits. Its
invariant says what a handler in each of its places knows about the row it read (`RowsRead`, `Handlers`),
that between the close and the removal of the row nobody but a handler counted in `raced` can make
the connection again (`ClosedUp`), and that objects out of use have neither a network nor a timer
(`UnusedClean`, `RetryDown`). `ClientsAreTold` (`ToldUntilRestart`) says of each network that the last state
message that was made, if it still waits and no later one could be, or else the clients' view, unless the last message
sent was an overtaken one, is the truth (`LastTold`): a note that is sent from any place of `notes` leaves that so, because
`overtaken` counts those in front of the last one sent. For this the events
on their way from the sockets process have to agree with its sockets (`EventsAgree`): an `existing`, which
tells nobody, arrives before a restart only at connections that are already known to be up. Nothing is assumed
about whom a client connects: what the cached connection does is in `moved`.

**`UpstreamProofs`, the capabilities** (`CapAssumption`: any capabilities and wishes, any server that refuses or does
not, any bounds). `TypeCorrect`, `KnowsWhatIsEnabled` (`[]CapsInSyncUnlessNew`) and `LogsInFirst`
(`LoginBeforeRegistration`). The first property speaks of a quiet connection, so its invariant has to say what
the worker *will* know once it has handled the lines on their way (`StaysInSync`): from the moment
the server is about to handle CAP END, either a LIST reply is the last line that replaces what is known, and what it names
less what later DELs withdraw is what is enabled, or an ACK will be late. That
needs the lines of a reply to be neighbours (`Pairs`), what is in `tempData` to belong to the
next line (`PartialIsNext`, where `cut` comes in), END to be preceded by LIST
(`EndAfterList`), and the end of the MOTD to follow exactly the END that was waited for (`HeldUntilEnd`). The second
needs that until END only one thing is under way between the two (`OneAtATime`, which an early NEW
breaks), and that when SASL is enabled this thing is its ACK, the login, or the end after it (`LoginIsDue`).

**`UpstreamLinkProofs`** (any number of sockets and events, of any kinds; `LinkBounds`). `TypeCorrect`,
`OneConnection` (`[]OneSocketPerTurn`) and `NotRegisteredTooEarly` (`[]RegisteredWhenLeftAlone`). The invariant
has a part for each of the circumstances the two properties speak of. Without commands little is needed: no socket
is ever ended, and the sockets layer finds the only one inside (`Commandless`), for a socket gets one turn and is
disposed of once (`TurnsFollow`). With commands to a worker that lives, a request to close overtakes nothing
but may meet a later socket than the one it was meant for, which is what has to be excluded: the worker asks for a close only
when it believes the connection is up, and what it believes is right once it has read what is on its way
(`BelievesConnected`, for which an `existing` on its way must confirm what was told before it); a connection whose
registration is to come stays until it gets it (`RegistersNext`); and so a close meets
the connection it was made for or none (`ClosesTheRightOne`), which keeps the sockets inside to one (`OneInside`).
The second property needs that a connection that is left alone has one attempt under way,
as a request, a socket, its close or a timer (`OneAttempt`), and that whoever takes it for registered will read of its
close if it is not (`RegisteredOrClosed`). These parts are predicates on queues, `Once`, `NoneBehind`, `Followed`,
`Separated` and `Confirms`, each with a lemma for a line that is read and one for a line that is written.
The proof showed that the model was too kind: it let the server drop only connections that were registered.
With those lost earlier (`abort`), `OneSocketPerTurn` needs the exception named in section 3.

**`WorkerProofs`, the clients** (`SessionAssumption`: any clients of any kinds, any bounds). `BurstsOnce`
(`[]OneBurst`), `EveryClientReached` (`[]ReachesEveryClient`) and `NobodyAwayWithClients`
(`[]NeverAwayWithClients`). The second is nearly inductive: it needs to know that a handler that waits
belongs to a client that is here and that nobody is registered, or given a burst, before he has logged
in (`LoginsAgree`), and that a call which waits is for one who is linked or has left (`CallsReach`). The first is
about the calls that wait and the events on their way. A client's bursts and its waiting calls together are one more, at
most, than the calls that waited when the connection opened (`BurstsCounted`), and none more while `receivedMotd` is
cleared (`Unburst`), so that the end of the MOTD may add one. `MotdsAreFirst` says of every end that is on its way, and of
the one the server still has to send, that before it the bursts are counted anew by an `open` with no close behind it,
or that they are as `Unburst` says and no close comes first (`BurstsAre`). The third needs that the server shows the user
as away only after a worker has noted it, on a connection that listens (`AwayIsNoted`). What the lines that are
run before a registration leave in `reg.state` was a fold over the queue, which a proof cannot follow
step by step; `Registering` now says it at once, and TLC found the same states as before.

**`UpstreamProofs`, the channels** (`ViewAssumption`: any channels and nicks, any bounds).
`StopsKeepChannels` proves `[]AgreesUntilLate`, `ListsMakeKnown` proves `[]KnownOnceListedAgain`. Both speak of
a moment when no line is on its way, and the worker is nearly always behind. The invariant (`Tracked`)
therefore has, for every channel, what the user *saw* of it before each of the lines on
their way, a sequence that ends with what he sees now (`Trajectory`), each line taking it from one
sight to the next (`Explains`), and compares the worker's view with the first of these (`Follows`). A step
of the server adds lines that explain what it changed (`Tells`), one of the worker takes the first
away, for which each handler must do to the view what the line says of the sight. The rest is what is
special about NAMES: a list has its end behind it (`ListsEnd`), a user's own JOIN its list (`ListNext`),
and a worker that has seen an end, and no list begin since, has none open that a new one would be merged into (`NoListOpen`),
which is what `synced` and `began` are for. A channel that is known exactly stays so when a bare NAMES list is merged into
it, which names nobody who is not in it. `Saved` says what the row has when nothing is marked:
the JOINs of others and the modes that no handler marks are not in it, the nick and the
channels that are joined are.

**`MessageStoreProofs`, the history** (`HistoryAssumption`: any client ids, any limits, any size of a dump and of the day's
window, any bounds). `PlainClientMissesNothing` (`[]MissesNothing`), `WebClientHasNoHole`
(`[]HistoryIsWhole`) and `UnreadIsCounted` (`[]UnreadIsExact`). The first needs little: what is owed to a client
that is away is not older than its mark (`OwesNothing`), so that the dump asks for it; the mark stays through the dump, and
what the dump leaves out by its size or the day's window is owed no more. The second is about a client
that asks page by page, and its invariant must say how far it has come (`Asked`: up to the reference it
asks by, or to the last message it held when it left), and that the reference is a message it
holds (`AsksByHeld`): then what it does not hold and has asked for is older than all it holds
(`NoHoleSoFar`), where a page leaves out only what is beyond it (`AfterPage`, `NewestPage`). The third
compares a count by time with one by arrival, so each mark has to divide the messages by their time where
the user has read by their number (`MarksDivide`): exactly for the anchor, the second latest
message of the store when the first makes the buffer (`AnchorDivides`), and from below for the clients'
own marks, which the exception for messages of the time at which all was read makes exact. The count of a user who
has never read rests on what `NthLatest` returns for messages that have an order (`NthIsExact`).

**Only model-checked.** All liveness (`EveryItemFinishes`, `EventuallyHandled`, `EveryMessageEnds`, `ZombiesGo`,
`QueueDrains`, `StaysUp`, `LearnsOfRegistration`, `RegistrationEnds`, `LoginsEnd`): it needs fairness and so `ENABLED`,
which the provers cannot reason about. The violations of section 3 stay with TLC
too: they are counterexamples on an instance and need no proof.

## 5. What is not modelled

* Sending from the worker over AMQP (`_send()` and its single retry) and the parent side of the
  IPC pipe from the worker: in `UpstreamLink` that direction is a FIFO that loses nothing.
* WHO routing (`connectionoutgoing.js:199`) and the reply router: planned.
* The forwarding of lines, message tags, CTCP, topics, away texts, ISUPPORT, notify levels and
  settings of buffers, tokens, passwords and accounts: formatting and single statements.
* `users.max_networks` is counted before an await and enforced after it: `Networks` has the two
  steps, but no property says that the limit may be exceeded.
* BOUNCER ADDNETWORK and CHANGENETWORK in `Networks` leave out what only decides the text of the
  answer: ADDNETWORK without a port is refused as invalid, and CHANGENETWORK applies `notify` to the
  buffers of the client's own network. `*bnc CONNECT` on a network that was deleted meanwhile throws
  outside every `try`, and ends the worker (the action `Dies`).
* A second process's own retention task on the same database; in `History`, messages the user sends
  himself, channels (where a message comes the same way), and a restart, which takes marks back.
* A graceful shutdown does not wait for the store's write queue; the restart of `MessageStore`
  therefore empties it.
* The throttler, TLS handshakes, timeouts inside a connection attempt, listening sockets,
  logging, statistics, lines written to a socket before it is connected, the flat file store, hooks, the HTTP API and the other extensions.

## 6. Plan

1. `WhoRouting`: the queue of clients that wait for WHO answers and the reply router, with
   clients that leave and servers that answer late. Abstract specification: every answer
   goes to the client that asked.
2. The worker's sending side of the AMQP queue, and a composition of queue and link.
