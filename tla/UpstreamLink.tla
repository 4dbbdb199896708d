---------------------------- MODULE UpstreamLink ----------------------------
(***************************************************************************)
(* One network connection, across the processes that take part in it: the  *)
(* worker's ConnectionOutgoing and its persisted row, the sockets layer's  *)
(* SocketConnection objects, the two queues between them, and the IRC      *)
(* server.  Modelled: opening and the connection throttle, registration,   *)
(* loss of the connection and the reconnection timer, the user's connect   *)
(* and disconnect commands, the debounced save of the state, and a worker  *)
(* that dies and reloads it while the sockets stay open.                   *)
(*                                                                         *)
(* All socket objects of the connection have its id; a socket is named by  *)
(* the order in which they were created.  A worker's death and the start   *)
(* of the next one are one step: what happens in between is what may       *)
(* happen before the new worker reads its first message.  The lines of a   *)
(* registration (CAP, NICK, USER), the server's 001 to 376 and the JOINs   *)
(* are one message each.                                                   *)
(***************************************************************************)
EXTENDS Naturals, Sequences, FiniteSets

CONSTANTS MaxSocks,    \* bound: sockets ever created
          MaxEvents,   \* bound: drops, failed attempts, crashes, stops and commands
          Kinds        \* which of those there are: drop (of a connection that is registered),
                       \* abort (of one that is not yet), fail, crash, stop, command

ASSUME LinkBounds ==
    /\ MaxSocks \in Nat /\ MaxEvents \in Nat
    /\ Kinds \subseteq {"drop", "abort", "fail", "crash", "stop", "command"}

VARIABLES
    state,      \* the worker's ConnectionState
    dirty,      \* state._dirty: the save timer runs
    row,        \* the persisted row
    timers,     \* reconnection timers that run
    toSockets,  \* worker to sockets layer
    toWorker,   \* sockets layer to worker
    sock,       \* per socket: "unused", "waiting" (throttled), "connecting", "open", "gone",
                \* "failed" (gone before it was open: its flag `connecting` stays set)
    cons,       \* the socket cons.get(id) finds, 0 for none
    turns,      \* per socket: throttledConnect() calls whose turn has not come
    disposed,   \* sockets that have emitted "dispose": nobody listens to the next
    buffered,   \* sockets whose write buffer holds the registration
    ended,      \* sockets that sock.end() was called on
    ircd,       \* per socket, at the server: "new", "registering", "registered", "joined"
    repeated,   \* history: a socket that waited for its turn was given another one
    events,     \* history: how many of them there have been
    happened    \* history: and of which kinds

listed == <<cons, turns, repeated>>
layer == <<sock, listed, disposed, buffered, ended, ircd>>
world == <<events, happened>>
vars == <<state, dirty, row, timers, toSockets, toWorker, layer, world>>

Socks == 1..MaxSocks
Flags == {"connected", "netRegistered", "receivedMotd", "reconnecting", "requestedClose",
          "shouldBeJoined"}

\* The world does e once more.
Happens(e) ==
    /\ e \in Kinds /\ events < MaxEvents
    /\ events' = events + 1
    /\ happened' = happened \union {e}

\* A worker whose row says which channels should be joined, as after a restart of both
\* processes, has called open().
Init ==
    /\ state = [f \in Flags |-> f = "shouldBeJoined"] /\ dirty = FALSE /\ row = state
    /\ timers = 0
    /\ toSockets = <<"open">> /\ toWorker = <<>>
    /\ sock = [s \in Socks |-> "unused"] /\ cons = 0
    /\ turns = [s \in Socks |-> 0] /\ repeated = FALSE
    /\ disposed = {} /\ buffered = {} /\ ended = {}
    /\ ircd = [s \in Socks |-> "new"]
    /\ events = 0 /\ happened = {}

----------------------------------------------------------------------------
(* The worker.                                                             *)

\* state := new, and markDirty().
Set(new) == state' = new /\ dirty' = TRUE

\* reconnect(): the attempt is noted and the timer started.
Reconnect(st) ==
    /\ Set([st EXCEPT !["reconnecting"] = TRUE])
    /\ timers' = timers + 1

\* onUpstreamConnected()
OnOpen ==
    /\ Set([state EXCEPT !["connected"] = TRUE, !["netRegistered"] = FALSE,
                         !["receivedMotd"] = FALSE, !["reconnecting"] = FALSE])
    /\ toSockets' = Append(toSockets, "register")
    /\ UNCHANGED timers

\* A plausible bug: an existing connection is opened afresh.
OnExistingAsNew ==
    /\ Set([state EXCEPT !["connected"] = TRUE, !["netRegistered"] = FALSE,
                         !["receivedMotd"] = FALSE])
    /\ UNCHANGED <<timers, toSockets>>

\* The listener of connection.existing.
OnExisting ==
    /\ Set([state EXCEPT !["connected"] = TRUE, !["netRegistered"] = TRUE,
                         !["receivedMotd"] = TRUE])
    /\ UNCHANGED <<timers, toSockets>>

\* A plausible bug: the flags are reset before they are looked at.
OnCloseResetFirst ==
    /\ Set([f \in Flags |-> f = "reconnecting" /\ state[f]])
    /\ UNCHANGED <<timers, toSockets>>

\* A plausible bug: the flags of the closed connection are left as they are.
OnCloseKeepingFlags ==
    /\ IF state["connected"] /\ state["netRegistered"] /\ ~state["requestedClose"]
       THEN Reconnect(state)
       ELSE Set(state) /\ UNCHANGED timers
    /\ UNCHANGED toSockets

\* onUpstreamClosed(): every flag but 'reconnecting' is reset, leave() included.
OnClose ==
    LET should == state["connected"] /\ state["netRegistered"] /\ ~state["requestedClose"]
        closed == [f \in Flags |-> f = "reconnecting" /\ state[f]]
    IN  /\ \/ state["reconnecting"] /\ Reconnect(state)
           \/ ~state["reconnecting"] /\ should /\ Reconnect(closed)
           \/ ~state["reconnecting"] /\ ~should /\ Set(closed) /\ UNCHANGED timers
        /\ UNCHANGED toSockets

\* The commands 001 to 376: channels are joined when the first MOTD ends.
OnWelcome ==
    /\ Set([state EXCEPT !["netRegistered"] = TRUE, !["receivedMotd"] = TRUE])
    /\ toSockets' = IF ~state["receivedMotd"] /\ state["shouldBeJoined"]
                    THEN Append(toSockets, "join") ELSE toSockets
    /\ UNCHANGED timers

WorkerHandles ==
    /\ toWorker # <<>>
    /\ toWorker' = Tail(toWorker)
    /\ CASE Head(toWorker) = "open"     -> OnOpen
         [] Head(toWorker) = "existing" -> OnExisting
         [] Head(toWorker) = "close"    -> OnClose
         [] Head(toWorker) = "welcome"  -> OnWelcome
    /\ UNCHANGED <<row, layer, world>>

\* The reconnection timer.
TimerFires ==
    /\ timers > 0
    /\ timers' = timers - 1
    /\ toSockets' = IF state["connected"] THEN toSockets ELSE Append(toSockets, "open")
    /\ UNCHANGED <<state, dirty, row, toWorker, layer, world>>

\* The debounced save.
Save ==
    /\ dirty
    /\ row' = state
    /\ dirty' = FALSE
    /\ UNCHANGED <<state, timers, toSockets, toWorker, layer, world>>

\* A new worker: reconcileOutgoingConnections() and loadConnections().
Restart(persisted) ==
    /\ row' = [persisted EXCEPT !["connected"] = FALSE]
    /\ state' = row'
    /\ dirty' = FALSE
    /\ timers' = 0
    /\ toSockets' = Append(toSockets, "open")
    /\ UNCHANGED layer

\* The worker dies; over IPC the message on its way to it dies too.
Crash ==
    /\ Happens("crash")
    /\ Restart(row)
    /\ toWorker' \in {toWorker} \union (IF toWorker = <<>> THEN {} ELSE {Tail(toWorker)})

\* prepareShutdown() saves what is dirty before the worker exits.
Stop ==
    /\ Happens("stop")
    /\ Restart(state)
    /\ UNCHANGED toWorker

\* The user's connect command, or a client that logs in to the network.
UserConnects ==
    /\ Happens("command")
    /\ ~state["connected"]
    /\ toSockets' = Append(toSockets, "open")
    /\ UNCHANGED <<state, dirty, row, timers, toWorker, layer>>

\* The user's disconnect command: close().
UserDisconnects ==
    /\ Happens("command")
    /\ state["connected"]
    /\ Set([state EXCEPT !["requestedClose"] = TRUE])
    /\ toSockets' = Append(toSockets, "close")
    /\ UNCHANGED <<row, timers, toWorker, layer>>

----------------------------------------------------------------------------
(* The sockets layer.                                                      *)

\* The server gets a line on socket s; a registration it has already got is nothing new.
ServerGets(s, line) ==
    ircd' = [ircd EXCEPT ![s] =
                CASE line = "register" /\ @ = "new"    -> "registering"
                  [] line = "join" /\ @ = "registered" -> "joined"
                  [] OTHER                             -> @]

\* A new SocketConnection is made and listed, and waits for its turn.
NewSocket ==
    \E s \in Socks :
        /\ sock[s] = "unused" /\ \A r \in Socks : r < s => sock[r] # "unused"
        /\ sock' = [sock EXCEPT ![s] = "waiting"]
        /\ turns' = [turns EXCEPT ![s] = 1]
        /\ cons' = s

\* A plausible bug: only an open connection is looked for.
SocketsOpenUnlessConnected ==
    \/ /\ cons # 0 /\ sock[cons] = "open"
       /\ toWorker' = Append(toWorker, "existing")
       /\ UNCHANGED <<sock, listed>>
    \/ /\ ~(cons # 0 /\ sock[cons] = "open")
       /\ NewSocket
       /\ UNCHANGED <<toWorker, repeated>>

\* connection.open: a socket that waits for its turn is given a second one.
SocketsOpen ==
    \/ /\ cons # 0 /\ sock[cons] = "open"
       /\ toWorker' = Append(toWorker, "existing")
       /\ UNCHANGED <<sock, listed>>
    \/ /\ cons # 0 /\ sock[cons] = "connecting"
       /\ UNCHANGED <<sock, listed, toWorker>>
    \/ /\ cons # 0 /\ sock[cons] = "waiting"
       /\ turns' = [turns EXCEPT ![cons] = @ + 1]
       /\ repeated' = TRUE
       /\ UNCHANGED <<sock, cons, toWorker>>
    \/ /\ cons = 0
       /\ NewSocket
       /\ UNCHANGED <<toWorker, repeated>>

\* connection.close: the socket ends, if there is one yet, and is forgotten at once.
SocketsClose ==
    /\ ended' = IF cons # 0 /\ sock[cons] # "waiting" THEN ended \union {cons} ELSE ended
    /\ cons' = 0

\* connection.data: written, or buffered until the socket is connected, or dropped.
SocketsWrite(line) ==
    \/ /\ cons # 0 /\ sock[cons] = "open"
       /\ ServerGets(cons, line)
       /\ UNCHANGED buffered
    \/ /\ cons # 0 /\ sock[cons] # "open"
       /\ buffered' = IF line = "register" THEN buffered \union {cons} ELSE buffered
       /\ UNCHANGED ircd
    \/ /\ cons = 0
       /\ UNCHANGED <<buffered, ircd>>

SocketsHandle ==
    /\ toSockets # <<>>
    /\ toSockets' = Tail(toSockets)
    /\ \/ /\ Head(toSockets) = "open"
          /\ SocketsOpen
          /\ UNCHANGED <<buffered, ended, ircd>>
       \/ /\ Head(toSockets) = "close"
          /\ SocketsClose
          /\ UNCHANGED <<sock, turns, repeated, buffered, ircd, toWorker>>
       \/ /\ Head(toSockets) \in {"register", "join"}
          /\ SocketsWrite(Head(toSockets))
          /\ UNCHANGED <<sock, listed, ended, toWorker>>
    /\ UNCHANGED <<state, dirty, row, timers, disposed, world>>

\* throttledConnect(): a turn has come, whether or not the socket is still wanted.
\* connect() does nothing while the socket connects or is open, nor after an attempt of it
\* has failed, since onClose() leaves `connecting` set; one that was open gets a new
\* net.Socket.
Connect(s) ==
    /\ turns[s] > 0
    /\ turns' = [turns EXCEPT ![s] = @ - 1]
    /\ \/ /\ sock[s] \in {"waiting", "gone"}
          /\ sock' = [sock EXCEPT ![s] = "connecting"]
          /\ ircd' = [ircd EXCEPT ![s] = "new"]
          /\ ended' = ended \ {s}
       \/ /\ sock[s] \in {"connecting", "open", "failed"}
          /\ UNCHANGED <<sock, ircd, ended>>
    /\ UNCHANGED <<state, dirty, row, timers, toSockets, toWorker, cons, repeated, disposed,
                   buffered, world>>

\* completeConnection()
Connected(s) ==
    /\ sock[s] = "connecting"
    /\ sock' = [sock EXCEPT ![s] = "open"]
    /\ toWorker' = Append(toWorker, "open")
    /\ IF s \in buffered THEN ServerGets(s, "register") ELSE UNCHANGED ircd
    /\ UNCHANGED <<state, dirty, row, timers, toSockets, listed, disposed, buffered, ended,
                   world>>

\* onClose(): the first "dispose" forgets whatever socket has the connection's id now.
Closed(s) ==
    /\ sock' = [sock EXCEPT ![s] = IF @ = "connecting" THEN "failed" ELSE "gone"]
    /\ cons' = IF s \in disposed THEN cons ELSE 0
    /\ disposed' = disposed \union {s}
    /\ toWorker' = Append(toWorker, "close")
    /\ UNCHANGED <<state, dirty, row, timers, toSockets, turns, repeated, buffered, ended,
                   ircd>>

ConnectFails(s) ==
    /\ sock[s] = "connecting"
    /\ Happens("fail")
    /\ Closed(s)

\* The end() of this side is answered by the other.
Ends(s) ==
    /\ sock[s] = "open" /\ s \in ended
    /\ Closed(s)
    /\ UNCHANGED world

----------------------------------------------------------------------------
(* The IRC server.                                                         *)

Welcome(s) ==
    /\ sock[s] = "open" /\ ircd[s] = "registering"
    /\ ircd' = [ircd EXCEPT ![s] = "registered"]
    /\ toWorker' = Append(toWorker, "welcome")
    /\ UNCHANGED <<state, dirty, row, timers, toSockets, sock, listed, disposed, buffered,
                   ended, world>>

\* The server, or the network in between, closes a connection.
ServerDrops(s) ==
    /\ sock[s] = "open"
    /\ Happens(IF ircd[s] \in {"registered", "joined"} THEN "drop" ELSE "abort")
    /\ Closed(s)

\* A connection that nobody is about to register is closed by the server after a while.
RegistrationTimeout(s) ==
    /\ sock[s] = "open" /\ ircd[s] = "new"
    /\ \A i \in 1..Len(toWorker) : toWorker[i] # "open"
    /\ \A i \in 1..Len(toSockets) : toSockets[i] # "register"
    /\ Closed(s)
    /\ UNCHANGED world

Next ==
    \/ WorkerHandles
    \/ TimerFires
    \/ Save
    \/ Crash
    \/ Stop
    \/ UserConnects
    \/ UserDisconnects
    \/ SocketsHandle
    \/ \E s \in Socks :
          \/ Connect(s)
          \/ Connected(s)
          \/ ConnectFails(s)
          \/ Ends(s)
          \/ Welcome(s)
          \/ ServerDrops(s)
          \/ RegistrationTimeout(s)

Spec == Init /\ [][Next]_vars

\* Both processes and the server keep running, timers fire, and a connection attempt
\* comes to an end.
Fairness ==
    /\ WF_vars(WorkerHandles) /\ WF_vars(TimerFires) /\ WF_vars(Save) /\ WF_vars(SocketsHandle)
    /\ \A s \in Socks :
          /\ WF_vars(Connect(s)) /\ WF_vars(Connected(s)) /\ WF_vars(Ends(s))
          /\ WF_vars(Welcome(s)) /\ WF_vars(RegistrationTimeout(s))

FairSpec == Spec /\ Fairness

----------------------------------------------------------------------------

TypeOK ==
    /\ state \in [Flags -> BOOLEAN] /\ row \in [Flags -> BOOLEAN] /\ dirty \in BOOLEAN
    /\ timers \in Nat
    /\ toSockets \in Seq({"open", "close", "register", "join"})
    /\ toWorker \in Seq({"open", "existing", "close", "welcome"})
    /\ sock \in [Socks -> {"unused", "waiting", "connecting", "open", "gone", "failed"}]
    /\ cons \in 0..MaxSocks
    /\ turns \in [Socks -> Nat] /\ disposed \subseteq Socks /\ repeated \in BOOLEAN
    /\ buffered \subseteq Socks /\ ended \subseteq Socks
    /\ ircd \in [Socks -> {"new", "registering", "registered", "joined"}]

Live == {s \in Socks : sock[s] \in {"waiting", "connecting", "open"}} \ ended

\* There is never a second connection to the network, whatever the worker forgets when it
\* dies: the sockets layer knows the one there is.
OneLiveSocket == Live = IF cons = 0 THEN {} ELSE {cons}

\* As long as no socket is given a second turn (sockets.js:85).
OneSocketUnlessRepeated == ~repeated => OneLiveSocket

\* That is so when workers restart, and when the user gives commands to a worker that lives
\* over connections that get registered: the sockets layer always knows the one connection
\* there is. With a connection lost before that, a request to close may meet a new socket that
\* waits for its turn: close() does nothing to it, and sockets.js:117 forgets it all the same.
OneSocketPerTurn ==
    "command" \notin happened \/ happened \intersect {"abort", "crash", "stop"} = {} =>
        OneSocketUnlessRepeated

\* "netRegistered - outgoingcon = regged to the upstream irc network"
\* (connectionstate.js:171): set only when the server has welcomed the connection, as
\* long as nothing about the connection is still on its way to the worker.
RegisteredWhenWelcomed ==
    state["netRegistered"] /\ state["connected"] /\ toWorker = <<>> =>
        \E s \in Socks : sock[s] = "open" /\ ircd[s] \in {"registered", "joined"}

\* While the worker lives and the user lets the connection alone nothing marks it
\* registered too early, however it is lost.
RegisteredWhenLeftAlone == happened \subseteq {"drop", "abort", "fail"} => RegisteredWhenWelcomed

\* The connection is registered, and the worker knows.
Up ==
    /\ state["connected"] /\ state["netRegistered"]
    /\ cons # 0 /\ sock[cons] = "open" /\ ircd[cons] \in {"registered", "joined"}

\* And the user's channels are joined on it.
Online == Up /\ ircd[cons] = "joined"

\* "Stay connected to IRC" (README.md:3): a connection that was up once, and that nobody
\* asked to close, is up again in the end.
StaysConnected == (<>Up) => (<>[]Up)

\* The same of a connection that the user lets alone and whose worker lives, however often
\* the server drops it or an attempt to reconnect fails.
\* (One that is lost before it is registered is not made again: connectionoutgoing.js:285.)
StaysUp == (<>Up) /\ [](happened \subseteq {"drop", "fail"}) => (<>[]Up)

\* And of its channels, which 376 joins when they should be joined.
StaysOnline == (<>Online) /\ [](happened \subseteq {"drop", "fail"}) => (<>[]Online)

\* A worker finds out about a connection that is registered at the server, even when the
\* welcome died with the worker before it, unless the user interferes or its socket was
\* given a second turn.
LearnsOfRegistration ==
    [](~repeated /\ "command" \notin happened) =>
        \A s \in Socks :
            sock[s] = "open" /\ ircd[s] = "registered" ~>
                (state["connected"] /\ state["netRegistered"]) \/ sock[s] = "gone"

=============================================================================
