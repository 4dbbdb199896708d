------------------------------ MODULE Networks ------------------------------
(***************************************************************************)
(* A user's networks: their rows, the connections (ConnectionOutgoing)     *)
(* that the worker's dictionary has for them, and what the clients that    *)
(* speak BOUNCER were told of them.  The commands BOUNCER CONNECT,         *)
(* DISCONNECT, ADDNETWORK, CHANGENETWORK, DELNETWORK and LISTNETWORKS,     *)
(* their counterparts in *bnc, and the end of a login.                     *)
(*                                                                         *)
(* A handler is a sequence of steps that end where it awaits the database. *)
(* Over AMQP the handlers of different clients interleave, over IPC they   *)
(* run one at a time; open(), its timers, the makeUpstream() of *bnc       *)
(* CONNECT and the messages about a network's state are not awaited by     *)
(* anyone and interleave with all.                                         *)
(* A connection is registered as soon as it is open (UpstreamLink has the  *)
(* rest), and every state is saved in time (ConnectionStates).             *)
(***************************************************************************)
EXTENDS Naturals, Sequences, FiniteSets

CONSTANTS Clients, Nets,
          Objects,      \* numbers of the connections that can be made
          MaxNetworks,  \* users.max_networks
          Parallel,     \* the handlers of different clients interleave (AMQP)
          MaxOps, MaxDrops, MaxRestarts  \* bounds: commands, closed sockets, restarts

None == "none"
NoObject == 0
Values == {0, 1}    \* what a column can be set to; it is 0 at first

ASSUME NetworksAssumption ==
    /\ Nets # {} /\ None \notin Nets
    /\ MaxNetworks \in Nat /\ MaxOps \in Nat /\ MaxDrops \in Nat /\ MaxRestarts \in Nat
    /\ Objects \subseteq Nat \ {NoObject} /\ Parallel \in BOOLEAN

VARIABLES
    rows,       \* networks that are in the database
    vals,       \* the columns of their rows
    up,         \* connections: network, in the dictionary, flags
    pend,       \* what an open() or a reconnection timer of a connection waits for
    sock,       \* the sockets layer: a connection's socket
    events,     \* events on their way to the worker
    notes,      \* "BOUNCER state" messages of a network that wait for the database
    netOf,      \* the network a client is attached to
    cached,     \* cachedUpstreamId of a client
    run,        \* the handler of a client: command, network, where it waits, what it read
    making,     \* what the makeUpstream() of a client's *bnc CONNECT waits for
    view,       \* what a client was told: is a network connected?
    created,    \* history: networks that were ever in the database
    last,       \* history: the last value that was given to a column
    clash,      \* history: columns whose last value a handler gave that had read an old one
    raced,      \* history: networks deleted while another handler was to connect them
    moved,      \* history: networks of which one has taken a connection of the other
    overtaken,  \* history: how many of the first notes of a network a later one has overtaken
    behind,     \* history: networks of which an overtaken note was the last to be sent
    restarted,  \* history
    ops, drops, restarts

dictionary == <<up, pend>>
outside == <<sock, events>>
users == <<rows, vals, created, last, clash>>
messages == <<notes, overtaken, behind>>
clients == <<netOf, cached>>
past == <<raced, moved>>
bounds == <<restarted, ops, drops, restarts>>
vars == <<users, dictionary, outside, messages, clients, run, making, view, past, bounds>>

Cols == {"host", "nick"}
Commands == {"login", "connect", "disconnect", "add", "change", "delete"}
Idle == [op |-> None, net |-> None, at |-> None, col |-> None, row |-> <<>>]
Unused == [net |-> None, in |-> FALSE, connected |-> FALSE, requested |-> FALSE, retry |-> FALSE]

Init ==
    /\ rows = {CHOOSE n \in Nets : TRUE}
    /\ created = rows
    /\ vals = [n \in Nets |-> [k \in Cols |-> 0]] /\ last = vals /\ clash = {}
    /\ up = [o \in Objects |-> Unused] /\ pend = [o \in Objects |-> None]
    /\ sock = [o \in Objects |-> None] /\ events = <<>>
    /\ notes = [n \in Nets |-> <<>>] /\ overtaken = [n \in Nets |-> 0] /\ behind = {}
    /\ netOf = [c \in Clients |-> None] /\ cached = [c \in Clients |-> NoObject]
    /\ run = [c \in Clients |-> Idle] /\ making = [c \in Clients |-> None]
    /\ view = [c \in Clients |-> [n \in Nets |-> FALSE]]
    /\ raced = {} /\ moved = {} /\ restarted = FALSE
    /\ ops = 0 /\ drops = 0 /\ restarts = 0

----------------------------------------------------------------------------
(* Connections.                                                            *)

Find(n) == {o \in Objects : up[o].in /\ up[o].net = n}

\* findUsersOutgoingConnection(): one of those there are, or none
Found(n) == IF Find(n) = {} THEN {NoObject} ELSE Find(n)
IsUp(o) == o \in Objects /\ up[o].connected
Connected(n) == \E o \in Find(n) : up[o].connected

\* The getter `upstream` of a client: the connection that was found before, as long as it is
\* in the dictionary and whatever network it now has, else the one that is found, which is
\* cached.
Upstream(c) ==
    IF netOf[c] = None THEN {NoObject}
    ELSE IF cached[c] \in Objects /\ up[cached[c]].in THEN {cached[c]}
    ELSE Found(netOf[c])
Caches(c, o) == cached' = [cached EXCEPT ![c] = o]

Fresh == {o \in Objects : up[o] = Unused /\ pend[o] = None /\ sock[o] = None}
NewObject == {o \in Fresh : \A p \in Fresh : o <= p}

\* A plausible bug: makeUpstream() always makes a connection.
ObjectForNew(u) == NewObject

\* makeUpstream(): the client's own connection, else a new one.
ObjectFor(u) == IF u = NoObject THEN NewObject ELSE {u}

\* A call of open(); one that waits already stands for both.
Opening(o) == [pend EXCEPT ![o] = IF @ = None THEN "load" ELSE @]

Deleting(n) == \E d \in Clients : run[d].op = "delete" /\ run[d].net = n /\ run[d].at = "drop"

\* makeUpstream() for network n
Make(c, n) ==
    /\ \E u \in Upstream(c) : \E o \in ObjectFor(u) :
          /\ Caches(c, u)
          /\ up' = [up EXCEPT ![o].net = n, ![o].in = TRUE]
          /\ pend' = Opening(o)
          /\ moved' = IF up[o].net \in {None, n} THEN moved ELSE moved \union {up[o].net, n}
    /\ raced' = IF Deleting(n) THEN raced \union {n} ELSE raced
    /\ UNCHANGED outside

\* ConnectionOutgoing.close(): the sockets layer closes what there is to close.
CloseThen(o, flags) ==
    /\ up' = [up EXCEPT ![o] = flags]
    /\ sock' = [sock EXCEPT ![o] = None]
    /\ events' = IF sock[o] = None THEN events ELSE Append(events, [ev |-> "close", o |-> o])
    /\ UNCHANGED pend

\* open(): the row of the network is read, which may be gone,
Load(o) ==
    /\ pend[o] = "load"
    /\ pend' = [pend EXCEPT ![o] = IF up[o].net \in rows THEN "send" ELSE None]
    /\ UNCHANGED <<users, up, outside, messages, clients, run, making, view, past, bounds>>

\* and after more of the database and the hooks, connection.open is sent.
SendOpen(o) ==
    /\ pend[o] = "send"
    /\ pend' = [pend EXCEPT ![o] = None]
    /\ sock' = [sock EXCEPT ![o] = IF @ = None THEN "opening" ELSE @]
    /\ events' = IF sock[o] = "open" THEN Append(events, [ev |-> "existing", o |-> o]) ELSE events
    /\ UNCHANGED <<users, up, messages, clients, run, making, view, past, bounds>>

\* The reconnection timer of a connection, whatever became of it.
Timer(o) ==
    /\ pend[o] = "timer"
    /\ pend' = [pend EXCEPT ![o] = IF up[o].connected THEN None ELSE "load"]
    /\ UNCHANGED <<users, up, outside, messages, clients, run, making, view, past, bounds>>

Connects(o) ==
    /\ sock[o] = "opening"
    /\ sock' = [sock EXCEPT ![o] = "open"]
    /\ events' = Append(events, [ev |-> "open", o |-> o])
    /\ UNCHANGED <<users, dictionary, messages, clients, run, making, view, past, bounds>>

Drops(o) ==
    /\ sock[o] # None
    /\ drops < MaxDrops /\ drops' = drops + 1
    /\ sock' = [sock EXCEPT ![o] = None]
    /\ events' = Append(events, [ev |-> "close", o |-> o])
    /\ UNCHANGED <<users, dictionary, messages, clients, run, making, view, past, restarted, ops,
                   restarts>>

\* sendConnectionState(): the text is fixed, then the row of the network is read.
Notes(o, state) ==
    /\ notes' = [notes EXCEPT ![up[o].net] = Append(@, state)]
    /\ UNCHANGED <<overtaken, behind>>

OnOpen(o) ==
    /\ up' = [up EXCEPT ![o].connected = TRUE, ![o].retry = FALSE]
    /\ Notes(o, TRUE)
    /\ UNCHANGED pend

\* connection.existing: nobody is told.
OnExisting(o) ==
    /\ up' = [up EXCEPT ![o].connected = TRUE]
    /\ UNCHANGED <<pend, messages>>

\* A plausible bug: the clients are told only of a connection that is not made again.
OnCloseQuiet(o) ==
    LET retries == up[o].retry \/ (up[o].connected /\ ~up[o].requested)
    IN  /\ up' = IF up[o].retry THEN up
                 ELSE [up EXCEPT ![o].connected = FALSE, ![o].requested = FALSE,
                                 ![o].retry = retries]
        /\ pend' = IF retries /\ pend[o] = None THEN [pend EXCEPT ![o] = "timer"] ELSE pend
        /\ IF retries THEN UNCHANGED messages ELSE Notes(o, FALSE)

\* onUpstreamClosed()
OnClose(o) ==
    LET retries == up[o].retry \/ (up[o].connected /\ ~up[o].requested)
    IN  /\ up' = IF up[o].retry THEN up
                 ELSE [up EXCEPT ![o].connected = FALSE, ![o].requested = FALSE,
                                 ![o].retry = retries]
        /\ pend' = IF retries /\ pend[o] = None THEN [pend EXCEPT ![o] = "timer"] ELSE pend
        /\ IF up[o].retry THEN UNCHANGED messages ELSE Notes(o, FALSE)

WorkerEvent ==
    /\ events # <<>>
    /\ events' = Tail(events)
    /\ LET e == Head(events)
       IN  \/ ~up[e.o].in /\ UNCHANGED <<dictionary, messages>>
           \/ up[e.o].in /\ e.ev = "open" /\ OnOpen(e.o)
           \/ up[e.o].in /\ e.ev = "existing" /\ OnExisting(e.o)
           \/ up[e.o].in /\ e.ev = "close" /\ OnClose(e.o)
    /\ UNCHANGED <<users, sock, clients, run, making, view, past, bounds>>

Without(q, i) == [j \in 1..(Len(q) - 1) |-> IF j < i THEN q[j] ELSE q[j + 1]]

\* The row of network n was read for one of the messages, in whatever order the answers of
\* the database come: all clients of the user are told, if the network is there.
Note(n) ==
    /\ \E i \in 1..Len(notes[n]) :
          /\ notes' = [notes EXCEPT ![n] = Without(@, i)]
          /\ view' = IF n \in rows
                     THEN [c \in Clients |-> [view[c] EXCEPT ![n] = notes[n][i]]]
                     ELSE view
          /\ overtaken' = [overtaken EXCEPT ![n] = IF i <= @ THEN @ - 1 ELSE i - 1]
          /\ behind' = IF i <= overtaken[n] THEN behind \union {n} ELSE behind \ {n}
    /\ UNCHANGED <<users, dictionary, outside, clients, run, making, past, bounds>>

----------------------------------------------------------------------------
(* Commands.                                                               *)

\* Whatever a client sends on, or is sent, looks at its upstream.
Looks(c) ==
    /\ \E u \in Upstream(c) : u # cached[c] /\ Caches(c, u)
    /\ UNCHANGED <<users, dictionary, outside, messages, netOf, run, making, view, past, bounds>>

Free(c) == run[c] = Idle /\ (Parallel \/ \A d \in Clients : run[d] = Idle)

Command(c, op, n) ==
    /\ Free(c) /\ ops < MaxOps
    /\ \/ op = "login" /\ netOf[c] = None
       \/ op = "connect"
       \/ op = "add" /\ n \notin created /\ \A d \in Clients : run[d].net # n
       \/ op \in {"disconnect", "change", "delete"} /\ n \in created
    /\ \E k \in Cols :
          /\ op # "change" => k = "host"
          /\ run' = [run EXCEPT ![c] = [op |-> op, net |-> n, at |-> "read", col |-> k,
                                        row |-> <<>>]]
    /\ ops' = ops + 1
    /\ UNCHANGED <<users, dictionary, outside, messages, clients, making, view, past, restarted,
                   drops, restarts>>

\* LISTNETWORKS
Lists(c) ==
    /\ Free(c) /\ ops < MaxOps /\ ops' = ops + 1
    /\ run' = [run EXCEPT ![c] = [Idle EXCEPT !.op = "list", !.at = "list"]]
    /\ UNCHANGED <<users, dictionary, outside, messages, clients, making, view, past, restarted,
                   drops, restarts>>

At(c, op, at) == run[c].op = op /\ run[c].at = at
Goes(c, at) == run' = [run EXCEPT ![c].at = at]
Ends(c) == run' = [run EXCEPT ![c] = Idle]

\* The first answer of the database: a command about a network that is not there ends.
Read(c) ==
    LET n == run[c].net
    IN  /\ run[c].at = "read"
        /\ IF run[c].op = "add" THEN Goes(c, "count")
           ELSE IF n \notin rows THEN Ends(c)
           ELSE run' = [run EXCEPT ![c].at = "act",
                                   ![c].row = IF run[c].op = "change" THEN vals[n] ELSE @]
        /\ UNCHANGED <<users, dictionary, outside, messages, clients, making, view, past, bounds>>

\* open() of a connection that is not connected
Reopens(o) ==
    /\ pend' = IF up[o].connected THEN pend ELSE Opening(o)
    /\ UNCHANGED <<up, outside, past>>

\* Login, and ATTACH.
Login(c) ==
    LET n == run[c].net
    IN  /\ At(c, "login", "act")
        /\ netOf' = [netOf EXCEPT ![c] = n]
        /\ \/ Find(n) = {} /\ Make(c, n)
           \/ \E o \in Find(n) : Reopens(o) /\ Caches(c, o)
        /\ Ends(c)
        /\ UNCHANGED <<users, messages, making, view, bounds>>

\* BOUNCER CONNECT
Connect(c) ==
    LET n == run[c].net
    IN  /\ At(c, "connect", "act")
        /\ \/ Find(n) = {} /\ Make(c, n)
           \/ \E o \in Find(n) : Reopens(o) /\ UNCHANGED cached
        /\ Ends(c)
        /\ UNCHANGED <<users, messages, netOf, making, view, bounds>>

\* CONNECT of *bnc: a client that is not connected calls makeUpstream(), which nobody awaits.
BncConnect(c) ==
    /\ Free(c) /\ ops < MaxOps /\ ops' = ops + 1
    /\ netOf[c] # None /\ making[c] = None
    /\ \E u \in Upstream(c) :
          /\ Caches(c, u)
          /\ making' = IF IsUp(u) THEN making ELSE [making EXCEPT ![c] = "read"]
    /\ UNCHANGED <<users, dictionary, outside, messages, netOf, run, view, past, restarted, drops,
                   restarts>>

\* It reads the row itself,
MakeReads(c) ==
    /\ making[c] = "read"
    /\ making' = [making EXCEPT ![c] = IF netOf[c] \in rows THEN "make" ELSE "die"]
    /\ UNCHANGED <<users, dictionary, outside, messages, clients, run, view, past, bounds>>

\* and when it has gone the worker does not survive it (see Dies).
MakeUpstream(c) ==
    /\ making[c] = "make"
    /\ making' = [making EXCEPT ![c] = None]
    /\ Make(c, netOf[c])
    /\ UNCHANGED <<users, messages, netOf, run, view, bounds>>

\* BOUNCER DISCONNECT
Disconnect(c) ==
    /\ At(c, "disconnect", "act")
    /\ \E o \in Found(run[c].net) :
          IF IsUp(o) THEN CloseThen(o, [up[o] EXCEPT !.requested = TRUE])
                     ELSE UNCHANGED <<dictionary, outside>>
    /\ Ends(c)
    /\ UNCHANGED <<users, messages, clients, making, view, past, bounds>>

\* DISCONNECT of *bnc
BncDisconnect(c) ==
    /\ Free(c) /\ ops < MaxOps /\ ops' = ops + 1
    /\ \E u \in Upstream(c) :
          /\ IsUp(u) /\ Caches(c, u)
          /\ CloseThen(u, [up[u] EXCEPT !.requested = TRUE])
    /\ UNCHANGED <<users, messages, netOf, run, making, view, past, restarted, drops, restarts>>

\* Users.addNetwork(): the networks are counted,
Count(c) ==
    /\ At(c, "add", "count")
    /\ IF Cardinality(rows) >= MaxNetworks THEN Ends(c) ELSE Goes(c, "insert")
    /\ UNCHANGED <<users, dictionary, outside, messages, clients, making, view, past, bounds>>

\* then the row is inserted.
Insert(c) ==
    /\ At(c, "add", "insert")
    /\ rows' = rows \union {run[c].net} /\ created' = created \union {run[c].net}
    /\ Goes(c, "list")
    /\ UNCHANGED <<vals, last, clash, dictionary, outside, messages, clients, making, view, past,
                   bounds>>

\* A plausible bug: all columns are written.
SavedWhole(row, old, col, v) == [row EXCEPT ![col] = v]

\* DatabaseSavable: only a column whose value is not the one that was read is written.
Saved(row, old, col, v) == IF v = row[col] THEN old ELSE [old EXCEPT ![col] = v]

\* CHANGENETWORK: an UPDATE, which finds no row when the network was deleted.
Change(c) ==
    LET n == run[c].net  col == run[c].col  row == run[c].row
    IN  /\ At(c, "change", "act")
        /\ IF n \in rows
           THEN \E v \in Values :
                   /\ vals' = [vals EXCEPT ![n] = Saved(row, @, col, v)]
                   /\ last' = [last EXCEPT ![n][col] = v]
                   /\ clash' = IF row[col] = vals[n][col] THEN clash \ {<<n, col>>}
                               ELSE clash \union {<<n, col>>}
           ELSE UNCHANGED <<vals, last, clash>>
        /\ Goes(c, "list")
        /\ UNCHANGED <<rows, created, dictionary, outside, messages, clients, making, view, past,
                       bounds>>

\* DELNETWORK: a connection that is found is closed and destroyed,
Destroys(c, in) ==
    /\ At(c, "delete", "act")
    /\ \E o \in Found(run[c].net) :
          IF o \in Objects THEN CloseThen(o, [up[o] EXCEPT !.requested = TRUE, !.in = in])
                           ELSE UNCHANGED <<dictionary, outside>>
    /\ Goes(c, "drop")
    /\ UNCHANGED <<users, messages, clients, making, view, past, bounds>>

\* A plausible bug: the connection is closed and kept.
CloseUpKept(c) == Destroys(c, TRUE)
CloseUp(c) == Destroys(c, FALSE)

\* Somebody has read the row of network n and will connect it.
Connecting(n) ==
    \E d \in Clients : \/ /\ run[d].net = n /\ run[d].at = "act"
                          /\ run[d].op \in {"login", "connect"}
                       \/ netOf[d] = n /\ making[d] = "make"

\* then its row deleted.
Drop(c) ==
    LET n == run[c].net
    IN  /\ At(c, "delete", "drop")
        /\ rows' = rows \ {n}
        /\ raced' = IF Connecting(n) THEN raced \union {n} ELSE raced
        /\ Goes(c, "list")
        /\ UNCHANGED <<vals, created, last, clash, dictionary, outside, messages, clients, making,
                       view, moved, bounds>>

\* sendNetworkListToClients(): after a change to all clients, for LISTNETWORKS to one.
List(c) ==
    /\ run[c].at = "list"
    /\ \E found \in [rows -> Objects \union {NoObject}] :
          /\ \A n \in rows : found[n] \in Found(n)
          /\ view' = [d \in Clients |->
                         IF run[c].op = "list" /\ d # c THEN view[d]
                         ELSE [n \in Nets |-> IF n \in rows THEN IsUp(found[n]) ELSE view[d][n]]]
    /\ behind' = IF run[c].op = "list" THEN behind ELSE behind \ rows
    /\ Ends(c)
    /\ UNCHANGED <<users, dictionary, outside, notes, overtaken, clients, making, past, bounds>>

\* The same command of *bnc tells nobody.
Quiet(c) ==
    /\ run[c].at = "list" /\ run[c].op # "list"
    /\ Ends(c)
    /\ UNCHANGED <<users, dictionary, outside, messages, clients, making, view, past, bounds>>

Handler(c) ==
    \/ Read(c) \/ Login(c) \/ Connect(c) \/ Disconnect(c) \/ Count(c) \/ Insert(c) \/ Change(c)
    \/ CloseUp(c) \/ Drop(c) \/ List(c) \/ Quiet(c)
    \/ BncConnect(c) \/ MakeReads(c) \/ MakeUpstream(c) \/ BncDisconnect(c) \/ Looks(c) \/ Lists(c)

----------------------------------------------------------------------------

\* Another worker: connections of networks that are gone are dropped, the others opened.
Restarts ==
    LET kept == {o \in Objects : up[o].in /\ up[o].net \in rows}
    IN  /\ up' = [o \in Objects |-> IF o \in kept THEN [up[o] EXCEPT !.connected = FALSE]
                                   ELSE [up[o] EXCEPT !.in = FALSE]]
        /\ pend' = [o \in Objects |-> IF o \in kept THEN "load" ELSE None]
        /\ cached' = [c \in Clients |-> NoObject]
        /\ run' = [c \in Clients |-> Idle] /\ making' = [c \in Clients |-> None]
        /\ notes' = [n \in Nets |-> <<>>] /\ overtaken' = [n \in Nets |-> 0]
        /\ restarted' = TRUE
        /\ UNCHANGED <<users, outside, behind, netOf, view, past, ops, drops>>

Restart == restarts < MaxRestarts /\ restarts' = restarts + 1 /\ Restarts

\* An exception in makeUpstream(), which nobody awaits, ends the worker.
Dies(c) == making[c] = "die" /\ Restarts /\ UNCHANGED restarts

Next ==
    \/ \E o \in Objects : Load(o) \/ SendOpen(o) \/ Timer(o) \/ Connects(o) \/ Drops(o)
    \/ WorkerEvent \/ \E n \in Nets : Note(n)
    \/ \E c \in Clients : Handler(c) \/ Dies(c)
    \/ \E c \in Clients, n \in Nets, op \in Commands : Command(c, op, n)
    \/ Restart

Spec == Init /\ [][Next]_vars

----------------------------------------------------------------------------

TypeOK ==
    /\ rows \subseteq created /\ created \subseteq Nets
    /\ vals \in [Nets -> [Cols -> Values]] /\ last \in [Nets -> [Cols -> Values]]
    /\ up \in [Objects -> [net : Nets \union {None}, in : BOOLEAN, connected : BOOLEAN,
                           requested : BOOLEAN, retry : BOOLEAN]]
    /\ pend \in [Objects -> {None, "load", "send", "timer"}]
    /\ sock \in [Objects -> {None, "opening", "open"}]
    /\ netOf \in [Clients -> Nets \union {None}]
    /\ cached \in [Clients -> Objects \union {NoObject}]
    /\ making \in [Clients -> {None, "read", "make", "die"}]
    /\ view \in [Clients -> [Nets -> BOOLEAN]]

\* "Find an outgoing connection instance that matches the user + network info"
\* (connectiondict.js:45): there is never more than one to find, whoever logs in, connects
\* or restarts at the same time, unless a client of the network has connected another one
\* with the connection it had cached.
OneUpstreamPerNetwork == \A n \in Nets \ moved : Cardinality(Find(n)) <= 1

\* A connection that is open belongs to the network it was opened for.
KeepsItsNetwork ==
    [][\A o \in Objects : up[o].in /\ sock[o] = "open" => up'[o].net = up[o].net]_vars

\* Settings that two clients change at the same time are both kept: a column has the value
\* that was last given to it, unless another client had changed the same column since the
\* row was read.
NoLostUpdate == \A n \in rows, k \in Cols : vals[n][k] = last[n][k] \/ <<n, k>> \in clash

\* "Close any active upstream connections we have for this network" (index.js:649): a deleted
\* network has no connection, unless a handler that had read its row ran at the same time or
\* one of its connections was another network's.
GoneUnlessRaced == \A n \in created \ (rows \union raced \union moved) : Find(n) = {}

\* What the clients were told of network n is true when no message about it is on its way,
Told(n) == notes[n] = <<>> => \A c \in Clients : view[c][n] = Connected(n)

DropsNow(n) == \E c \in Clients : run[c].at = "drop" /\ run[c].net = n

\* unless it is being deleted, the last message that was sent had been overtaken by a later
\* one, the network has taken a connection or lost one to another, or a worker has restarted.
ToldUntilRestart ==
    restarted \/ \A n \in rows \ (moved \union behind) : DropsNow(n) \/ Told(n)

\* "KiwiIRC needs these to update the UI properly" (index.js:356): ... whatever happened.
ToldTheTruth ==
    events = <<>> /\ (\A o \in Objects : pend[o] = None) /\ (\A c \in Clients : run[c] = Idle)
        => \A n \in rows : Told(n)

=============================================================================
