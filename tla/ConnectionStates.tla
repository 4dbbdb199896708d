-------------------------- MODULE ConnectionStates --------------------------
(***************************************************************************)
(* The incoming connections as three parties know them: the sockets layer, *)
(* which has the sockets; the worker, which has a state for each in its    *)
(* dictionary; and the database, which has a row for each.  A change is    *)
(* saved a second after it was made; the links of a network's connection   *)
(* to its clients are saved with that connection.  A new worker loads the  *)
(* rows and asks the sockets layer which of them are still alive.          *)
(*                                                                         *)
(* One network connection stands for all; the dictionary is never empty.   *)
(* The events of the sockets layer arrive in order (IpcQueue, AmqpQueue);  *)
(* a crash may lose the one that was handled.                              *)
(***************************************************************************)
EXTENDS Naturals, Sequences, SequencesExt

CONSTANTS Clients,    \* incoming sockets; an id is used once
          MaxFaults   \* bound: crashes and stops of the worker, restarts of the sockets layer

ASSUME StatesAssumption == MaxFaults \in Nat

VARIABLES
    live,       \* sockets that are open in the sockets layer
    used,       \* ids that were given out
    queue,      \* events on their way to the worker
    asked,      \* connections.getactive requests on their way to the sockets layer
    mode,       \* the worker: up, wiping (in the reset handler) or stopping (after the flush)
    mem,        \* the dictionary: a connection's state, or "none"
    dirty,      \* connections of the dictionary with a save timer
    ghosts,     \* states of destroyed connections whose save timer still runs
    rows,       \* the database: a connection's row, or "none"
    links,      \* linkedIncomingConIds of the network's connection
    linkRow,    \* ... as it was saved
    linkDirty,
    pending,    \* app.reloadedIncomingConIds
    sure,       \* history: clients whose authentication a later worker must know of
    wiped,      \* history: clients that were known when a reset was handled
    gaveUp,     \* history: the fail-safe came before an answer
    faults

sockets == <<live, used>>
states == <<mem, dirty, ghosts>>
network == <<links, linkDirty>>
database == <<rows, linkRow>>
history == <<sure, wiped, gaveUp>>
vars == <<sockets, queue, asked, mode, states, database, network, pending, history, faults>>

States == {"new", "auth"}
Event(ev, id) == [ev |-> ev, id |-> id, ids |-> {}]
Known(c) == mem[c] # "none"
Sends(e) == queue' = Append(queue, e)

Init ==
    /\ live = {} /\ used = {} /\ queue = <<>> /\ asked = 0
    /\ mode = "up"
    /\ mem = [c \in Clients |-> "none"] /\ dirty = {} /\ ghosts = mem /\ rows = mem
    /\ links = {} /\ linkRow = {} /\ linkDirty = FALSE /\ pending = {}
    /\ sure = {} /\ wiped = {} /\ gaveUp = FALSE /\ faults = 0

----------------------------------------------------------------------------
(* The sockets layer.                                                      *)

Sockets ==
    /\ \/ \E c \in Clients \ used :
             /\ live' = live \union {c} /\ used' = used \union {c}
             /\ Sends(Event("new", c)) /\ UNCHANGED <<asked, faults>>
       \/ \E c \in live :      \* the line that completes the registration
             /\ Event("line", c) \notin Range(queue) /\ mem[c] # "auth"
             /\ Sends(Event("line", c)) /\ UNCHANGED <<sockets, asked, faults>>
       \/ \E c \in live :
             /\ live' = live \ {c}
             /\ Sends(Event("close", c)) /\ UNCHANGED <<used, asked, faults>>
    /\ UNCHANGED <<mode, states, database, network, pending, history>>

\* connections.getactive
Reports ==
    /\ asked > 0 /\ asked' = asked - 1
    /\ Sends([Event("active", "all") EXCEPT !.ids = live])
    /\ UNCHANGED <<sockets, mode, states, database, network, pending, history, faults>>

\* The sockets process starts again: its sockets are gone, and nobody reports that.
SocketsRestart ==
    /\ faults < MaxFaults /\ faults' = faults + 1
    /\ live' = {}
    /\ Sends(Event("reset", "all"))
    /\ UNCHANGED <<used, asked, mode, states, database, network, pending, history>>

----------------------------------------------------------------------------
(* The handlers of the worker.                                             *)

\* connection.new: the state is saved before the client is accepted.
OnNew(c) ==
    /\ mem' = [mem EXCEPT ![c] = "new"]
    /\ rows' = [rows EXCEPT ![c] = "new"]
    /\ UNCHANGED <<mode, dirty, ghosts, linkRow, network, pending, history>>

\* The client is authenticated and linked to its network's connection.
OnLine(c) ==
    /\ IF ~Known(c)
       THEN UNCHANGED <<states, network, sure>>
       ELSE /\ mem' = [mem EXCEPT ![c] = "auth"]
            /\ dirty' = dirty \union {c}
            /\ links' = links \union {c} /\ linkDirty' = TRUE
            /\ sure' = IF mode = "up" THEN sure \union {c} ELSE sure
            /\ UNCHANGED ghosts
    /\ UNCHANGED <<mode, database, pending, wiped, gaveUp>>

\* ConnectionIncoming.destroy() of some connections: unlinked, removed from the dictionary,
\* their rows deleted; their save timers run on.  Others are marked dirty.
Destroys(cs, marked) ==
    LET gone == {c \in cs : Known(c)}
    IN  /\ mem' = [c \in Clients |-> IF c \in gone THEN "none" ELSE mem[c]]
        /\ rows' = [c \in Clients |-> IF c \in gone THEN "none" ELSE rows[c]]
        /\ ghosts' = [c \in Clients |-> IF c \in gone \intersect dirty THEN mem[c] ELSE ghosts[c]]
        /\ dirty' = (dirty \ gone) \union marked
        /\ links' = links \ gone
        /\ linkDirty' = (linkDirty \/ \E c \in gone : mem[c] = "auth")
        /\ UNCHANGED linkRow

\* connection.close: onClientClosed()
OnClose(c) ==
    /\ Destroys({c}, {})
    /\ UNCHANGED <<mode, pending, history>>

\* connections.active: what survived is marked connected, the rest of what was reloaded is
\* destroyed.
OnActive(ids) ==
    /\ Destroys(pending \ ids, {c \in pending \intersect ids : Known(c)})
    /\ pending' = {}
    /\ UNCHANGED <<mode, history>>

\* reset, up to its first await
OnReset ==
    /\ rows' = [c \in Clients |-> "none"]
    /\ mode' = "wiping"
    /\ wiped' = wiped \union {c \in Clients : Known(c)}
    /\ UNCHANGED <<states, linkRow, network, pending, sure, gaveUp>>

Handle ==
    /\ mode # "wiping" /\ queue # <<>>
    /\ queue' = Tail(queue)
    /\ LET e == Head(queue)
       IN  \/ e.ev = "new" /\ OnNew(e.id)
           \/ e.ev = "line" /\ OnLine(e.id)
           \/ e.ev = "close" /\ OnClose(e.id)
           \/ e.ev = "active" /\ OnActive(e.ids)
           \/ e.ev = "reset" /\ OnReset
    /\ UNCHANGED <<sockets, asked, faults>>

----------------------------------------------------------------------------
(* Timers, and the end of the worker.                                      *)

\* markDirty()'s timer: of a connection, of a destroyed one, of the network's connection.
Save ==
    /\ \/ \E c \in dirty :
             /\ rows' = [rows EXCEPT ![c] = mem[c]] /\ dirty' = dirty \ {c}
             /\ UNCHANGED <<ghosts, linkRow, linkDirty>>
       \/ \E c \in Clients :
             /\ ghosts[c] # "none"
             /\ rows' = [rows EXCEPT ![c] = ghosts[c]] /\ ghosts' = [ghosts EXCEPT ![c] = "none"]
             /\ UNCHANGED <<dirty, linkRow, linkDirty>>
       \/ /\ linkDirty
          /\ linkRow' = links /\ linkDirty' = FALSE
          /\ UNCHANGED <<rows, dirty, ghosts>>
    /\ UNCHANGED <<sockets, queue, asked, mode, mem, links, pending, history, faults>>

\* A plausible bug: what nobody answered for is gone.
GiveUpReaping ==
    /\ pending # {}
    /\ pending' = {} /\ gaveUp' = TRUE
    /\ Destroys(pending, {})
    /\ UNCHANGED <<sockets, queue, asked, mode, sure, wiped, faults>>

\* "Incoming connection reconciliation timed out": what was reloaded is left alone.
GiveUp ==
    /\ pending # {}
    /\ pending' = {} /\ gaveUp' = TRUE
    /\ UNCHANGED <<sockets, queue, asked, mode, states, database, network, sure, wiped, faults>>

\* A plausible bug: only the timers are stopped.
FlushNothing(linksInRow) ==
    /\ linkRow' = linksInRow /\ dirty' = {} /\ linkDirty' = FALSE
    /\ mode' = "stopping" /\ UNCHANGED rows

\* prepareShutdown(): what is dirty is saved and its timer stopped.
Flush(linksInRow) ==
    /\ rows' = [c \in Clients |-> IF c \in dirty THEN mem[c] ELSE rows[c]]
    /\ linkRow' = IF linkDirty THEN links ELSE linksInRow
    /\ dirty' = {} /\ linkDirty' = FALSE
    /\ mode' = "stopping"

\* A signal
Stop ==
    /\ mode = "up"
    /\ faults < MaxFaults /\ faults' = faults + 1
    /\ Flush(linkRow)
    /\ UNCHANGED <<sockets, queue, asked, mem, ghosts, links, pending, history>>

\* The rest of the reset handler: the links are cleared, then the worker shuts down.
ResetEnds ==
    /\ mode = "wiping"
    /\ Flush({})
    /\ UNCHANGED <<sockets, queue, asked, mem, ghosts, links, pending, history, faults>>

Authenticated == {c \in Clients : rows[c] = "auth"}

\* A plausible bug: the sockets layer is not asked.
BootWithoutAsking ==
    /\ mode' = "up"
    /\ rows' = [c \in Clients |-> IF c \in Authenticated THEN "auth" ELSE "none"]
    /\ mem' = rows' /\ dirty' = {} /\ ghosts' = [c \in Clients |-> "none"]
    /\ links' = linkRow /\ linkDirty' = FALSE
    /\ pending' = Authenticated
    /\ UNCHANGED <<sockets, asked, linkRow, wiped, gaveUp>>

\* loadConnections(), reconcileIncomingConnections(): rows of clients that have not
\* authenticated are deleted, the others loaded.
Boot ==
    /\ mode' = "up"
    /\ rows' = [c \in Clients |-> IF c \in Authenticated THEN "auth" ELSE "none"]
    /\ mem' = rows' /\ dirty' = {} /\ ghosts' = [c \in Clients |-> "none"]
    /\ links' = linkRow /\ linkDirty' = FALSE
    /\ pending' = Authenticated
    /\ asked' = IF Authenticated = {} THEN asked ELSE asked + 1
    /\ UNCHANGED <<sockets, linkRow, wiped, gaveUp>>

Exit == mode = "stopping" /\ Boot /\ UNCHANGED <<queue, sure, faults>>

\* The worker dies, perhaps with the event it was given.
Crash ==
    /\ faults < MaxFaults /\ faults' = faults + 1
    /\ \/ UNCHANGED queue
       \/ queue # <<>> /\ queue' = Tail(queue)
    /\ sure' = sure \intersect Authenticated
    /\ Boot

Next == Sockets \/ Reports \/ SocketsRestart \/ Handle \/ Save \/ GiveUp \/ Stop \/ ResetEnds
        \/ Exit \/ Crash

Spec == Init /\ [][Next]_vars

\* Events are handled, requests answered, and a worker that is stopping exits.
FairSpec == Spec /\ WF_vars(Handle) /\ WF_vars(Reports) /\ WF_vars(ResetEnds) /\ WF_vars(Exit)

----------------------------------------------------------------------------

TypeOK ==
    /\ live \subseteq used /\ used \subseteq Clients /\ asked \in Nat
    /\ mode \in {"up", "wiping", "stopping"}
    /\ {mem, ghosts, rows} \subseteq [Clients -> States \union {"none"}]
    /\ dirty \subseteq Clients /\ pending \subseteq Clients
    /\ links \subseteq Clients /\ linkRow \subseteq Clients /\ linkDirty \in BOOLEAN
    /\ sure \subseteq Clients /\ wiped \subseteq Clients /\ gaveUp \in BOOLEAN
    /\ faults \in 0..MaxFaults

\* "leaving a live connection alone is safer than wrongly killing it" (worker.js:88): a
\* running worker forgets a connection only when its socket is gone, however old the answer
\* is that it acts on.
NeverForgetsLive ==
    [][Handle \/ GiveUp => \A c \in live : Known(c) => Known(c)']_vars

\* A client that was authenticated, by a worker that did not crash before it was saved, is
\* known to that worker and to every later one for as long as its socket is open.
KnownWhileLive == \A c \in sure \intersect live : mem[c] = "auth"

\* Rows whose socket died while the worker was down "would linger forever as zombies"
\* (worker.js:74): a connection whose socket is gone is forgotten in the end, unless the
\* fail-safe came first.
ZombiesGo == \A c \in Clients : Known(c) /\ c \notin live ~> ~Known(c) \/ gaveUp

\* "Wipe out all incoming connection states" (worker.js:191): no later worker knows them.
ResetWipes == mode = "up" => \A c \in wiped : ~Known(c)

\* "Incoming connections that never authenticated are stale" (worker.js:518): what is purged
\* when the worker starts has no socket.
PurgesOnlyDead == [][\A c \in live : rows[c] = "new" => rows'[c] # "none"]_vars

\* A link goes when its client has gone.
LinksGo == \A c \in Clients : c \in links /\ c \notin live ~> c \notin links

=============================================================================
