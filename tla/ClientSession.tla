---------------------------- MODULE ClientSession ----------------------------
(***************************************************************************)
(* The IRC clients of one user and the network connection they share: how  *)
(* a client registers by CAP, PASS, NICK and USER in any order, how it is  *)
(* linked to the upstream connection or makes it, when it is given the     *)
(* registration burst, and what happens when it leaves.                    *)
(*                                                                         *)
(* The queue runs the handlers of one connection one after the other, and  *)
(* those of different connections in parallel; a handler is split where it *)
(* waits for the database: the login, the hook before the burst, the dump  *)
(* of channels and history, and the end of a client.  The upstream is a    *)
(* short form of UpstreamLink: requests to open it, the events that come   *)
(* back, and the server.                                                   *)
(***************************************************************************)
EXTENDS Naturals, Sequences, FiniteSets, SequencesExt

CONSTANTS Clients,     \* IRC clients of the user
          Passes,      \* what PASS may say: "net" (a network), "user" (none), "bad"
          LinesOf,     \* per client: the lines it may send ("NAMES": NICK and USER)
          MaxLines,    \* bound: lines each client sends
          MaxFaults    \* bound: lost connections, failed attempts and restarts

ASSUME SessionAssumption ==
    /\ Passes \subseteq {"net", "user", "bad"}
    /\ LinesOf \in [Clients -> SUBSET ({"LS", "END", "NAMES", "QUIT", "OTHER"} \union Passes)]
    /\ MaxLines \in [Clients -> Nat] /\ MaxFaults \in Nat

VARIABLES
    where,       \* per client: "none", "here" (in the dictionary), "gone", "lost"
    pc,          \* per client: its handler: "idle", "auth", "register", "dump", "closing"
    reg,         \* per client: reg.state
    capping,     \* clients that negotiate capabilities
    queue,       \* per client: reg.queue
    authed,      \* per client: "no", "user" or "net"
    registered,  \* per client: "no", "local" or "net"
    cached,      \* clients with a cachedUpstreamId
    calls,       \* per client: registerClient() calls that wait for available_isupports
    dumps,       \* per client: registerClient() calls that dump channels
    told,        \* clients that close() was called on
    sent,        \* per client: lines it has sent
    up,          \* the ConnectionOutgoing and its flags
    linked,      \* linkedIncomingConIds
    setAway,     \* temp 'set_away'
    timers,      \* reconnection timers that run
    opens,       \* connection.open requests on their way to the sockets layer
    events,      \* the upstream's events and lines on their way to the worker
    sock,        \* its socket: "none", "connecting", "open", "asked", "welcomed", "ready"
    away,        \* the server shows the user as away
    bursts,      \* history: bursts a client got since the upstream connected
    spans,       \* history: per client: the calls that waited when it connected
    existing,    \* history: connection.existing was answered
    cut,         \* history: a restart came between the burst of a client and its end
    swallowed,   \* history: a line for the server was taken off reg.queue and dropped
    faults       \* history: how many there were

client == <<where, pc, reg, capping, queue, authed, registered, cached, told, sent, swallowed>>
worker == <<up, linked, setAway, timers>>
world == <<opens, events, sock, away, existing, cut, faults>>
given == <<calls, dumps, bursts, spans>>
sessionVars == <<client, given, worker, world>>

\* What a client has sent to register so far; "unset" is the empty string of the code.
Empty == [names |-> FALSE, pass |-> "unset"]
Flags == {"exists", "connected", "netRegistered", "receivedMotd", "reconnecting"}

SessionInit ==
    /\ where = [c \in Clients |-> "none"] /\ pc = [c \in Clients |-> "idle"]
    /\ reg = [c \in Clients |-> Empty] /\ capping = {}
    /\ queue = [c \in Clients |-> <<>>]
    /\ authed = [c \in Clients |-> "no"] /\ registered = [c \in Clients |-> "no"]
    /\ cached = {} /\ told = {}
    /\ calls = [c \in Clients |-> 0] /\ dumps = [c \in Clients |-> 0]
    /\ sent = [c \in Clients |-> 0]
    /\ up = [f \in Flags |-> FALSE] /\ linked = {} /\ setAway = FALSE /\ timers = 0
    /\ opens = 0 /\ events = <<>> /\ sock = "none" /\ away = FALSE
    /\ bursts = [c \in Clients |-> 0] /\ spans = [c \in Clients |-> 0]
    /\ existing = FALSE /\ cut = FALSE /\ swallowed = FALSE /\ faults = 0

----------------------------------------------------------------------------
(* The lines of a client.                                                  *)

Complete(r) == r.names /\ r.pass # "unset"

\* The getter upstream: c has one, and is in its list from then on.
HasUpstream(c) == authed[c] = "net" /\ up["exists"]

\* What lines that are run before the client is registered leave in reg.state: the last
\* PASS counts, and those of a client that is logged in do not.
Registering(c, r, ls) ==
    LET passed == {i \in DOMAIN ls : ls[i] \in Passes}
    IN  [names |-> r.names \/ (Contains(ls, "NAMES") /\ ~(HasUpstream(c) /\ ~up["netRegistered"])),
         pass |-> IF authed[c] = "no" /\ passed # {} THEN ls[Max(passed)] ELSE r.pass]

\* The getter links and caches.
Look(c) ==
    /\ linked' = IF HasUpstream(c) THEN linked \union {c} ELSE linked
    /\ cached' = IF HasUpstream(c) THEN cached \union {c} ELSE cached

\* run(): a line that comes while capabilities are negotiated waits for their end.
Waits(c, line) ==
    /\ c \in capping /\ line \notin {"LS", "END"}
    /\ queue' = [queue EXCEPT ![c] = Append(@, line)]
    /\ UNCHANGED <<pc, reg, capping, cached, told, swallowed, linked>>

\* CAP END: reg.queue is run, and only then the client is no longer capping.  What the
\* queued lines return is not looked at: those for the server go nowhere.
EndsCap(c) ==
    /\ capping' = capping \ {c}
    /\ queue' = [queue EXCEPT ![c] = <<>>]
    /\ \/ /\ registered[c] = "no"
          /\ reg' = [reg EXCEPT ![c] = Registering(c, @, queue[c])]
          /\ pc' = IF Complete(reg'[c]) THEN [pc EXCEPT ![c] = "auth"] ELSE pc
          /\ UNCHANGED <<told, swallowed>>
       \/ /\ registered[c] # "no"
          /\ told' = IF Contains(queue[c], "QUIT") THEN told \union {c} ELSE told
          /\ swallowed' = (swallowed \/ Contains(queue[c], "OTHER"))
          /\ UNCHANGED <<reg, pc>>
    /\ Look(c)

\* Any other line: before the registration only some are let through, and each may
\* complete it; after it the client's QUIT is kept from the server.
Runs(c, line) ==
    /\ line = "LS" \/ c \notin capping
    /\ capping' = IF line = "LS" THEN capping \union {c} ELSE capping
    /\ \/ /\ registered[c] = "no"
          /\ reg' = [reg EXCEPT ![c] = Registering(c, @, <<line>>)]
          /\ pc' = IF Complete(reg'[c]) /\ line # "LS" /\ line \notin {"OTHER", "QUIT"}
                   THEN [pc EXCEPT ![c] = "auth"] ELSE pc
          /\ UNCHANGED told
       \/ /\ registered[c] # "no"
          /\ told' = IF line = "QUIT" THEN told \union {c} ELSE told
          /\ UNCHANGED <<reg, pc>>
    /\ Look(c)
    /\ UNCHANGED <<queue, swallowed>>

\* messageFromClient()
Line(c) ==
    /\ where[c] = "here" /\ pc[c] = "idle" /\ sent[c] < MaxLines[c]
    /\ sent' = [sent EXCEPT ![c] = @ + 1]
    /\ \E line \in LinesOf[c] :
          \/ Waits(c, line)
          \/ line = "END" /\ EndsCap(c)
          \/ line # "END" /\ Runs(c, line)
    /\ UNCHANGED <<where, authed, registered, given, up, setAway, timers, world>>

----------------------------------------------------------------------------
(* Logging in.                                                             *)

Accept(c) ==
    /\ where[c] = "none"
    /\ where' = [where EXCEPT ![c] = "here"]
    /\ UNCHANGED <<pc, reg, capping, queue, authed, registered, cached, told, sent, swallowed,
                   given, worker, world>>

\* registerClient() is called for every client of cs, and waits for the listeners of
\* available_isupports, one of which reads the database.
Register(cs) ==
    /\ calls' = [c \in Clients |-> calls[c] + IF c \in cs THEN 1 ELSE 0]
    /\ UNCHANGED <<dumps, bursts, spans>>

\* A plausible bug: a client is registered whenever the upstream is connected.
EnterWhenConnected(c) ==
    /\ linked' = linked \union {c}
    /\ cached' = IF up["exists"] THEN cached \union {c} ELSE cached
    /\ up' = [up EXCEPT !["exists"] = TRUE]
    /\ opens' = IF up["connected"] THEN opens ELSE opens + 1
    /\ Register(IF up["connected"] THEN {c} ELSE {})
    /\ pc' = [pc EXCEPT ![c] = IF up["connected"] THEN "register" ELSE "idle"]
    /\ reg' = IF up["connected"] THEN reg ELSE [reg EXCEPT ![c] = Empty]

\* A client that has logged in to the network makes the upstream, opens it, waits for
\* the end of its registration, or is registered at once; what it sent to register is
\* forgotten when that is done.
Enter(c) ==
    LET ready == up["connected"] /\ up["receivedMotd"]
    IN  /\ linked' = linked \union {c}
        /\ cached' = IF up["exists"] THEN cached \union {c} ELSE cached
        /\ up' = [up EXCEPT !["exists"] = TRUE]
        /\ opens' = IF up["connected"] THEN opens ELSE opens + 1
        /\ Register(IF ready THEN {c} ELSE {})
        /\ pc' = [pc EXCEPT ![c] = IF ready THEN "register" ELSE "idle"]
        /\ reg' = IF ready THEN reg ELSE [reg EXCEPT ![c] = Empty]

\* maybeProcessRegistration(), when the user has been looked up.
Login(c) ==
    /\ pc[c] = "auth"
    /\ \/ /\ reg[c].pass = "bad"
          /\ told' = told \union {c}
          /\ pc' = [pc EXCEPT ![c] = "idle"]
          /\ UNCHANGED <<reg, authed, registered, cached, given, linked, up, opens>>
       \/ /\ reg[c].pass = "user"
          /\ authed' = [authed EXCEPT ![c] = "user"]
          /\ registered' = [registered EXCEPT ![c] = "local"]
          /\ reg' = [reg EXCEPT ![c] = Empty]
          /\ pc' = [pc EXCEPT ![c] = "idle"]
          /\ UNCHANGED <<cached, told, given, linked, up, opens>>
       \/ /\ reg[c].pass = "net"
          /\ authed' = [authed EXCEPT ![c] = "net"]
          /\ Enter(c)
          /\ UNCHANGED <<registered, told>>
    /\ UNCHANGED <<where, capping, queue, sent, swallowed, setAway, timers, events, sock, away,
                   existing, cut, faults>>

\* The handler of c waits for a call of registerClient() that has come to `at`: whichever
\* of its calls goes on is that one, or there is another.
Awaited(c, at) == pc[c] = at
Another(c, at, n) == n[c] > (IF pc[c] = at THEN 1 ELSE 0)

\* The burst, for a client that is still here, and the start of the dump.
Burst(c) ==
    /\ calls[c] > 0
    /\ calls' = [calls EXCEPT ![c] = @ - 1]
    /\ dumps' = [dumps EXCEPT ![c] = @ + 1]
    /\ \/ Awaited(c, "register") /\ pc' = [pc EXCEPT ![c] = "dump"]
       \/ Another(c, "register", calls) /\ UNCHANGED pc
    /\ IF where[c] = "here"
       THEN /\ registered' = [registered EXCEPT ![c] = "net"]
            /\ bursts' = [bursts EXCEPT ![c] = @ + 1]
       ELSE UNCHANGED <<registered, bursts>>
    /\ UNCHANGED <<where, reg, capping, queue, authed, cached, told, sent, swallowed, spans,
                   worker, world>>

\* A line that is written to a server that listens.
Shown(value) == away' = IF sock \in {"welcomed", "ready"} THEN value ELSE away

\* A call of registerClient() ends, and with it the handler that waited for it.
Returns(c) ==
    /\ dumps[c] > 0
    /\ dumps' = [dumps EXCEPT ![c] = @ - 1]
    /\ \/ /\ Awaited(c, "dump")
          /\ pc' = [pc EXCEPT ![c] = "idle"]
          /\ reg' = [reg EXCEPT ![c] = Empty]
       \/ /\ Another(c, "dump", dumps)
          /\ UNCHANGED <<pc, reg>>
    /\ UNCHANGED <<where, capping, queue, authed, registered, cached, told, sent, swallowed,
                   calls, bursts, spans, up, linked, timers, opens, events, sock, existing, cut,
                   faults>>

\* A plausible bug: the flag is cleared, and the server is not told.
DumpedSilently(c) ==
    /\ Returns(c)
    /\ setAway' = FALSE
    /\ UNCHANGED away

\* The rest of registerClient(): it may run after the client has left.
Dumped(c) ==
    /\ Returns(c)
    /\ IF setAway THEN Shown(FALSE) ELSE UNCHANGED away
    /\ setAway' = FALSE

----------------------------------------------------------------------------
(* Leaving.                                                                *)

\* The clients that forEachClient() reaches.
Reached == {c \in linked : where[c] = "here"}

\* onClientClosed(): the last client marks the user as away.
Leave(c) ==
    /\ where[c] = "here" /\ pc[c] = "idle"
    /\ pc' = [pc EXCEPT ![c] = "closing"]
    /\ Look(c)
    /\ IF HasUpstream(c) /\ up["netRegistered"] /\ Reached \ {c} = {}
       THEN setAway' = TRUE /\ Shown(TRUE)
       ELSE UNCHANGED <<setAway, away>>
    /\ UNCHANGED <<where, reg, capping, queue, authed, registered, told, sent, swallowed, given,
                   up, timers, opens, events, sock, existing, cut, faults>>

\* The connection is taken out of the dictionary, and its object is garbage.
Forget(c) ==
    /\ where' = [where EXCEPT ![c] = "gone"]
    /\ pc' = [pc EXCEPT ![c] = "idle"]
    /\ reg' = [reg EXCEPT ![c] = Empty] /\ queue' = [queue EXCEPT ![c] = <<>>]
    /\ authed' = [authed EXCEPT ![c] = "no"] /\ registered' = [registered EXCEPT ![c] = "no"]
    /\ capping' = capping \ {c} /\ cached' = cached \ {c} /\ told' = told \ {c}
    /\ sent' = [sent EXCEPT ![c] = 0] /\ bursts' = [bursts EXCEPT ![c] = 0]

\* A plausible bug: only clients that are registered are taken off the list.
DestroyRegistered(c) ==
    /\ pc[c] = "closing"
    /\ Forget(c)
    /\ linked' = IF registered[c] # "no" THEN linked \ {c} ELSE linked
    /\ UNCHANGED <<swallowed, calls, dumps, spans, up, setAway, timers, world>>

\* destroy(), after the listeners of client_disconnected.
Destroy(c) ==
    /\ pc[c] = "closing"
    /\ Forget(c)
    /\ linked' = linked \ {c}
    /\ UNCHANGED <<swallowed, calls, dumps, spans, up, setAway, timers, world>>

----------------------------------------------------------------------------
(* The upstream connection.                                                *)

OnOpen ==
    /\ up' = [up EXCEPT !["connected"] = TRUE, !["netRegistered"] = FALSE,
                        !["receivedMotd"] = FALSE, !["reconnecting"] = FALSE]
    /\ sock' = IF sock = "open" THEN "asked" ELSE sock
    /\ bursts' = [c \in Clients |-> 0] /\ spans' = calls
    /\ UNCHANGED <<registered, calls, dumps, timers>>

OnExisting ==
    /\ up' = [up EXCEPT !["connected"] = TRUE, !["netRegistered"] = TRUE,
                        !["receivedMotd"] = TRUE]
    /\ UNCHANGED <<registered, given, timers, sock>>

OnWelcome ==
    /\ up' = [up EXCEPT !["netRegistered"] = TRUE]
    /\ UNCHANGED <<registered, given, timers, sock>>

\* 376: registerClient() for the clients that wait, and those that were there before.
OnMotdEnd ==
    /\ up' = [up EXCEPT !["receivedMotd"] = TRUE]
    /\ Register(IF up["receivedMotd"] THEN {} ELSE Reached)
    /\ UNCHANGED <<registered, timers, sock>>

\* A plausible bug: clients that wait for the network are left waiting when it closes.
OnCloseWaiting ==
    LET should == (up["connected"] /\ up["netRegistered"]) \/ up["reconnecting"]
    IN  /\ timers' = timers + IF should THEN 1 ELSE 0
        /\ up' = [f \in Flags |-> f = "exists" \/ (f = "reconnecting" /\ should)]
        /\ UNCHANGED <<registered, given, sock>>

\* onUpstreamClosed(): clients that wait are registered to the bouncer alone, unless the
\* connection is being reconnected anyway.
OnClose ==
    LET should == up["connected"] /\ up["netRegistered"]
    IN  /\ \/ /\ up["reconnecting"]
              /\ timers' = timers + 1
              /\ UNCHANGED <<up, registered>>
           \/ /\ ~up["reconnecting"]
              /\ timers' = timers + IF should THEN 1 ELSE 0
              /\ up' = [f \in Flags |-> f = "exists" \/ (f = "reconnecting" /\ should)]
              /\ registered' = [c \in Clients |->
                    IF c \in Reached /\ registered[c] = "no" THEN "local" ELSE registered[c]]
        /\ UNCHANGED <<given, sock>>

Upstream ==
    /\ events # <<>>
    /\ events' = Tail(events)
    /\ \/ Head(events) = "open" /\ OnOpen
       \/ Head(events) = "existing" /\ OnExisting
       \/ Head(events) = "001" /\ OnWelcome
       \/ Head(events) = "376" /\ OnMotdEnd
       \/ Head(events) = "close" /\ OnClose
    /\ UNCHANGED <<where, pc, reg, capping, queue, authed, cached, told, sent, swallowed, linked,
                   setAway, opens, away, existing, cut, faults>>

TimerFires ==
    /\ timers > 0
    /\ timers' = timers - 1
    /\ opens' = IF up["connected"] THEN opens ELSE opens + 1
    /\ UNCHANGED <<client, given, up, linked, setAway, events, sock, away, existing,
                   cut, faults>>

\* A worker is stopped and the next one loads the connections: clients that never logged
\* in are purged, and the upstream is asked for again.
Restart ==
    /\ faults < MaxFaults /\ faults' = faults + 1
    /\ \A c \in Clients : pc[c] = "idle"
    /\ where' = [c \in Clients |->
                    IF where[c] = "here" /\ authed[c] = "no" THEN "lost" ELSE where[c]]
    /\ cached' = {}
    /\ calls' = [c \in Clients |-> 0] /\ dumps' = [c \in Clients |-> 0]
    /\ cut' = (cut \/ \E c \in Clients : dumps[c] > 0)
    /\ timers' = 0
    /\ up' = [up EXCEPT !["connected"] = FALSE]
    /\ opens' = IF up["exists"] THEN opens + 1 ELSE opens
    /\ UNCHANGED <<pc, reg, capping, queue, authed, registered, told, sent, swallowed, bursts,
                   spans, linked, setAway, events, sock, away, existing>>

----------------------------------------------------------------------------
(* The sockets layer and the server.                                       *)

Answers(event, to) ==
    /\ events' = Append(events, event)
    /\ sock' = to
    /\ UNCHANGED <<client, given, worker, opens, existing, cut>>

SocketsOpen ==
    /\ opens > 0
    /\ opens' = opens - 1
    /\ \/ /\ sock = "none"
          /\ sock' = "connecting"
          /\ UNCHANGED <<events, existing>>
       \/ /\ sock = "connecting"
          /\ UNCHANGED <<sock, events, existing>>
       \/ /\ sock \notin {"none", "connecting"}
          /\ events' = Append(events, "existing")
          /\ existing' = TRUE
          /\ UNCHANGED sock
    /\ UNCHANGED <<client, given, worker, away, cut, faults>>

Connects ==
    /\ sock = "connecting"
    /\ Answers("open", "open")
    /\ UNCHANGED <<away, faults>>

Welcomes ==
    /\ sock = "asked"
    /\ Answers("001", "welcomed")
    /\ UNCHANGED <<away, faults>>

EndsMotd ==
    /\ sock = "welcomed"
    /\ Answers("376", "ready")
    /\ UNCHANGED <<away, faults>>

\* An attempt fails, or a connection is lost.
Drops ==
    /\ sock # "none"
    /\ faults < MaxFaults /\ faults' = faults + 1
    /\ Answers("close", "none")
    /\ away' = FALSE

SessionNext ==
    \/ \E c \in Clients :
          \/ Accept(c) \/ Line(c) \/ Login(c) \/ Burst(c) \/ Dumped(c) \/ Leave(c) \/ Destroy(c)
    \/ Upstream \/ TimerFires \/ Restart
    \/ SocketsOpen \/ Connects \/ Welcomes \/ EndsMotd \/ Drops

SessionSpec == SessionInit /\ [][SessionNext]_sessionVars

\* What the worker, the sockets layer and the server do by themselves.
SessionFairness ==
    /\ \A c \in Clients :
          /\ WF_sessionVars(Login(c)) /\ WF_sessionVars(Burst(c)) /\ WF_sessionVars(Dumped(c))
          /\ WF_sessionVars(Destroy(c))
    /\ WF_sessionVars(Upstream) /\ WF_sessionVars(TimerFires) /\ WF_sessionVars(SocketsOpen)
    /\ WF_sessionVars(Connects) /\ WF_sessionVars(Welcomes) /\ WF_sessionVars(EndsMotd)

FairSessionSpec == SessionSpec /\ SessionFairness

----------------------------------------------------------------------------

SessionTypeOK ==
    /\ where \in [Clients -> {"none", "here", "gone", "lost"}]
    /\ pc \in [Clients -> {"idle", "auth", "register", "dump", "closing"}]
    /\ reg \in [Clients -> [names : BOOLEAN, pass : Passes \union {"unset"}]]
    /\ authed \in [Clients -> {"no", "user", "net"}]
    /\ registered \in [Clients -> {"no", "local", "net"}]
    /\ capping \union cached \union told \union linked \subseteq Clients
    /\ calls \in [Clients -> Nat] /\ dumps \in [Clients -> Nat]
    /\ bursts \in [Clients -> Nat] /\ spans \in [Clients -> Nat] /\ timers \in Nat
    /\ up \in [Flags -> BOOLEAN]
    /\ sock \in {"none", "connecting", "open", "asked", "welcomed", "ready"}

\* A client gets one registration burst of a connection to the network, whether it logs
\* in before, during or after the network's own registration; and one more for each call
\* of registerClient() that already waited when the connection was made, because it was
\* called for the one before it.
OneBurst == \A c \in Clients : bursts[c] <= 1 + spans[c]

\* forEachClient() reaches every client that is registered to the network, and no client
\* is on the list that has left or has not logged in to it.
ReachesEveryClient ==
    /\ \A c \in Clients : where[c] = "here" /\ registered[c] = "net" => c \in linked
    /\ \A c \in linked : where[c] = "here" /\ authed[c] = "net"

\* "If we previously set them away, now bring them back" (connectionincoming.js:452): the
\* server does not show a user as away who has a client that is fully registered, unless
\* a worker was stopped before it had come that far.
NeverAwayWithClients ==
    \A c \in Clients :
        away /\ ~cut /\ where[c] = "here" /\ registered[c] = "net" =>
            dumps[c] > 0 \/ pc[c] = "closing"

\* "If there are no other clients connected, mark this user as away"
\* (connectionincoming.js:674), whatever else was going on when the last one left.
AwayWhenLastLeaves ==
    [][\A c \in Clients :
          where[c] = "here" /\ where'[c] = "gone" /\ registered[c] = "net" /\ sock = "ready"
            /\ events = <<>> /\ (\A d \in Clients \ {c} : where[d] # "here")
          => away']_sessionVars

\* "By default, send any unprocessed lines upstream" (clientcommands.js:59): also those
\* that waited for the end of a capability negotiation.
NoLineSwallowed == ~swallowed

\* "The upstream connection will call con.registerClient() once it's registered"
\* (clientcommands.js:166): a login ends, with a registration to the network or, when that
\* cannot be reached, to the bouncer alone.
EveryLoginEnds ==
    \A c \in Clients :
        where[c] = "here" /\ c \notin capping
            /\ ((Complete(reg[c]) /\ reg[c].pass = "net") \/ authed[c] = "net") ~>
        registered[c] # "no" \/ where[c] # "here" \/ c \in capping

\* The same as long as the sockets layer is not asked for a connection that it has.
LoginsEnd == []~existing => EveryLoginEnds

=============================================================================
