----------------------------- MODULE ChannelView -----------------------------
(***************************************************************************)
(* What the bouncer believes about the user's channels, against what the   *)
(* server knows: who is in them and who has a prefix.  The server's lines  *)
(* reach the worker in order; upstreamcommands.js follows them, and the    *)
(* connection's state is saved a second after it was marked dirty.  A      *)
(* worker that is stopped flushes what is dirty and may handle lines after *)
(* that; one that crashes does not.  The next worker has the row, and the  *)
(* lines that were not handled.                                            *)
(*                                                                         *)
(* The connection stays registered; message-store awaits inside handlers   *)
(* are left out, as the lines of one connection are handled in turn.       *)
(***************************************************************************)
EXTENDS Naturals, Sequences, FiniteSets

CONSTANTS Chans,      \* channels
          Names,      \* nicks; "me" is the user's at first
          MaxEvents,  \* bound: what happens on the server
          MaxStops,   \* bound: workers that are stopped or crash
          MaxLines    \* bound: lines on their way to the worker

ASSUME ViewAssumption ==
    /\ "me" \in Names /\ IsFiniteSet(Chans)
    /\ MaxEvents \in Nat /\ MaxStops \in Nat /\ MaxLines \in Nat

VARIABLES
    members,    \* the server: per channel, who is in it
    ops,        \* the server: per channel, who has a prefix
    nick,       \* the server: the user's nick
    inbox,      \* lines on their way to the worker
    view,       \* the worker's state: nick, the NAMES flag and the buffers
    row,        \* the persisted state
    dirty,      \* state._dirty
    stopping,   \* prepareShutdown() has flushed
    synced,     \* history: the worker is the first or has seen a NAMES list end, and
                \* none has begun since
    began,      \* history: channels with which a list began when it was, and knew the nick
    listed,     \* history: channels that were in a NAMES list that this worker has seen
    late,       \* history: a line was handled after the flush of its worker
    crashed,    \* history: a worker crashed
    events, stops

channelVars == <<members, ops, nick>>
listing == <<synced, began, listed>>
history == <<listing, late, crashed>>
viewVars == <<channelVars, inbox, view, row, dirty, stopping, history, events, stops>>

NoBuffer == [exists |-> FALSE, joined |-> FALSE, users |-> {}, ops |-> {}]

ViewInit ==
    /\ members = [c \in Chans |-> {n \in Names : n = "you"}]
    /\ ops = members
    /\ nick = "me" /\ inbox = <<>>
    /\ view = [nick |-> "me", names |-> FALSE, buffers |-> [c \in Chans |-> NoBuffer]]
    /\ row = view /\ dirty = FALSE /\ stopping = FALSE
    /\ synced = TRUE /\ began = {} /\ listed = {} /\ late = FALSE /\ crashed = FALSE
    /\ events = 0 /\ stops = 0

----------------------------------------------------------------------------
(* The server: what happens, and the lines it sends to a user it concerns. *)

Line(cmd, c, who, to) == [cmd |-> cmd, chan |-> c, who |-> who, to |-> to, ops |-> {}]

\* The lines of a NAMES list: one for each channel of cs, and the end.
NamesList(cs, users, end) ==
    Append([i \in DOMAIN cs |-> [cmd |-> "353", chan |-> cs[i], who |-> nick,
                                 to |-> users[cs[i]], ops |-> ops[cs[i]]]],
           [cmd |-> "366", chan |-> end, who |-> nick, to |-> {}, ops |-> {}])

Gives(ls) == inbox' = inbox \o ls

\* The channels the user shares with somebody.
Shared(who) == {c \in Chans : {who, nick} \subseteq members[c]}

Joins(c, who) ==
    /\ who \notin members[c]
    /\ members' = [members EXCEPT ![c] = @ \union {who}]
    /\ Gives((IF nick \in members'[c] THEN <<Line("JOIN", c, who, {})>> ELSE <<>>)
             \o (IF who = nick THEN NamesList(<<c>>, members', c) ELSE <<>>))
    /\ UNCHANGED <<ops, nick>>

\* A part or a kick.
Leaves(c, who, cmd) ==
    /\ who \in members[c]
    /\ members' = [members EXCEPT ![c] = @ \ {who}]
    /\ ops' = [ops EXCEPT ![c] = @ \ {who}]
    /\ Gives(IF nick \in members[c] THEN <<Line(cmd, c, who, {})>> ELSE <<>>)
    /\ UNCHANGED nick

Quits(who) ==
    /\ who # nick /\ \E c \in Chans : who \in members[c]
    /\ members' = [c \in Chans |-> members[c] \ {who}]
    /\ ops' = [c \in Chans |-> ops[c] \ {who}]
    /\ Gives(IF Shared(who) # {} THEN <<[Line("QUIT", {}, who, {}) EXCEPT !.chan = "*"]>> ELSE <<>>)
    /\ UNCHANGED nick

\* A set of nicks when one of them changes.
Renamed(s, who, to) == IF who \in s THEN (s \ {who}) \union {to} ELSE s

Renames(who, to) ==
    /\ who = nick \/ \E c \in Chans : who \in members[c]
    /\ to # nick /\ \A c \in Chans : to \notin members[c]
    /\ members' = [c \in Chans |-> Renamed(members[c], who, to)]
    /\ ops' = [c \in Chans |-> Renamed(ops[c], who, to)]
    /\ nick' = IF who = nick THEN to ELSE nick
    /\ Gives(IF who = nick \/ Shared(who) # {}
             THEN <<[Line("NICK", {}, who, to) EXCEPT !.chan = "*"]>> ELSE <<>>)

SetsOp(c, who) ==
    /\ who \in members[c] /\ nick \in members[c]
    /\ ops' = [ops EXCEPT ![c] = IF who \in @ THEN @ \ {who} ELSE @ \union {who}]
    /\ Gives(<<Line("MODE", c, who, who \in ops'[c])>>)
    /\ UNCHANGED <<members, nick>>

Talks(c) ==
    /\ nick \in members[c]
    /\ Gives(<<Line("PRIVMSG", c, "you", {})>>)
    /\ UNCHANGED channelVars

\* The orders in which channels may be listed.
Orders(cs) == {q \in [1..Cardinality(cs) -> cs] : \A i, j \in DOMAIN q : i # j => q[i] # q[j]}

\* A client sends a bare NAMES (clientcommands.js:366): the server answers with a single
\* list, of the channels that the user is in and perhaps others.
AsksNames ==
    /\ \E cs \in SUBSET Chans : \E q \in Orders(cs) :
          /\ {c \in Chans : nick \in members[c]} \subseteq cs
          /\ Gives(NamesList(q, members, "*"))
    /\ UNCHANGED channelVars

Server ==
    /\ events < MaxEvents /\ events' = events + 1
    /\ Len(inbox) < MaxLines
    /\ \/ \E c \in Chans, who \in Names :
             \/ who = nick /\ Joins(c, who)
             \/ who # nick /\ Joins(c, who)
             \/ Leaves(c, who, "PART")
             \/ Leaves(c, who, "KICK")
             \/ SetsOp(c, who)
       \/ \E who \in Names : Quits(who) \/ \E to \in Names : Renames(who, to)
       \/ AsksNames \/ \E c \in Chans : Talks(c)
    /\ UNCHANGED <<view, row, dirty, stopping, history, stops>>

----------------------------------------------------------------------------
(* The handlers: the new view, and whether the state is marked dirty.      *)

\* getOrAddBuffer() or addBuffer()
Known(b) == [b EXCEPT !.exists = TRUE]
Left(b) == [b EXCEPT !.joined = FALSE, !.users = {}, !.ops = {}]
Without(b, who) == [b EXCEPT !.users = @ \ {who}, !.ops = @ \ {who}]
Changed(b, who, to) ==
    [b EXCEPT !.users = Renamed(b.users, who, to), !.ops = Renamed(b.ops, who, to)]

Becomes(new, marks) == view' = new /\ dirty' = (dirty \/ marks)
InBuffer(c, b, marks) == Becomes([view EXCEPT !.buffers[c] = b], marks)

\* Somebody else's JOIN is not marked.
OnJoin(msg) ==
    LET b == Known(view.buffers[msg.chan])
    IN  IF msg.who # view.nick
        THEN InBuffer(msg.chan, [b EXCEPT !.users = @ \union {msg.who}], FALSE)
        ELSE InBuffer(msg.chan, [b EXCEPT !.joined = TRUE], TRUE)

\* PART and KICK
OnPart(msg) ==
    LET b == view.buffers[msg.chan]
    IN  IF b.exists
        THEN InBuffer(msg.chan, IF msg.who = view.nick THEN Left(b) ELSE Without(b, msg.who), TRUE)
        ELSE UNCHANGED <<view, dirty>>

OnQuit(msg) ==
    Becomes([view EXCEPT !.buffers = [c \in Chans |-> Without(@[c], msg.who)]], TRUE)

\* renameUser() in every buffer, and the user's own nick
AfterNick(msg) ==
    [view EXCEPT !.nick = IF msg.who = view.nick THEN msg.to ELSE view.nick,
                 !.buffers = [c \in Chans |-> Changed(view.buffers[c], msg.who, msg.to)]]

\* A plausible bug: the user's own change of nick is not marked.
OnNickUnmarked(msg) == Becomes(AfterNick(msg), FALSE)

\* NICK: somebody else's is marked only when there is a query with him, which there is not.
OnNick(msg) == Becomes(AfterNick(msg), msg.who = view.nick)

\* MODE, of a user that is known; never marked.
OnMode(msg) ==
    LET b == view.buffers[msg.chan]
    IN  IF msg.who \in b.users
        THEN InBuffer(msg.chan, [b EXCEPT !.ops = IF msg.to THEN @ \union {msg.who}
                                                  ELSE @ \ {msg.who}], FALSE)
        ELSE UNCHANGED <<view, dirty>>

\* The first line of a list empties the channel it is about: the flag is one for the
\* connection, so that the other channels of the list are added to what was there.
OnNames(msg) ==
    LET b == Known(view.buffers[msg.chan])
        kept == IF view.names THEN b ELSE [b EXCEPT !.users = {}, !.ops = {}]
    IN  Becomes([view EXCEPT !.names = TRUE,
                             !.buffers[msg.chan] =
                                 [kept EXCEPT !.users = @ \union msg.to,
                                              !.ops = (@ \ msg.to) \union msg.ops]], TRUE)

\* A plausible bug: the end of a list is not noted.
OnEndOfNamesIgnored(msg) ==
    /\ UNCHANGED <<view, dirty>>
    /\ synced' = TRUE

OnEndOfNames(msg) ==
    /\ Becomes([view EXCEPT !.names = FALSE], TRUE)
    /\ synced' = TRUE

\* PRIVMSG and NOTICE: dropped when the buffer says that the channel was left.
OnMessage(msg) ==
    LET b == view.buffers[msg.chan]
    IN  IF b.exists /\ ~b.joined THEN UNCHANGED <<view, dirty>>
        ELSE InBuffer(msg.chan, Known(b), ~b.exists)

Handle ==
    /\ inbox # <<>>
    /\ inbox' = Tail(inbox)
    /\ late' = (late \/ stopping)
    /\ LET msg == Head(inbox)
       IN  \/ msg.cmd = "JOIN" /\ OnJoin(msg) /\ UNCHANGED listing
           \/ msg.cmd \in {"PART", "KICK"} /\ OnPart(msg) /\ UNCHANGED listing
           \/ msg.cmd = "QUIT" /\ OnQuit(msg) /\ UNCHANGED listing
           \/ msg.cmd = "NICK" /\ OnNick(msg) /\ UNCHANGED listing
           \/ msg.cmd = "MODE" /\ OnMode(msg) /\ UNCHANGED listing
           \/ /\ msg.cmd = "353" /\ OnNames(msg)
              /\ began' = IF synced /\ view.nick = msg.who THEN began \union {msg.chan} ELSE began
              /\ listed' = listed \union {msg.chan}
              /\ synced' = FALSE
           \/ msg.cmd = "366" /\ OnEndOfNames(msg) /\ UNCHANGED <<began, listed>>
           \/ msg.cmd = "PRIVMSG" /\ OnMessage(msg) /\ UNCHANGED listing
    /\ UNCHANGED <<channelVars, row, stopping, crashed, events, stops>>

----------------------------------------------------------------------------
(* Saving and restarting.                                                  *)

Save ==
    /\ dirty
    /\ row' = view /\ dirty' = FALSE
    /\ UNCHANGED <<channelVars, inbox, view, stopping, history, events, stops>>

\* prepareShutdown(): dirty states are saved; then the worker waits for its handlers.
Flush ==
    /\ ~stopping /\ stops < MaxStops
    /\ stops' = stops + 1
    /\ row' = IF dirty THEN view ELSE row
    /\ dirty' = FALSE /\ stopping' = TRUE
    /\ UNCHANGED <<channelVars, inbox, view, history, events>>

\* A new worker has the row.
Loaded ==
    /\ view' = row /\ dirty' = FALSE /\ stopping' = FALSE
    /\ synced' = FALSE /\ began' = {} /\ listed' = {}
    /\ UNCHANGED <<channelVars, row, late, events>>

Exit == stopping /\ Loaded /\ UNCHANGED <<inbox, crashed, stops>>

\* The line that was given to the worker may be lost with it, over IPC.
Crash ==
    /\ stops < MaxStops /\ stops' = stops + 1
    /\ crashed' = TRUE
    /\ \/ UNCHANGED inbox
       \/ inbox # <<>> /\ inbox' = Tail(inbox)
    /\ Loaded

ViewNext == Server \/ Handle \/ Save \/ Flush \/ Exit \/ Crash

ViewSpec == ViewInit /\ [][ViewNext]_viewVars

----------------------------------------------------------------------------

Buffer == [exists : BOOLEAN, joined : BOOLEAN, users : SUBSET Names, ops : SUBSET Names]

ViewTypeOK ==
    /\ members \in [Chans -> SUBSET Names] /\ ops \in [Chans -> SUBSET Names]
    /\ nick \in Names /\ dirty \in BOOLEAN /\ stopping \in BOOLEAN
    /\ {view, row} \subseteq [nick : Names, names : BOOLEAN, buffers : [Chans -> Buffer]]
    /\ listed \subseteq Chans

\* The worker knows the users of a channel and their prefixes.
Knows(c) ==
    /\ view.buffers[c].users = members[c]
    /\ view.buffers[c].ops = ops[c]

\* The worker agrees with the server about which channels the user is in, and his nick.
Agrees ==
    /\ view.nick = nick
    /\ \A c \in Chans : view.buffers[c].joined <=> nick \in members[c]

\* "This is the start of a new NAMES list. Clear out the old for this new one"
\* (upstreamcommands.js:542): a channel that was in a list the worker has seen is known
\* exactly from then on.
KnownOnceListed ==
    inbox = <<>> => \A c \in listed : nick \in members[c] => Knows(c)

\* It is when the list began with it, as that of each JOIN does, and the flag was not left
\* up by a worker before: in the first worker, and after the end of a list in any other
\* that knows the nick, whatever was lost before and however many lists follow.
KnownOnceListedAgain ==
    inbox = <<>> => \A c \in began : nick \in members[c] => Knows(c)

\* The channels that are joined, and the nick, are still known to the next worker when the
\* last one was stopped and handled no line after its flush.
AgreesUntilLate == inbox = <<>> /\ ~crashed /\ ~late => Agrees

\* "Flush all dirty connection states before exiting" (worker.js:162): what the worker
\* knows survives a stop.
FlushKeepsChannels == inbox = <<>> /\ ~crashed => Agrees

=============================================================================
