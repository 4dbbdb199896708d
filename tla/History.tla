------------------------------- MODULE History -------------------------------
(***************************************************************************)
(* What the clients of a user are given of one query: live, from the dump  *)
(* a plain client gets when it logs in, and through CHATHISTORY and        *)
(* LISTBUFFERS, which a client with the bouncer capability uses.           *)
(*                                                                         *)
(* Everything is found by time.  The store keeps the time the server put   *)
(* on a message, which may lie behind the worker's clock and is that of    *)
(* other messages as well; a plain client is given what is not older than  *)
(* the last message it was sent live (its 'auto:' mark); a bouncer client  *)
(* says how far the user has read.  Messages are numbered as they   *)
(* arrive; the store may write them later (a queue, SQLITE_BUSY).          *)
(*                                                                         *)
(* Left out: messages the user sends, and crashes (see ConnectionStates).  *)
(***************************************************************************)
EXTENDS Integers, Sequences, FiniteSets, FiniteSetsExt

CONSTANTS Ids,         \* client ids the bouncer clients log in with
          MaxPage,     \* MAX_MESSAGES of CHATHISTORY
          Asks,        \* the limits clients ask for
          DumpSize,    \* connectHistory
          Window,      \* the day a client without a mark is given
          MaxLag,      \* bound: ticks a message's time may lie behind the clock
          MaxClock, MaxMessages,
          MaxRare      \* bound: messages with an older time or stored late, and purges

ASSUME HistoryAssumption ==
    /\ {MaxPage, DumpSize, Window, MaxClock} \subseteq Nat \ {0}
    /\ Asks \subseteq Nat /\ {MaxLag, MaxMessages, MaxRare} \subseteq Nat
    /\ Ids \cap {"auto", "anchor"} = {}

VARIABLES
    clock,
    times,     \* of every message, in order of arrival
    stored,    \* the first of them have been written
    log,       \* those that are in the store
    buffer,    \* exists, and lastSeen: its marks, 0 for none
    plain,     \* the plain client: "off", "dumping", "on"
    web,       \* the bouncer client: "off", "filling", "on"
    ref,       \* the message after which it still asks for more, or 0
    held,      \* messages it holds
    owed,      \* history: messages the plain client is still to be given
    holes,     \* history: messages the bouncer client does not hold and may miss
    read,      \* history: per mark, the last message read
    early,     \* history: the query was made when its message was not yet stored
    rare

store == <<times, stored, log>>
webVars == <<web, ref, held, holes>>
plainVars == <<plain, owed>>
reading == <<read, early>>
historyVars == <<clock, store, buffer, plainVars, webVars, reading, rare>>

Marks == Ids \union {"auto", "anchor"}
NoMarks == [k \in Marks |-> 0]

HistoryInit ==
    /\ clock = 1 /\ times = <<>> /\ stored = 0 /\ log = {}
    /\ buffer = [exists |-> FALSE, lastSeen |-> NoMarks]
    /\ plain = "off" /\ owed = {}
    /\ web = "off" /\ ref = 0 /\ held = {} /\ holes = {}
    /\ read = NoMarks /\ early = FALSE
    /\ rare = 0

Unstored == (stored + 1)..Len(times)

----------------------------------------------------------------------------
(* The queries of the store.  Of messages with one time any may come first. *)

\* ORDER BY time LIMIT n, and ORDER BY time DESC LIMIT n
OldestPages(rows, n) ==
    {p \in kSubset(Min({n, Cardinality(rows)}), rows) :
        \A m \in p, o \in rows \ p : times[m] <= times[o]}
NewestPages(rows, n) ==
    {p \in kSubset(Min({n, Cardinality(rows)}), rows) :
        \A m \in p, o \in rows \ p : times[m] >= times[o]}

\* The time of a reference; of a message that is not in the store it is NULL, and
\* comparing with it finds nothing.
Refers(m, by) == by = "timestamp" \/ m \in log

\* A plausible bug: the newest messages are taken, not the next ones.
LatestAfter(m, by, n) ==
    NewestPages({r \in log : Refers(m, by) /\ times[r] > times[m]}, n)

AfterRef(m, by, n) == OldestPages({r \in log : Refers(m, by) /\ times[r] > times[m]}, n)

BeforeRef(m, by, n) == NewestPages({r \in log : Refers(m, by) /\ times[r] <= times[m]}, n)

Latest(n) == NewestPages({r \in log : times[r] <= clock}, n)

\* A plausible bug: the lower bound is exclusive.
BetweenExclusive(from, to, n) == NewestPages({r \in log : from < times[r] /\ times[r] < to}, n)

Between(from, to, n) == NewestPages({r \in log : from <= times[r] /\ times[r] < to}, n)

\* The time of the (n+1)th latest of these rows, or 0.
NthLatest(rows, ts, n) ==
    Max({0} \union {ts[m] : m \in {m \in rows :
        Cardinality({o \in rows : ts[o] > ts[m] \/ (ts[o] = ts[m] /\ o >= m)}) = n + 1}})

CountSince(t) == Cardinality({r \in log : times[r] > t})

\* parseLimit(), and "length || 50" in the store
Limit(asked) == IF asked = 0 \/ asked > MaxPage THEN MaxPage ELSE asked

----------------------------------------------------------------------------
(* A message arrives: it is stored, makes the buffer and goes to clients.  *)

\* updateLastSeen()
Seen(b, now) == [b EXCEPT !.lastSeen.auto = Max({@, now})]

\* getOrAddBuffer(), with the anchor that the BOUNCER extension sets on a new buffer.
Added(rows, ts) ==
    IF buffer.exists THEN buffer
    ELSE [exists |-> TRUE, lastSeen |-> [NoMarks EXCEPT !["anchor"] = NthLatest(rows, ts, 1)]]

Arrive(lag, delayed) ==
    LET n == Len(times) + 1
        t == clock - lag
        now == ~delayed /\ Unstored = {}
    IN  /\ n <= MaxMessages /\ t > 0
        /\ rare' = IF delayed \/ lag > 0 THEN rare + 1 ELSE rare
        /\ rare' <= MaxRare
        /\ times' = Append(times, t)
        /\ stored' = IF now THEN n ELSE stored
        /\ log' = IF now THEN log \union {n} ELSE log
        /\ buffer' = LET b == Added(log', times')
                     IN  IF plain = "off" THEN b ELSE Seen(b, clock)
        /\ owed' = CASE plain = "on" -> owed
                     [] plain = "dumping" -> {}
                     [] OTHER -> IF t < buffer.lastSeen.auto THEN owed ELSE owed \union {n}
        /\ held' = IF web = "off" THEN held ELSE held \union {n}
        /\ read' = IF buffer.exists \/ log' \subseteq {n} THEN read
                   ELSE [read EXCEPT !["anchor"] = n - 1]
        /\ early' = (early \/ (~buffer.exists /\ ~now))
    /\ UNCHANGED <<clock, plain, web, ref, holes>>

\* storeMessageLoop() gets to a message that had to wait.
Store ==
    /\ Unstored # {}
    /\ stored' = stored + 1 /\ log' = log \union {stored + 1}
    /\ UNCHANGED <<clock, times, buffer, plainVars, webVars, reading, rare>>

\* The retention task deletes what is older than a cutoff.
Purge(cutoff) ==
    /\ rare < MaxRare /\ rare' = rare + 1
    /\ log' = {m \in log : times[m] >= cutoff} /\ log' # log
    /\ owed' = owed \ (log \ log')
    /\ UNCHANGED <<clock, times, stored, buffer, plain, webVars, reading>>

Tick ==
    /\ clock < MaxClock /\ clock' = clock + 1
    /\ UNCHANGED <<store, buffer, plainVars, webVars, reading, rare>>

----------------------------------------------------------------------------
(* The plain client.  It is registered, and gets live messages, before the *)
(* dump has come to this buffer.                                           *)

PlainLogin ==
    /\ plain = "off" /\ plain' = "dumping"
    /\ UNCHANGED <<clock, store, buffer, owed, webVars, reading, rare>>

\* The mark stays where it is: a message read from the store has a prefix but no nick, so
\* that writeMsg() looks for a buffer without a name.  No longer owed: what it gives, what a
\* full dump or the default of a day leaves out, what has the very time of the dump, and
\* what is not stored yet.
Dump ==
    LET mark == buffer.lastSeen.auto
        since == IF mark = 0 THEN clock - Window ELSE mark
    IN  /\ plain = "dumping" /\ plain' = "on"
        /\ \/ ~buffer.exists /\ UNCHANGED owed
           \/ /\ buffer.exists
              /\ \E page \in Between(since, clock, DumpSize) :
                    owed' = IF Cardinality(page) = DumpSize THEN {}
                            ELSE {m \in (owed \intersect log) \ page :
                                     times[m] < clock /\ (mark = 0 => times[m] >= since)}
    /\ UNCHANGED <<clock, store, buffer, webVars, reading, rare>>

PlainLeave ==
    /\ plain = "on" /\ plain' = "off"
    /\ UNCHANGED <<clock, store, buffer, owed, webVars, reading, rare>>

----------------------------------------------------------------------------
(* The bouncer client, as webchat clients fill their history.              *)

First(ms) == CHOOSE m \in ms : \A o \in ms : times[m] < times[o] \/ (times[m] = times[o] /\ m <= o)
Last(ms) == CHOOSE m \in ms : \A o \in ms : times[m] > times[o] \/ (times[m] = times[o] /\ m >= o)

\* CHATHISTORY LATEST * when it holds nothing.
WebConnect(asked) ==
    /\ web = "off"
    /\ \/ /\ held = {} /\ web' = "on"
          /\ held' \in Latest(Limit(asked))
          /\ holes' = Unstored
          /\ UNCHANGED ref
       \/ /\ held # {} /\ web' = "filling"
          /\ ref' = IF ref = 0 THEN Last(held) ELSE ref
          /\ UNCHANGED <<held, holes>>
    /\ UNCHANGED <<clock, store, buffer, plainVars, reading, rare>>

\* CHATHISTORY AFTER, page by page.  What is not stored yet may be missed, and everything
\* when the message it asks by has been deleted.
Fill(asked, by) ==
    /\ web = "filling"
    /\ \E page \in AfterRef(ref, by, Limit(asked)) :
          LET more == Cardinality(page) = Limit(asked)
          IN  /\ held' = held \union page
              /\ web' = IF more THEN web ELSE "on"
              /\ ref' = IF more THEN Last(page) ELSE 0
              /\ holes' = (CASE more -> holes
                             [] ~more /\ Refers(ref, by) -> holes \union Unstored
                             [] OTHER -> 1..Len(times)) \ held'
    /\ UNCHANGED <<clock, store, buffer, plainVars, reading, rare>>

\* CHATHISTORY BEFORE
ScrollBack(asked, by) ==
    /\ web = "on" /\ held # {}
    /\ \E page \in BeforeRef(First(held), by, Limit(asked)) : held' = held \union page
    /\ holes' = holes \ held'
    /\ UNCHANGED <<clock, store, buffer, plainVars, web, ref, reading, rare>>

WebLeave ==
    /\ web # "off" /\ web' = "off"
    /\ UNCHANGED <<clock, store, buffer, plainVars, ref, held, holes, reading, rare>>

----------------------------------------------------------------------------
(* Read marks.                                                             *)

\* A plausible bug: what was written to plain clients counts as read.
MaxSeenOfAll(b) == Max({b.lastSeen[k] : k \in Marks})

\* maxSeenTs()
MaxSeen(b) == Max({b.lastSeen[k] : k \in Marks \ {"auto"}})

\* sendBufferListToClient()
Unread ==
    LET seen == MaxSeen(buffer)
    IN  CountSince(IF seen = 0 THEN NthLatest(log, times, DumpSize) ELSE seen)

\* CHANGEBUFFER seen=1, and with the time of a message that was read.
ReadAll(id) ==
    /\ web # "off" /\ buffer.exists
    /\ buffer' = [buffer EXCEPT !.lastSeen[id] = clock]
    /\ read' = [read EXCEPT ![id] = Len(times)]
    /\ UNCHANGED <<clock, store, plainVars, webVars, early, rare>>

ReadTo(id, m) ==
    /\ web # "off" /\ buffer.exists
    /\ buffer' = [buffer EXCEPT !.lastSeen[id] = times[m]]
    /\ read' = [read EXCEPT ![id] = m]
    /\ UNCHANGED <<clock, store, plainVars, webVars, early, rare>>

\* DELBUFFER: the marks go with the buffer, and what the plain client had not been given.
DelBuffer ==
    /\ web # "off" /\ buffer.exists
    /\ buffer' = [exists |-> FALSE, lastSeen |-> NoMarks]
    /\ owed' = {}
    /\ read' = NoMarks /\ early' = FALSE
    /\ UNCHANGED <<clock, store, plain, webVars, rare>>

----------------------------------------------------------------------------

References == {"msgid", "timestamp"}

HistoryNext ==
    \/ Tick \/ Store
    \/ \E lag \in 0..MaxLag, delayed \in BOOLEAN : Arrive(lag, delayed)
    \/ \E cutoff \in 2..clock : Purge(cutoff)
    \/ PlainLogin \/ Dump \/ PlainLeave
    \/ \E asked \in Asks : WebConnect(asked)
    \/ \E asked \in Asks, by \in References : Fill(asked, by) \/ ScrollBack(asked, by)
    \/ WebLeave \/ DelBuffer
    \/ \E id \in Ids : ReadAll(id) \/ \E m \in held : ReadTo(id, m)

HistorySpec == HistoryInit /\ [][HistoryNext]_historyVars

----------------------------------------------------------------------------

HistoryTypeOK ==
    /\ clock \in 1..MaxClock /\ times \in Seq(1..MaxClock) /\ stored \in 0..Len(times)
    /\ log \subseteq 1..stored
    /\ buffer \in [exists : BOOLEAN, lastSeen : [Marks -> 0..MaxClock]]
    /\ plain \in {"off", "dumping", "on"} /\ web \in {"off", "filling", "on"}
    /\ UNION {held, owed, holes} \subseteq 1..Len(times)
    /\ ref \in 0..Len(times) /\ read \in [Marks -> 0..Len(times)]

\* Messages have the order of their times, and no two have one time.
InOrder == \A m, n \in DOMAIN times : m < n => times[m] < times[n]

\* A plain client that has been sent its history has been given every stored message
\* (connectionincoming.js:504), however often it was away and whichever times messages
\* share, except: those that came late by the server's clock, that a dump had no room for,
\* that were older than a day when the client had never been sent a message live, that were
\* not stored or had the time of the dump, that a message arriving during a dump left
\* behind, or that were in a query the user closed.
MissesNothing == plain = "on" => log \intersect owed = {}

\* A bouncer client that has asked for what it missed holds every stored message that is
\* not older than all it holds: the history has no hole (chathistory/index.js:201), when
\* messages have an order, and the one it asked by has not been deleted.
HistoryIsWhole ==
    InOrder /\ web = "on" =>
        \A m \in log \ (held \union holes) : \A h \in held : m < h

\* LISTBUFFERS counts the messages that arrived after what the user has read, or after he
\* closed the query ("so only newly received messages count as unread",
\* bouncer/index.js:215), and not more than a dump has if he has never read; whatever was
\* written to plain clients.  Excepted are messages with the time at which all was read,
\* and a query that was made when its message was not yet stored.
UnreadIsExact ==
    LET upTo == Max({read[k] : k \in Marks})
        newer == {m \in log : m > upTo}
        tied == \E m \in newer, id \in Ids : times[m] <= buffer.lastSeen[id]
    IN  buffer.exists /\ InOrder /\ ~tied /\ ~early =>
            Unread = IF upTo = 0 THEN Min({Cardinality(newer), DumpSize}) ELSE Cardinality(newer)

=============================================================================
