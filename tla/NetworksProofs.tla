--------------------------- MODULE NetworksProofs ---------------------------
(***************************************************************************)
(* Proofs about Networks for every set of clients, networks and            *)
(* connections and every bound: a network has two connections only where   *)
(* one was taken from another network, a setting is lost only to a client  *)
(* that had read an older one, a deleted network has no connection, and    *)
(* what the clients were told is true until a worker restarts or the       *)
(* messages overtake each other.                                           *)
(***************************************************************************)
EXTENDS Networks, FiniteSetTheorems, SequenceTheorems, TLAPS

Places == {None, "read", "act", "count", "insert", "drop", "list"}
Runs == [op : Commands \union {None, "list"}, net : Nets \union {None}, at : Places,
         col : Cols \union {None}, row : {<<>>} \union [Cols -> Values]]
Events == [ev : {"open", "existing", "close"}, o : Objects]

Typed ==
    /\ TypeOK
    /\ run \in [Clients -> Runs]
    /\ events \in Seq(Events)
    /\ notes \in [Nets -> Seq(BOOLEAN)] /\ overtaken \in [Nets -> Nat]
    /\ raced \subseteq created /\ restarted \in BOOLEAN

SameValues == \A n \in Nets, k \in Cols : vals[n][k] = last[n][k] \/ <<n, k>> \in clash

AtMostOne ==
    \A o, p \in Objects :
        up[o].in /\ up[p].in /\ up[o].net = up[p].net /\ up[o].net \notin moved => o = p

\* Nothing happens to a connection that was not made.
UnusedClean ==
    \A o \in Objects :
        up[o].net = None => /\ ~up[o].in /\ pend[o] = None /\ sock[o] = None
                            /\ \A i \in 1..Len(events) : events[i].o # o

\* The row is still to be inserted.
Inserts(r) == r.op = "add" /\ r.at \in {"read", "count", "insert"}

\* What handler r of a client in network m relies on, when the networks `made` were made.
Fits(r, m, made) ==
    /\ r.op = "login" => m = None
    /\ r.op \in {"disconnect", "change", "delete"} => r.net \in made
    /\ r.at = "drop" => r.op = "delete"
    /\ Inserts(r) => r.net \notin made
    /\ r.op \in Commands => r.net \in Nets

Handlers ==
    /\ \A c \in Clients : Fits(run[c], netOf[c], created)
    /\ \A c, d \in Clients :
           Inserts(run[c]) /\ Inserts(run[d]) /\ run[c].net = run[d].net => c = d
    /\ \A c \in Clients : making[c] # None => netOf[c] # None

\* Handler r has read the row of its network and will connect it.
WillConnect(r) == r.at = "act" /\ r.op \in {"login", "connect"}

RowsRead ==
    /\ \A c \in Clients : WillConnect(run[c]) => run[c].net \in rows \union raced
    /\ \A c \in Clients : making[c] = "make" => netOf[c] \in rows \union raced

ClosedUp ==
    \A c \in Clients :
        run[c].at = "drop" => Find(run[c].net) = {} \/ run[c].net \in raced \union moved

\* Nothing is known of a network that was not made yet.
NotYet ==
    \A n \in Nets \ created : Find(n) = {} /\ (\A c \in Clients : ~view[c][n]) /\ notes[n] = <<>>

RetryDown == ~restarted => \A o \in Objects : up[o].retry => ~up[o].connected

Closes(e, o) == e.o = o /\ e.ev = "close"
Opens(e, o) == e.o = o /\ e.ev # "close"

\* The worker, for which connection o is connected or not, knows it as connected when it has
\* handled the events of evs before the i-th.
OpenAt(evs, connected, o, i) ==
    \/ connected /\ \A j \in 1..(i - 1) : ~Closes(evs[j], o)
    \/ \E j \in 1..(i - 1) : /\ Opens(evs[j], o)
                             /\ \A k \in (j + 1)..(i - 1) : ~Closes(evs[k], o)

\* A socket is announced as existing, and is open, only if the worker knows by then.
EventsAgree ==
    ~restarted => \A o \in Objects : up[o].in =>
        /\ \A i \in 1..Len(events) : events[i].o = o /\ events[i].ev = "existing"
              => OpenAt(events, up[o].connected, o, i)
        /\ sock[o] = "open" => OpenAt(events, up[o].connected, o, Len(events) + 1)

\* The last that is said of network n is true, if the last note is sent last.
LastTold(n) ==
    /\ overtaken[n] # Len(notes[n]) => (notes[n][Len(notes[n])] <=> Connected(n))
    /\ overtaken[n] = Len(notes[n]) /\ n \notin behind
           => \A c \in Clients : view[c][n] <=> Connected(n)

Overtaken == \A n \in Nets : overtaken[n] <= Len(notes[n])
TellsTruth == ~restarted => \A n \in rows \ moved : ~DropsNow(n) => LastTold(n)

IInv ==
    /\ Typed /\ SameValues /\ AtMostOne /\ UnusedClean /\ Handlers /\ RowsRead /\ ClosedUp
    /\ GoneUnlessRaced /\ NotYet /\ RetryDown /\ EventsAgree /\ Overtaken /\ TellsTruth

-----------------------------------------------------------------------------
(* Lemmas.  The groups of variables are expanded wherever they occur.      *)

USE DEF users, dictionary, outside, messages, clients, past, bounds

\* The events up to the i-th are the same when one is added.
LEMMA OpenAtAppend ==
    ASSUME NEW evs \in Seq(Events), NEW e \in Events, NEW connected, NEW o,
           NEW i \in 1..(Len(evs) + 1), OpenAt(evs, connected, o, i)
    PROVE  OpenAt(Append(evs, e), connected, o, i)
<1> DEFINE new == Append(evs, e)
<1>1. Len(evs) \in Nat /\ i \in Nat
  BY LenProperties
<1>2. \A j \in 1..(i - 1) : new[j] = evs[j]
  BY <1>1, AppendProperties
<1> HIDE DEF new
<1>3. CASE connected /\ \A j \in 1..(i - 1) : ~Closes(evs[j], o)
  BY <1>2, <1>3 DEF OpenAt, new
<1>4. CASE \E j \in 1..(i - 1) : /\ Opens(evs[j], o)
                                 /\ \A k \in (j + 1)..(i - 1) : ~Closes(evs[k], o)
  <2>1. PICK j \in 1..(i - 1) : /\ Opens(evs[j], o)
                                /\ \A k \in (j + 1)..(i - 1) : ~Closes(evs[k], o)
    BY <1>4
  <2>2. \A k \in (j + 1)..(i - 1) : k \in 1..(i - 1)
    BY <1>1
  <2>3. Opens(new[j], o) /\ \A k \in (j + 1)..(i - 1) : ~Closes(new[k], o)
    BY <1>2, <2>1, <2>2
  <2>4. QED
    BY <2>3 DEF OpenAt, new
<1>5. QED
  BY <1>3, <1>4 DEF OpenAt

\* When the first event is handled the others say the same, if the worker knows what it said.
LEMMA OpenAtTail ==
    ASSUME NEW evs \in Seq(Events), evs # <<>>, NEW connected, NEW connected2, NEW o,
           NEW i \in 1..Len(evs), OpenAt(evs, connected, o, i + 1),
           connected /\ ~Closes(Head(evs), o) => connected2,
           Opens(Head(evs), o) => connected2
    PROVE  OpenAt(Tail(evs), connected2, o, i)
<1> DEFINE new == Tail(evs)
<1>1. Len(evs) \in Nat \ {0} /\ i \in Nat \ {0} /\ Head(evs) = evs[1]
  BY LenProperties, EmptySeq, HeadTailProperties
<1>2. \A j \in 1..(i - 1) : new[j] = evs[j + 1]
  BY <1>1, HeadTailProperties
<1> HIDE DEF new
<1>3. CASE connected /\ \A j \in 1..i : ~Closes(evs[j], o)
  <2>1. \A j \in 1..(i - 1) : j + 1 \in 1..i
    BY <1>1
  <2>2. 1 \in 1..i
    BY <1>1
  <2>3. connected2 /\ \A j \in 1..(i - 1) : ~Closes(new[j], o)
    BY <1>1, <1>2, <1>3, <2>1, <2>2
  <2>4. QED
    BY <2>3 DEF OpenAt, new
<1>4. ASSUME NEW j \in 1..i, Opens(evs[j], o),
             \A k \in (j + 1)..i : ~Closes(evs[k], o)
      PROVE  OpenAt(Tail(evs), connected2, o, i)
  <2>1. \A k \in j..(i - 1) : k + 1 \in (j + 1)..i /\ k \in 1..(i - 1)
    BY <1>1
  <2>2. \A k \in j..(i - 1) : ~Closes(new[k], o)
    BY <1>2, <1>4, <2>1
  <2>3. CASE j = 1
    <3>1. connected2
      BY <1>1, <1>4, <2>3
    <3>2. QED
      BY <2>2, <2>3, <3>1 DEF OpenAt, new
  <2>4. CASE j # 1
    <3>1. j - 1 \in 1..(i - 1) /\ (j - 1) + 1 = j
      BY <1>1, <2>4
    <3>2. Opens(new[j - 1], o)
      BY <1>2, <1>4, <3>1
    <3>3. \A k \in ((j - 1) + 1)..(i - 1) : ~Closes(new[k], o)
      BY <2>2, <3>1
    <3>4. QED
      BY <3>1, <3>2, <3>3 DEF OpenAt, new
  <2>5. QED
    BY <2>3, <2>4
<1>5. (i + 1) - 1 = i
  BY <1>1
<1>6. QED
  BY <1>3, <1>4, <1>5 DEF OpenAt

\* A connection of network n is the only one, where none was taken from another network.
LEMMA TheOne ==
    ASSUME AtMostOne, NEW n, n \notin moved, NEW o \in Find(n)
    PROVE  Find(n) = {o} /\ (Connected(n) <=> up[o].connected)
  BY DEF Find, Connected, AtMostOne

\* Where nothing is changed that a conjunct speaks of, it stays.
LEMMA Frame ==
    ASSUME IInv
    PROVE  /\ UNCHANGED <<vals, last, clash>> => SameValues'
           /\ UNCHANGED <<up, moved>> => AtMostOne'
           /\ UNCHANGED <<up, pend, sock, events>> => UnusedClean'
           /\ UNCHANGED <<run, netOf, making, created>> => Handlers'
           /\ UNCHANGED <<run, netOf, making, rows, raced>> => RowsRead'
           /\ UNCHANGED <<run, up, raced, moved>> => ClosedUp'
           /\ UNCHANGED <<up, created, rows, raced, moved>> => GoneUnlessRaced'
           /\ UNCHANGED <<up, created, view, notes>> => NotYet'
           /\ UNCHANGED <<restarted, up>> => RetryDown'
           /\ UNCHANGED <<restarted, up, sock, events>> => EventsAgree'
           /\ UNCHANGED <<notes, overtaken>> => Overtaken'
           /\ UNCHANGED <<restarted, rows, run, notes, overtaken, behind, moved, view, up>>
                  => TellsTruth'
<1> USE DEF IInv
<1>1. UNCHANGED <<vals, last, clash>> => SameValues'
  BY DEF SameValues
<1>2. UNCHANGED <<up, moved>> => AtMostOne'
  BY DEF AtMostOne
<1>3. UNCHANGED <<up, pend, sock, events>> => UnusedClean'
  BY DEF UnusedClean
<1>4. UNCHANGED <<run, netOf, making, created>> => Handlers'
  BY DEF Handlers
<1>5. UNCHANGED <<run, netOf, making, rows, raced>> => RowsRead'
  BY DEF RowsRead
<1>6. UNCHANGED <<run, up, raced, moved>> => ClosedUp'
  BY DEF ClosedUp, Find
<1>7. UNCHANGED <<up, created, rows, raced, moved>> => GoneUnlessRaced'
  BY DEF GoneUnlessRaced, Find
<1>8. UNCHANGED <<up, created, view, notes>> => NotYet'
  BY DEF NotYet, Find
<1>9. UNCHANGED <<restarted, up>> => RetryDown'
  BY DEF RetryDown
<1>10. UNCHANGED <<restarted, up, sock, events>> => EventsAgree'
  BY DEF EventsAgree
<1>11. UNCHANGED <<notes, overtaken>> => Overtaken'
  BY DEF Overtaken
<1>12. UNCHANGED <<restarted, rows, run, notes, overtaken, behind, moved, view, up>> => TellsTruth'
  BY DEF TellsTruth, DropsNow, LastTold, Connected, Find
<1>13. QED
  BY <1>1, <1>2, <1>3, <1>4, <1>5, <1>6, <1>7, <1>8, <1>9, <1>10, <1>11, <1>12

-----------------------------------------------------------------------------
(* Connections.                                                            *)

\* What the steps of a connection that change no flag of it leave alone.
LEMMA QuietKeeps ==
    ASSUME IInv, UNCHANGED <<users, up, messages, clients, run, making, view, past, restarted>>
    PROVE  /\ SameValues' /\ AtMostOne' /\ Handlers' /\ RowsRead' /\ ClosedUp'
           /\ GoneUnlessRaced' /\ NotYet' /\ RetryDown' /\ Overtaken' /\ TellsTruth'
  BY Frame

LEMMA LoadKeeps ==
    ASSUME IInv, NEW o \in Objects, Load(o)
    PROVE  IInv'
<1>1. UNCHANGED <<users, up, messages, clients, run, making, view, past, restarted>> /\ UNCHANGED outside
  BY DEF Load
<1>2. Typed'
  BY <1>1 DEF IInv, Typed, TypeOK, Load
<1>3. UnusedClean'
  BY <1>1 DEF IInv, UnusedClean, Load, Typed, TypeOK, None
<1>4. EventsAgree'
  BY <1>1, Frame
<1>5. QED
  BY <1>1, <1>2, <1>3, <1>4, QuietKeeps DEF IInv

LEMMA TimerKeeps ==
    ASSUME IInv, NEW o \in Objects, Timer(o)
    PROVE  IInv'
<1>1. UNCHANGED <<users, up, messages, clients, run, making, view, past, restarted>> /\ UNCHANGED outside
  BY DEF Timer
<1>2. Typed'
  BY <1>1 DEF IInv, Typed, TypeOK, Timer
<1>3. UnusedClean'
  BY <1>1 DEF IInv, UnusedClean, Timer, Typed, TypeOK, None
<1>4. EventsAgree'
  BY <1>1, Frame
<1>5. QED
  BY <1>1, <1>2, <1>3, <1>4, QuietKeeps DEF IInv

\* An event is added by the sockets layer.
LEMMA EventAdded ==
    ASSUME IInv, NEW o \in Objects, NEW e \in Events, e.o = o,
           events' = Append(events, e), UNCHANGED restarted,
           \A p \in Objects : up'[p].in => up[p].in /\ up'[p].connected = up[p].connected,
           \A p \in Objects : p # o => sock'[p] = sock[p],
           e.ev = "existing" /\ up[o].in /\ ~restarted
               => OpenAt(events, up[o].connected, o, Len(events) + 1),
           sock'[o] = "open" => e.ev # "close"
    PROVE  EventsAgree'
<1> DEFINE n == Len(events)
<1>1. events \in Seq(Events) /\ n \in Nat
  BY LenProperties DEF IInv, Typed
<1>2. /\ Len(events') = n + 1 /\ events'[n + 1] = e
      /\ \A i \in 1..n : events'[i] = events[i]
  BY <1>1, AppendProperties
<1> SUFFICES ASSUME ~restarted, NEW p \in Objects, up[p].in
             PROVE  /\ \A i \in 1..Len(events') : events'[i].o = p /\ events'[i].ev = "existing"
                          => OpenAt(events', up[p].connected, p, i)
                    /\ sock'[p] = "open" => OpenAt(events', up[p].connected, p, Len(events') + 1)
  BY DEF EventsAgree
<1> HIDE DEF n
<1>3. /\ \A i \in 1..n : events[i].o = p /\ events[i].ev = "existing"
            => OpenAt(events, up[p].connected, p, i)
      /\ sock[p] = "open" => OpenAt(events, up[p].connected, p, n + 1)
  BY DEF IInv, EventsAgree, n
<1>4. ASSUME NEW i \in 1..(n + 1), OpenAt(events, up[p].connected, p, i)
      PROVE  OpenAt(events', up[p].connected, p, i)
  BY <1>1, <1>4, OpenAtAppend DEF n
<1>5. ASSUME NEW i \in 1..Len(events'), events'[i].o = p, events'[i].ev = "existing"
      PROVE  OpenAt(events', up[p].connected, p, i)
  <2>1. CASE i = n + 1
    <3>1. OpenAt(events, up[p].connected, p, n + 1)
      BY <1>2, <1>5, <2>1 DEF n
    <3>2. QED
      BY <1>1, <1>4, <2>1, <3>1
  <2>2. CASE i # n + 1
    <3>1. i \in 1..n /\ i \in 1..(n + 1)
      BY <1>1, <1>2, <2>2
    <3>2. QED
      BY <1>2, <1>3, <1>4, <1>5, <3>1
  <2>3. QED
    BY <2>1, <2>2
<1>6. ASSUME sock'[p] = "open"
      PROVE  OpenAt(events', up[p].connected, p, Len(events') + 1)
  <2>1. CASE p = o
    <3>1. Opens(events'[n + 1], p)
      BY <1>2, <1>6, <2>1 DEF Opens
    <3>2. n + 1 \in 1..((n + 2) - 1) /\ ((n + 1) + 1)..((n + 2) - 1) = {}
      BY <1>1
    <3>3. OpenAt(events', up[p].connected, p, n + 2)
      BY <3>1, <3>2 DEF OpenAt
    <3>4. Len(events') + 1 = n + 2
      BY <1>1, <1>2
    <3>5. QED
      BY <3>3, <3>4
  <2>2. CASE p # o
    <3>1. OpenAt(events', up[p].connected, p, n + 1)
      BY <1>1, <1>3, <1>4, <1>6, <2>2
    <3>2. ~Closes(events'[n + 1], p)
      BY <1>2, <2>2 DEF Closes
    <3>3. \A j \in 1..((n + 2) - 1) : j \in 1..((n + 1) - 1) \/ j = n + 1
      BY <1>1
    <3>4. \A j \in 1..((n + 1) - 1) : j \in 1..((n + 2) - 1)
      BY <1>1
    <3>5. \A j \in 1..((n + 1) - 1) : \A k \in (j + 1)..((n + 2) - 1) :
              k \in (j + 1)..((n + 1) - 1) \/ k = n + 1
      BY <1>1
    <3>6. OpenAt(events', up[p].connected, p, n + 2)
      BY <3>1, <3>2, <3>3, <3>4, <3>5 DEF OpenAt
    <3>7. Len(events') + 1 = n + 2
      BY <1>1, <1>2
    <3>8. QED
      BY <3>6, <3>7
  <2>3. QED
    BY <2>1, <2>2
<1>7. QED
  BY <1>5, <1>6

\* An event is added about a connection that was made.
LEMMA EventOfMade ==
    ASSUME IInv, NEW o \in Objects, sock[o] # None \/ pend[o] # None, NEW e \in Events, e.o = o,
           events' = Append(events, e),
           \A p \in Objects : (up'[p].in => up[p].in) /\ up'[p].net = up[p].net,
           \A p \in Objects : p # o => sock'[p] = sock[p] /\ pend'[p] = pend[p]
    PROVE  UnusedClean'
<1> SUFFICES ASSUME NEW p \in Objects, up[p].net = None
             PROVE  /\ ~up'[p].in /\ pend'[p] = None /\ sock'[p] = None
                    /\ \A i \in 1..Len(events') : events'[i].o # p
  BY DEF UnusedClean
<1>1. p # o /\ ~up'[p].in /\ pend'[p] = None /\ sock'[p] = None
  BY DEF IInv, UnusedClean
<1>2. events \in Seq(Events) /\ \A i \in 1..Len(events) : events[i].o # p
  BY DEF IInv, Typed, UnusedClean
<1>3. Len(events') = Len(events) + 1 /\ events'[Len(events) + 1] = e /\ Len(events) \in Nat
      /\ \A i \in 1..Len(events) : events'[i] = events[i]
  BY <1>2, AppendProperties, LenProperties
<1>4. \A i \in 1..Len(events') : i \in 1..Len(events) \/ i = Len(events) + 1
  BY <1>3
<1>5. QED
  BY <1>1, <1>2, <1>3, <1>4

LEMMA SendOpenKeeps ==
    ASSUME IInv, NEW o \in Objects, SendOpen(o)
    PROVE  IInv'
<1> DEFINE e == [ev |-> "existing", o |-> o]
<1>1. /\ UNCHANGED <<users, up, messages, clients, run, making, view, past, restarted>>
      /\ pend[o] = "send" /\ pend' = [pend EXCEPT ![o] = None]
      /\ sock' = [sock EXCEPT ![o] = IF @ = None THEN "opening" ELSE @]
      /\ events' = IF sock[o] = "open" THEN Append(events, e) ELSE events
  BY DEF SendOpen
<1>2. e \in Events /\ e.o = o /\ e.ev = "existing"
  BY DEF Events
<1> HIDE DEF e
<1>3. /\ sock \in [Objects -> {None, "opening", "open"}]
      /\ pend \in [Objects -> {None, "load", "send", "timer"}]
      /\ events \in Seq(Events)
  BY DEF IInv, Typed, TypeOK
<1>4. /\ sock' \in [Objects -> {None, "opening", "open"}]
      /\ pend' \in [Objects -> {None, "load", "send", "timer"}]
      /\ \A p \in Objects : p # o => sock'[p] = sock[p] /\ pend'[p] = pend[p]
      /\ sock'[o] = "open" <=> sock[o] = "open"
  BY <1>1, <1>3 DEF None
<1>5. events' \in Seq(Events)
  BY <1>1, <1>2, <1>3, AppendProperties
<1>6. Typed'
  BY <1>1, <1>4, <1>5 DEF IInv, Typed, TypeOK
<1>7. up[o].net # None
  BY <1>1 DEF IInv, UnusedClean, None
<1>8. CASE sock[o] = "open"
  <2>1. events' = Append(events, e) /\ sock[o] # None
    BY <1>1, <1>8 DEF None
  <2>2. UnusedClean'
    BY <1>1, <1>2, <1>4, <2>1, EventOfMade
  <2>3. up[o].in /\ ~restarted => OpenAt(events, up[o].connected, o, Len(events) + 1)
    BY <1>8 DEF IInv, EventsAgree
  <2>4. EventsAgree'
    BY <1>1, <1>2, <1>3, <1>4, <2>1, <2>3, EventAdded
  <2>5. QED
    BY <1>1, <1>6, <2>2, <2>4, QuietKeeps DEF IInv
<1>9. CASE sock[o] # "open"
  <2>1. UnusedClean'
    BY <1>1, <1>4, <1>7, <1>9 DEF IInv, UnusedClean
  <2>2. EventsAgree'
    BY <1>1, <1>4, <1>9 DEF IInv, EventsAgree
  <2>3. QED
    BY <1>1, <1>6, <2>1, <2>2, QuietKeeps DEF IInv
<1>10. QED
  BY <1>8, <1>9

LEMMA ConnectsKeeps ==
    ASSUME IInv, NEW o \in Objects, Connects(o)
    PROVE  IInv'
<1> DEFINE e == [ev |-> "open", o |-> o]
<1>1. /\ UNCHANGED <<users, up, messages, clients, run, making, view, past, restarted>> /\ UNCHANGED pend
      /\ sock[o] = "opening" /\ sock' = [sock EXCEPT ![o] = "open"]
      /\ events' = Append(events, e)
  BY DEF Connects
<1>2. e \in Events /\ e.o = o /\ e.ev = "open"
  BY DEF Events
<1> HIDE DEF e
<1>3. sock \in [Objects -> {None, "opening", "open"}] /\ events \in Seq(Events)
  BY DEF IInv, Typed, TypeOK
<1>4. /\ sock' \in [Objects -> {None, "opening", "open"}] /\ events' \in Seq(Events)
      /\ \A p \in Objects : p # o => sock'[p] = sock[p] /\ pend'[p] = pend[p]
  BY <1>1, <1>2, <1>3, AppendProperties
<1>5. Typed'
  BY <1>1, <1>4 DEF IInv, Typed, TypeOK
<1>6. UnusedClean'
  BY <1>1, <1>2, <1>4, EventOfMade DEF None
<1>7. EventsAgree'
  BY <1>1, <1>2, <1>4, EventAdded
<1>8. QED
  BY <1>1, <1>5, <1>6, <1>7, QuietKeeps DEF IInv

LEMMA DropsKeeps ==
    ASSUME IInv, NEW o \in Objects, Drops(o)
    PROVE  IInv'
<1> DEFINE e == [ev |-> "close", o |-> o]
<1>1. /\ UNCHANGED <<users, up, messages, clients, run, making, view, past, restarted>> /\ UNCHANGED pend
      /\ sock[o] # None /\ sock' = [sock EXCEPT ![o] = None]
      /\ events' = Append(events, e)
  BY DEF Drops
<1>2. e \in Events /\ e.o = o /\ e.ev = "close"
  BY DEF Events
<1> HIDE DEF e
<1>3. sock \in [Objects -> {None, "opening", "open"}] /\ events \in Seq(Events)
  BY DEF IInv, Typed, TypeOK
<1>4. /\ sock' \in [Objects -> {None, "opening", "open"}] /\ events' \in Seq(Events)
      /\ \A p \in Objects : p # o => sock'[p] = sock[p] /\ pend'[p] = pend[p]
      /\ sock'[o] = None
  BY <1>1, <1>2, <1>3, AppendProperties
<1>5. Typed'
  BY <1>1, <1>4 DEF IInv, Typed, TypeOK
<1>6. UnusedClean'
  BY <1>1, <1>2, <1>4, EventOfMade
<1>7. EventsAgree'
  <2>1. sock'[o] # "open"
    BY <1>4 DEF None
  <2>2. QED
    BY <1>1, <1>2, <1>4, <2>1, EventAdded
<1>8. QED
  BY <1>1, <1>5, <1>6, <1>7, QuietKeeps DEF IInv

\* Flags may change when connections stay where they are.
LEMMA FlagsKeep ==
    ASSUME IInv, \A p \in Objects : up'[p].in = up[p].in /\ up'[p].net = up[p].net,
           UNCHANGED <<users, netOf, making, run, past>>
    PROVE  /\ SameValues' /\ AtMostOne' /\ Handlers' /\ RowsRead' /\ ClosedUp' /\ GoneUnlessRaced'
           /\ \A n : Find(n)' = Find(n)
<1>1. \A n : Find(n)' = Find(n)
  BY DEF Find
<1>2. AtMostOne'
  BY DEF IInv, AtMostOne
<1>3. ClosedUp' /\ GoneUnlessRaced'
  BY <1>1 DEF IInv, ClosedUp, GoneUnlessRaced
<1>4. QED
  BY <1>1, <1>2, <1>3, Frame

\* The worker handles an event and knows what it says.
LEMMA EventTaken ==
    ASSUME IInv, events # <<>>, events' = Tail(events), UNCHANGED <<sock, restarted>>,
           \A p \in Objects : up'[p].in = up[p].in /\ up'[p].net = up[p].net,
           \A p \in Objects : up[p].net = None => pend'[p] = pend[p],
           \A p \in Objects : up[p].in /\ ~restarted =>
               /\ up[p].connected /\ ~Closes(Head(events), p) => up'[p].connected
               /\ Opens(Head(events), p) => up'[p].connected
    PROVE  EventsAgree' /\ UnusedClean'
<1> DEFINE n == Len(events)
<1>1. events \in Seq(Events)
  BY DEF IInv, Typed
<1>2. /\ n \in Nat \ {0} /\ Len(events') = n - 1
      /\ \A i \in 1..(n - 1) : events'[i] = events[i + 1]
  BY <1>1, EmptySeq, LenProperties, HeadTailProperties
<1> HIDE DEF n
<1>3. UnusedClean'
  <2> SUFFICES ASSUME NEW p \in Objects, up'[p].net = None
               PROVE  /\ ~up'[p].in /\ pend'[p] = None /\ sock'[p] = None
                      /\ \A i \in 1..Len(events') : events'[i].o # p
    BY DEF UnusedClean
  <2>1. ~up[p].in /\ pend[p] = None /\ sock[p] = None /\ \A i \in 1..n : events[i].o # p
    BY DEF IInv, UnusedClean, n
  <2>2. \A i \in 1..(n - 1) : i + 1 \in 1..n
    BY <1>2
  <2>3. QED
    BY <1>2, <2>1, <2>2
<1>4. EventsAgree'
  <2> SUFFICES ASSUME ~restarted, NEW p \in Objects, up[p].in
               PROVE  /\ \A i \in 1..Len(events') : events'[i].o = p /\ events'[i].ev = "existing"
                            => OpenAt(events', up'[p].connected, p, i)
                      /\ sock'[p] = "open" => OpenAt(events', up'[p].connected, p, Len(events') + 1)
    BY DEF EventsAgree
  <2>1. /\ \A i \in 1..n : events[i].o = p /\ events[i].ev = "existing"
              => OpenAt(events, up[p].connected, p, i)
        /\ sock[p] = "open" => OpenAt(events, up[p].connected, p, n + 1)
    BY DEF IInv, EventsAgree, n
  <2>2. ASSUME NEW i \in 1..n, OpenAt(events, up[p].connected, p, i + 1)
        PROVE  OpenAt(events', up'[p].connected, p, i)
    BY <1>1, <2>2, OpenAtTail DEF n
  <2>3. ASSUME NEW i \in 1..(n - 1), events'[i].o = p, events'[i].ev = "existing"
        PROVE  OpenAt(events', up'[p].connected, p, i)
    <3>1. i + 1 \in 1..n /\ i \in 1..n
      BY <1>2
    <3>2. OpenAt(events, up[p].connected, p, i + 1)
      BY <1>2, <2>1, <2>3, <3>1
    <3>3. QED
      BY <2>2, <3>1, <3>2
  <2>4. ASSUME sock[p] = "open"
        PROVE  OpenAt(events', up'[p].connected, p, n)
    BY <1>2, <2>1, <2>2, <2>4
  <2>5. Len(events') + 1 = n
    BY <1>2
  <2>6. QED
    BY <1>2, <2>3, <2>4, <2>5
<1>5. QED
  BY <1>3, <1>4

\* The connection of a network is opened or closed, and a message says so.
LEMMA NoteAdded ==
    ASSUME IInv, NEW o \in Objects, up[o].in, NEW s \in BOOLEAN,
           notes' = [notes EXCEPT ![up[o].net] = Append(@, s)],
           up'[o].connected = s,
           \A p \in Objects : up'[p].in = up[p].in /\ up'[p].net = up[p].net,
           \A p \in Objects : p # o => up'[p].connected = up[p].connected,
           UNCHANGED <<rows, created, moved, overtaken, behind, run, view, restarted>>
    PROVE  NotYet' /\ Overtaken' /\ TellsTruth' /\ notes' \in [Nets -> Seq(BOOLEAN)]
<1>0. PICK m : m = up[o].net
  OBVIOUS
<1> DEFINE l == Len(notes[m])
<1>1. m \in Nets
  BY <1>0 DEF IInv, Typed, TypeOK, UnusedClean
<1>2. /\ notes \in [Nets -> Seq(BOOLEAN)] /\ notes[m] \in Seq(BOOLEAN) /\ l \in Nat
      /\ overtaken \in [Nets -> Nat]
  BY <1>1, LenProperties DEF IInv, Typed
<1>3. /\ notes' \in [Nets -> Seq(BOOLEAN)]
      /\ notes'[m] = Append(notes[m], s)
      /\ \A n \in Nets : n # m => notes'[n] = notes[n]
  <2>1. Append(notes[m], s) \in Seq(BOOLEAN)
    BY <1>2, AppendProperties
  <2>2. QED
    BY <1>0, <1>1, <1>2, <2>1
<1>4. Len(notes'[m]) = l + 1 /\ notes'[m][l + 1] = s
  BY <1>2, <1>3, AppendProperties
<1>5. \A n : Find(n)' = Find(n)
  BY DEF Find
<1>6. o \in Find(m) /\ m \in created
  <2>1. o \in Find(m)
    BY <1>0 DEF Find
  <2>2. QED
    BY <1>1, <2>1 DEF IInv, NotYet
<1>7. m \notin moved => (Connected(m)' <=> s)
  <2>1. m \notin moved => Find(m) = {o}
    BY <1>6, TheOne DEF IInv
  <2>2. QED
    BY <1>5, <2>1 DEF Connected
<1>8. \A n : n # m => (Connected(n)' <=> Connected(n))
  <2>1. \A n : n # m => o \notin Find(n) /\ Find(n) \subseteq Objects
    BY <1>0 DEF Find
  <2>2. QED
    BY <1>5, <2>1 DEF Connected
<1> HIDE DEF l
<1>9. NotYet'
  BY <1>3, <1>5, <1>6 DEF IInv, NotYet
<1>10. overtaken[m] <= l
  BY <1>1 DEF IInv, Overtaken, l
<1>11. Overtaken'
  <2> SUFFICES ASSUME NEW n \in Nets
               PROVE  overtaken[n] <= Len(notes'[n])
    BY DEF Overtaken
  <2>1. CASE n = m
    BY <1>2, <1>4, <1>10, <2>1
  <2>2. CASE n # m
    BY <1>3, <2>2 DEF IInv, Overtaken
  <2>3. QED
    BY <2>1, <2>2
<1>12. TellsTruth'
  <2> SUFFICES ASSUME ~restarted, NEW n \in rows \ moved, ~DropsNow(n)'
               PROVE  LastTold(n)'
    BY DEF TellsTruth
  <2>1. LastTold(n) /\ n \in Nets
    BY DEF IInv, TellsTruth, DropsNow, Typed, TypeOK
  <2>2. CASE n = m
    <3>1. overtaken[n] # Len(notes'[n])
      BY <1>1, <1>2, <1>4, <1>10, <2>2
    <3>2. notes'[n][Len(notes'[n])] <=> Connected(n)'
      <4>1. notes'[n][Len(notes'[n])] = s
        BY <1>4, <2>2
      <4>2. n \notin moved
        OBVIOUS
      <4>3. QED
        BY <1>7, <2>2, <4>1, <4>2, Zenon
    <3>3. QED
      BY <3>1, <3>2 DEF LastTold
  <2>3. CASE n # m
    BY <1>3, <1>8, <2>1, <2>3 DEF LastTold
  <2>4. QED
    BY <2>2, <2>3
<1>13. QED
  BY <1>3, <1>9, <1>11, <1>12

LEMMA OnOpenKeeps ==
    ASSUME IInv, NEW o \in Objects, up[o].in, events # <<>>, events' = Tail(events),
           Opens(Head(events), o), OnOpen(o),
           UNCHANGED <<users, sock, clients, run, making, view, past, restarted>>
    PROVE  IInv'
<1>1. up \in [Objects -> [net : Nets \union {None}, in : BOOLEAN, connected : BOOLEAN,
                          requested : BOOLEAN, retry : BOOLEAN]]
  BY DEF IInv, Typed, TypeOK
<1>2. /\ up' = [up EXCEPT ![o].connected = TRUE, ![o].retry = FALSE]
      /\ notes' = [notes EXCEPT ![up[o].net] = Append(@, TRUE)]
      /\ UNCHANGED <<pend, overtaken, behind>>
  BY DEF OnOpen, Notes
<1>3. /\ \A p \in Objects : up'[p].in = up[p].in /\ up'[p].net = up[p].net
      /\ \A p \in Objects : p # o => up'[p] = up[p]
      /\ up'[o].connected = TRUE /\ up'[o].retry = FALSE
      /\ up' \in [Objects -> [net : Nets \union {None}, in : BOOLEAN, connected : BOOLEAN,
                              requested : BOOLEAN, retry : BOOLEAN]]
  BY <1>1, <1>2
<1>4. NotYet' /\ Overtaken' /\ TellsTruth' /\ notes' \in [Nets -> Seq(BOOLEAN)]
  BY <1>2, <1>3, NoteAdded
<1>5. EventsAgree' /\ UnusedClean'
  <2>1. \A p \in Objects : up[p].in /\ ~restarted =>
             /\ up[p].connected /\ ~Closes(Head(events), p) => up'[p].connected
             /\ Opens(Head(events), p) => up'[p].connected
    BY <1>3 DEF Opens
  <2>2. QED
    BY <1>2, <1>3, <2>1, EventTaken
<1>6. RetryDown'
  BY <1>3 DEF IInv, RetryDown
<1>7. Typed'
  <2>1. events' \in Seq(Events)
    BY HeadTailProperties DEF IInv, Typed
  <2>2. QED
    BY <1>2, <1>3, <1>4, <2>1 DEF IInv, Typed, TypeOK
<1>8. QED
  BY <1>3, <1>4, <1>5, <1>6, <1>7, FlagsKeep DEF IInv

LEMMA OnExistingKeeps ==
    ASSUME IInv, NEW o \in Objects, up[o].in, events # <<>>, events' = Tail(events),
           Head(events).o = o, Head(events).ev = "existing", OnExisting(o),
           UNCHANGED <<users, sock, clients, run, making, view, past, restarted>>
    PROVE  IInv'
<1>1. up \in [Objects -> [net : Nets \union {None}, in : BOOLEAN, connected : BOOLEAN,
                          requested : BOOLEAN, retry : BOOLEAN]]
  BY DEF IInv, Typed, TypeOK
<1>2. up' = [up EXCEPT ![o].connected = TRUE] /\ UNCHANGED <<pend, messages>>
  BY DEF OnExisting
<1>3. /\ \A p \in Objects : up'[p].in = up[p].in /\ up'[p].net = up[p].net
      /\ \A p \in Objects : p # o => up'[p] = up[p]
      /\ up'[o].connected = TRUE /\ up'[o].retry = up[o].retry
      /\ up' \in [Objects -> [net : Nets \union {None}, in : BOOLEAN, connected : BOOLEAN,
                              requested : BOOLEAN, retry : BOOLEAN]]
  <2>1. \A p \in Objects : p # o => up'[p] = up[p]
    BY <1>1, <1>2
  <2>2. up'[o] = [up[o] EXCEPT !.connected = TRUE]
    BY <1>1, <1>2
  <2>3. up[o] \in [net : Nets \union {None}, in : BOOLEAN, connected : BOOLEAN,
                  requested : BOOLEAN, retry : BOOLEAN]
    BY <1>1
  <2>4. /\ up'[o].in = up[o].in /\ up'[o].net = up[o].net
        /\ up'[o].connected = TRUE /\ up'[o].retry = up[o].retry
        /\ up'[o] \in [net : Nets \union {None}, in : BOOLEAN, connected : BOOLEAN,
                       requested : BOOLEAN, retry : BOOLEAN]
    BY <2>2, <2>3
  <2>5. up' = [p \in Objects |-> up'[p]]
    BY <1>1, <1>2
  <2>6. \A p \in Objects : up'[p] \in [net : Nets \union {None}, in : BOOLEAN, connected : BOOLEAN,
                                        requested : BOOLEAN, retry : BOOLEAN]
    BY <1>1, <2>1, <2>4
  <2>7. QED
    BY <2>1, <2>4, <2>5, <2>6
<1>4. EventsAgree' /\ UnusedClean'
  <2>1. \A p \in Objects : up[p].in /\ ~restarted =>
             /\ up[p].connected /\ ~Closes(Head(events), p) => up'[p].connected
             /\ Opens(Head(events), p) => up'[p].connected
    BY <1>3 DEF Opens
  <2>2. QED
    BY <1>2, <1>3, <2>1, EventTaken
\* Until the worker restarts it knew.
<1>5. ~restarted => up[o].connected
  <2> SUFFICES ASSUME ~restarted PROVE up[o].connected
    OBVIOUS
  <2>1. 1 \in 1..Len(events) /\ events[1] = Head(events)
    BY EmptySeq, LenProperties, HeadTailProperties DEF IInv, Typed
  <2>2. OpenAt(events, up[o].connected, o, 1)
    BY <2>1 DEF IInv, EventsAgree
  <2>3. QED
    BY <2>2 DEF OpenAt
<1>6. RetryDown'
  BY <1>3, <1>5 DEF IInv, RetryDown
<1>7. \A n : Find(n)' = Find(n)
  BY <1>3 DEF Find
<1>8. NotYet'
  BY <1>2, <1>7 DEF IInv, NotYet
<1>9. TellsTruth'
  <2> SUFFICES ASSUME ~restarted, NEW n \in rows \ moved, ~DropsNow(n)'
               PROVE  LastTold(n)'
    BY DEF TellsTruth
  <2>1. LastTold(n)
    BY DEF IInv, TellsTruth, DropsNow
  <2>2. \A p \in Objects : up'[p].connected <=> up[p].connected
    BY <1>3, <1>5
  <2>3. Connected(n)' <=> Connected(n)
    BY <1>7, <2>2 DEF Connected, Find
  <2>4. QED
    BY <1>2, <2>1, <2>3 DEF LastTold
<1>10. Overtaken'
  BY <1>2, Frame
<1>11. Typed'
  <2>1. events' \in Seq(Events)
    BY HeadTailProperties DEF IInv, Typed
  <2>2. QED
    BY <1>2, <1>3, <2>1 DEF IInv, Typed, TypeOK
<1>12. QED
  BY <1>3, <1>4, <1>6, <1>8, <1>9, <1>10, <1>11, FlagsKeep DEF IInv

LEMMA OnCloseKeeps ==
    ASSUME IInv, NEW o \in Objects, up[o].in, events # <<>>, events' = Tail(events),
           Closes(Head(events), o), OnClose(o),
           UNCHANGED <<users, sock, clients, run, making, view, past, restarted>>
    PROVE  IInv'
<1> DEFINE retries == up[o].retry \/ (up[o].connected /\ ~up[o].requested)
<1>1. up \in [Objects -> [net : Nets \union {None}, in : BOOLEAN, connected : BOOLEAN,
                          requested : BOOLEAN, retry : BOOLEAN]]
      /\ pend \in [Objects -> {None, "load", "send", "timer"}]
  BY DEF IInv, Typed, TypeOK
<1>2. /\ up' = IF up[o].retry THEN up
               ELSE [up EXCEPT ![o].connected = FALSE, ![o].requested = FALSE,
                               ![o].retry = retries]
      /\ pend' = IF retries /\ pend[o] = None THEN [pend EXCEPT ![o] = "timer"] ELSE pend
      /\ UNCHANGED <<overtaken, behind>>
      /\ IF up[o].retry THEN notes' = notes
         ELSE notes' = [notes EXCEPT ![up[o].net] = Append(@, FALSE)]
  BY DEF OnClose, Notes
<1>3. retries \in BOOLEAN
  BY <1>1
<1> HIDE DEF retries
<1>4. /\ \A p \in Objects : up'[p].in = up[p].in /\ up'[p].net = up[p].net
      /\ \A p \in Objects : p # o => up'[p] = up[p]
      /\ up[o].retry => up' = up
      /\ ~up[o].retry => up'[o].connected = FALSE
      /\ up' \in [Objects -> [net : Nets \union {None}, in : BOOLEAN, connected : BOOLEAN,
                              requested : BOOLEAN, retry : BOOLEAN]]
  <2>1. CASE up[o].retry
    BY <1>1, <1>2, <2>1
  <2>2. CASE ~up[o].retry
    <3>1. up' = [up EXCEPT ![o].connected = FALSE, ![o].requested = FALSE, ![o].retry = retries]
      BY <1>2, <2>2
    <3>2. \A p \in Objects : p # o => up'[p] = up[p]
      BY <1>1, <3>1
    <3>3. up'[o] = [up[o] EXCEPT !.connected = FALSE, !.requested = FALSE, !.retry = retries]
      BY <1>1, <3>1
    <3>4. /\ up'[o].in = up[o].in /\ up'[o].net = up[o].net /\ up'[o].connected = FALSE
          /\ up'[o] \in [net : Nets \union {None}, in : BOOLEAN, connected : BOOLEAN,
                         requested : BOOLEAN, retry : BOOLEAN]
      BY <1>1, <1>3, <3>3
    <3>5. up' = [p \in Objects |-> up'[p]]
      BY <1>1, <3>1
    <3>6. \A p \in Objects : up'[p] \in [net : Nets \union {None}, in : BOOLEAN, connected : BOOLEAN,
                                          requested : BOOLEAN, retry : BOOLEAN]
      BY <1>1, <3>2, <3>4
    <3>7. QED
      BY <2>2, <3>2, <3>4, <3>5, <3>6
  <2>3. QED
    BY <2>1, <2>2
<1>5. /\ \A p \in Objects : p # o => pend'[p] = pend[p]
      /\ pend' \in [Objects -> {None, "load", "send", "timer"}]
  BY <1>1, <1>2
<1>6. up[o].net # None
  BY DEF IInv, UnusedClean
<1>7. EventsAgree' /\ UnusedClean'
  <2>1. \A p \in Objects : up[p].in /\ ~restarted =>
             /\ up[p].connected /\ ~Closes(Head(events), p) => up'[p].connected
             /\ Opens(Head(events), p) => up'[p].connected
    BY <1>4 DEF Opens, Closes
  <2>2. \A p \in Objects : up[p].net = None => pend'[p] = pend[p]
    BY <1>5, <1>6
  <2>3. QED
    BY <1>4, <2>1, <2>2, EventTaken
<1>8. RetryDown'
  BY <1>4 DEF IInv, RetryDown
<1>9. NotYet' /\ Overtaken' /\ TellsTruth' /\ notes' \in [Nets -> Seq(BOOLEAN)]
  <2>1. CASE up[o].retry
    BY <1>2, <1>4, <2>1, Frame DEF IInv, Typed
  <2>2. CASE ~up[o].retry
    <3>1. notes' = [notes EXCEPT ![up[o].net] = Append(@, FALSE)]
      BY <1>2, <2>2
    <3>2. QED
      BY <1>2, <1>4, <2>2, <3>1, NoteAdded
  <2>3. QED
    BY <2>1, <2>2
<1>10. Typed'
  <2>1. events' \in Seq(Events)
    BY HeadTailProperties DEF IInv, Typed
  <2>2. QED
    BY <1>2, <1>4, <1>5, <1>9, <2>1 DEF IInv, Typed, TypeOK
<1>11. QED
  BY <1>4, <1>7, <1>8, <1>9, <1>10, FlagsKeep DEF IInv

LEMMA WorkerEventKeeps ==
    ASSUME IInv, WorkerEvent
    PROVE  IInv'
<1> DEFINE e == Head(events)
<1>1. events # <<>> /\ events' = Tail(events)
      /\ UNCHANGED <<users, sock, clients, run, making, view, past, restarted>>
  BY DEF WorkerEvent
<1>2. e \in Events /\ e.o \in Objects
  <2>1. events \in Seq(Events)
    BY DEF IInv, Typed
  <2>2. e \in Events
    BY <1>1, <2>1, HeadTailProperties
  <2>3. QED
    BY <2>2 DEF Events
<1>3. CASE ~up[e.o].in /\ UNCHANGED <<dictionary, messages>>
  <2>1. \A p \in Objects : up[p].in /\ ~restarted =>
             /\ up[p].connected /\ ~Closes(Head(events), p) => up'[p].connected
             /\ Opens(Head(events), p) => up'[p].connected
    BY <1>3 DEF Opens
  <2>2. EventsAgree' /\ UnusedClean'
    BY <1>1, <1>3, <2>1, EventTaken
  <2>3. Typed'
    <3>1. events' \in Seq(Events)
      BY <1>1, HeadTailProperties DEF IInv, Typed
    <3>2. QED
      BY <1>1, <1>3, <3>1 DEF IInv, Typed, TypeOK
  <2>4. QED
    BY <1>1, <1>3, <2>2, <2>3, QuietKeeps DEF IInv
<1>4. CASE up[e.o].in /\ e.ev = "open" /\ OnOpen(e.o)
  BY <1>1, <1>2, <1>4, OnOpenKeeps DEF Opens
<1>5. CASE up[e.o].in /\ e.ev = "existing" /\ OnExisting(e.o)
  BY <1>1, <1>2, <1>5, OnExistingKeeps
<1>6. CASE up[e.o].in /\ e.ev = "close" /\ OnClose(e.o)
  BY <1>1, <1>2, <1>6, OnCloseKeeps DEF Closes
<1>7. QED
  BY <1>3, <1>4, <1>5, <1>6 DEF WorkerEvent

LEMMA NoteKeeps ==
    ASSUME IInv, NEW n \in Nets, Note(n)
    PROVE  IInv'
<1> DEFINE l == Len(notes[n])
<1> DEFINE f == overtaken[n]
<1>1. PICK i \in 1..l :
          /\ notes' = [notes EXCEPT ![n] = Without(@, i)]
          /\ view' = IF n \in rows
                     THEN [c \in Clients |-> [view[c] EXCEPT ![n] = notes[n][i]]]
                     ELSE view
          /\ overtaken' = [overtaken EXCEPT ![n] = IF i <= @ THEN @ - 1 ELSE i - 1]
          /\ behind' = IF i <= f THEN behind \union {n} ELSE behind \ {n}
  BY DEF Note
<1>2. UNCHANGED <<users, dictionary, outside, clients, run, making, past, restarted>>
  BY DEF Note
<1>3. /\ notes \in [Nets -> Seq(BOOLEAN)] /\ view \in [Clients -> [Nets -> BOOLEAN]]
      /\ overtaken \in [Nets -> Nat]
      /\ rows \subseteq created /\ created \subseteq Nets
  BY DEF IInv, Typed, TypeOK
<1>4. notes[n] \in Seq(BOOLEAN) /\ l \in Nat /\ i \in 1..l /\ f \in Nat /\ f <= l
  BY <1>3, LenProperties DEF IInv, Overtaken
<1>5. notes[n] \in [1..l -> BOOLEAN] /\ notes[n][i] \in BOOLEAN
  BY <1>4, LenProperties
\* One note less, the others in their order.
<1> DEFINE q == Without(notes[n], i)
<1>6. /\ q \in Seq(BOOLEAN) /\ Len(q) = l - 1
      /\ \A j \in 1..(l - 1) : q[j] = IF j < i THEN notes[n][j] ELSE notes[n][j + 1]
  <2>1. l - 1 \in Nat /\ q = [j \in 1..(l - 1) |-> IF j < i THEN notes[n][j] ELSE notes[n][j + 1]]
    BY <1>4 DEF Without
  <2>2. \A j \in 1..(l - 1) : j \in 1..l /\ j + 1 \in 1..l
    BY <1>4
  <2>3. q \in [1..(l - 1) -> BOOLEAN]
    BY <1>5, <2>1, <2>2
  <2>4. q \in Seq(BOOLEAN)
    <3> HIDE DEF q
    <3>1. [1..(l - 1) -> BOOLEAN] \in {[1..k -> BOOLEAN] : k \in Nat}
      BY <2>1
    <3>2. QED
      BY ONLY <2>3, <3>1, SeqDef
  <2>5. Len(q) = l - 1
    BY <2>1, <2>3, <2>4, LenProperties
  <2>6. QED
    BY <2>1, <2>4, <2>5
<1> HIDE DEF q
<1>7. /\ notes' \in [Nets -> Seq(BOOLEAN)] /\ notes'[n] = q
      /\ \A m \in Nets : m # n => notes'[m] = notes[m]
  BY <1>1, <1>3, <1>6 DEF q
<1> HIDE DEF l, f
<1>8. /\ overtaken' \in [Nets -> Nat] /\ overtaken'[n] = IF i <= f THEN f - 1 ELSE i - 1
      /\ \A m \in Nets : m # n => overtaken'[m] = overtaken[m]
  <2>1. (IF i <= f THEN f - 1 ELSE i - 1) \in Nat
    BY <1>4
  <2>2. overtaken' = [overtaken EXCEPT ![n] = IF i <= f THEN f - 1 ELSE i - 1]
    BY <1>1 DEF f
  <2>3. QED
    BY <1>3, <2>1, <2>2
<1>9. /\ view' \in [Clients -> [Nets -> BOOLEAN]]
      /\ \A c \in Clients, m \in Nets :
             view'[c][m] = IF m = n /\ n \in rows THEN notes[n][i] ELSE view[c][m]
  BY <1>1, <1>3, <1>5
<1>10. \A m : Find(m)' = Find(m) /\ (Connected(m)' <=> Connected(m))
  BY <1>2 DEF Find, Connected
<1>11. NotYet'
  <2>1. n \in created
    BY <1>4 DEF IInv, NotYet, l
  <2>2. QED
    BY <1>2, <1>7, <1>9, <1>10, <2>1 DEF IInv, NotYet
<1>12. Overtaken'
  <2> SUFFICES ASSUME NEW m \in Nets
               PROVE  overtaken'[m] <= Len(notes'[m])
    BY DEF Overtaken
  <2>1. CASE m = n
    BY <1>4, <1>6, <1>7, <1>8, <2>1
  <2>2. CASE m # n
    BY <1>7, <1>8, <2>2 DEF IInv, Overtaken
  <2>3. QED
    BY <2>1, <2>2
<1>13. TellsTruth'
  <2> SUFFICES ASSUME ~restarted, NEW m \in rows \ moved, ~DropsNow(m)
               PROVE  LastTold(m)'
    BY <1>2 DEF TellsTruth, DropsNow
  <2>1. LastTold(m) /\ m \in Nets
    BY <1>3 DEF IInv, TellsTruth
  <2>2. CASE m # n
    BY <1>1, <1>7, <1>8, <1>9, <1>10, <2>1, <2>2 DEF LastTold
  <2>3. CASE m = n
    <3>1. /\ f # l => (notes[n][l] <=> Connected(n))
          /\ f = l /\ n \notin behind => \A c \in Clients : view[c][n] <=> Connected(n)
      BY <2>1, <2>3 DEF LastTold, f, l
    \* It is not the last: the last one stays.
    <3>2. ASSUME overtaken'[n] # Len(notes'[n])
          PROVE  notes'[n][Len(notes'[n])] <=> Connected(n)'
      <4>1. f # l /\ l - 1 \in 1..(l - 1) /\ ~(l - 1 < i) /\ (l - 1) + 1 = l
        BY <1>4, <1>6, <1>7, <1>8, <3>2
      <4>2. q[l - 1] = notes[n][l]
        BY <1>6, <4>1
      <4>3. QED
        BY <1>6, <1>7, <1>10, <3>1, <4>1, <4>2
    \* It is the last and had not been overtaken, or it has.
    <3>3. ASSUME overtaken'[n] = Len(notes'[n]), n \notin behind', NEW c \in Clients
          PROVE  view'[c][n] <=> Connected(n)'
      <4>1. ~(i <= f)
        BY <1>1, <3>3
      <4>2. i = l /\ f # l
        BY <1>4, <1>6, <1>7, <1>8, <3>3, <4>1
      <4>3. view'[c][n] = notes[n][l]
        BY <1>9, <2>3, <4>2
      <4>4. QED
        BY <1>10, <3>1, <4>2, <4>3
    <3>4. QED
      BY <2>3, <3>2, <3>3 DEF LastTold
  <2>4. QED
    BY <2>2, <2>3
<1>14. Typed'
  BY <1>2, <1>7, <1>8, <1>9 DEF IInv, Typed, TypeOK
<1>15. QED
  BY <1>2, <1>11, <1>12, <1>13, <1>14, Frame DEF IInv

-----------------------------------------------------------------------------
(* Commands.                                                               *)

\* The handler of client c goes on as r.
LEMMA RunFits ==
    ASSUME IInv, NEW c \in Clients, NEW r \in Runs, run' = [run EXCEPT ![c] = r],
           \A d \in Clients : d # c => Fits(run[d], netOf'[d], created'),
           \A d \in Clients : d # c /\ WillConnect(run[d]) => run[d].net \in rows' \union raced',
           Fits(r, netOf'[c], created'),
           WillConnect(r) => r.net \in rows' \union raced',
           Inserts(r) => \/ Inserts(run[c]) /\ r.net = run[c].net
                         \/ \A d \in Clients : run[d].net # r.net,
           \A d \in Clients : making'[d] # None => netOf'[d] # None,
           \A d \in Clients : making'[d] = "make" => netOf'[d] \in rows' \union raced'
    PROVE  /\ Handlers' /\ RowsRead' /\ run' \in [Clients -> Runs]
           /\ run'[c] = r /\ \A d \in Clients : d # c => run'[d] = run[d]
<1>1. run \in [Clients -> Runs]
  BY DEF IInv, Typed
<1>2. run' \in [Clients -> Runs] /\ run'[c] = r /\ \A d \in Clients : d # c => run'[d] = run[d]
  BY <1>1
<1>3. RowsRead'
  BY <1>2 DEF RowsRead
<1>4. \A d \in Clients : Fits(run'[d], netOf'[d], created')
  BY <1>2
<1>5. ASSUME NEW d \in Clients, NEW x \in Clients, Inserts(run'[d]), Inserts(run'[x]),
             run'[d].net = run'[x].net
      PROVE  d = x
  <2>1. \A a, b \in Clients : Inserts(run[a]) /\ Inserts(run[b]) /\ run[a].net = run[b].net => a = b
    BY DEF IInv, Handlers
  <2>2. QED
    BY <1>2, <1>5, <2>1
<1>6. Handlers'
  BY <1>4, <1>5 DEF Handlers
<1>7. QED
  BY <1>2, <1>3, <1>6

\* The same when neither the rows, the clients nor the connections of a network change.
LEMMA RunStep ==
    ASSUME IInv, NEW c \in Clients, NEW r \in Runs, run' = [run EXCEPT ![c] = r],
           UNCHANGED <<rows, created, past, netOf, making, messages, view, restarted>>,
           \A n : Find(n)' = Find(n) /\ (Connected(n)' <=> Connected(n)),
           Fits(r, netOf[c], created),
           WillConnect(r) => r.net \in rows \union raced,
           Inserts(r) => \/ Inserts(run[c]) /\ r.net = run[c].net
                         \/ \A d \in Clients : run[d].net # r.net,
           run[c].at # "drop", r.at # "drop"
    PROVE  Handlers' /\ RowsRead' /\ ClosedUp' /\ TellsTruth' /\ run' \in [Clients -> Runs]
<1>1. /\ Handlers' /\ RowsRead' /\ run' \in [Clients -> Runs]
      /\ run'[c] = r /\ \A d \in Clients : d # c => run'[d] = run[d]
  <2>1. /\ \A d \in Clients : Fits(run[d], netOf'[d], created')
        /\ \A d \in Clients : making'[d] # None => netOf'[d] # None
    BY DEF IInv, Handlers
  <2>2. /\ \A d \in Clients : WillConnect(run[d]) => run[d].net \in rows' \union raced'
        /\ \A d \in Clients : making'[d] = "make" => netOf'[d] \in rows' \union raced'
    BY DEF IInv, RowsRead
  <2>3. Fits(r, netOf'[c], created') /\ (WillConnect(r) => r.net \in rows' \union raced')
    OBVIOUS
  <2>4. QED
    BY <2>1, <2>2, <2>3, RunFits
<1>2. ClosedUp'
  BY <1>1 DEF IInv, ClosedUp
<1>3. TellsTruth'
  <2> SUFFICES ASSUME ~restarted, NEW n \in rows \ moved, ~DropsNow(n)'
               PROVE  LastTold(n)'
    BY DEF TellsTruth
  <2>1. ~DropsNow(n)
    BY <1>1 DEF DropsNow
  <2>2. LastTold(n)
    BY <2>1 DEF IInv, TellsTruth
  <2>3. QED
    BY <2>2 DEF LastTold
<1>4. QED
  BY <1>1, <1>2, <1>3

LEMMA IdleFits ==
    ASSUME NEW m, NEW made
    PROVE  /\ Idle \in Runs /\ Fits(Idle, m, made)
           /\ ~WillConnect(Idle) /\ ~Inserts(Idle) /\ Idle.at # "drop"
<1>1. /\ None \in Places /\ None \in Nets \union {None}
      /\ None \in Commands \union {None, "list"} /\ None \in Cols \union {None}
  BY DEF Places
<1>2. Idle \in Runs
  BY <1>1 DEF Idle, Runs
<1>3. QED
  BY <1>2 DEF Idle, Fits, WillConnect, Inserts, None, Commands

\* A step of a handler that changes nothing else.
LEMMA StepKeeps ==
    ASSUME IInv, NEW c \in Clients, NEW r \in Runs, run' = [run EXCEPT ![c] = r],
           UNCHANGED <<users, dictionary, outside, messages, clients, making, view, past,
                       restarted>>,
           Fits(r, netOf[c], created),
           WillConnect(r) => r.net \in rows,
           Inserts(r) => \/ Inserts(run[c]) /\ r.net = run[c].net
                         \/ \A d \in Clients : run[d].net # r.net,
           run[c].at # "drop", r.at # "drop"
    PROVE  IInv'
<1>1. \A m : Find(m)' = Find(m) /\ (Connected(m)' <=> Connected(m))
  BY DEF Find, Connected
<1>2. Handlers' /\ RowsRead' /\ ClosedUp' /\ TellsTruth' /\ run' \in [Clients -> Runs]
  BY <1>1, RunStep
<1>3. Typed'
  BY <1>2 DEF IInv, Typed, TypeOK
<1>4. QED
  BY <1>2, <1>3, Frame DEF IInv

LEMMA CommandKeeps ==
    ASSUME IInv, NEW c \in Clients, NEW n \in Nets, NEW op \in Commands, Command(c, op, n)
    PROVE  IInv'
<1>1. PICK k \in Cols : run' = [run EXCEPT ![c] = [op |-> op, net |-> n, at |-> "read", col |-> k,
                                                   row |-> <<>>]]
  BY DEF Command
<1> DEFINE r == [op |-> op, net |-> n, at |-> "read", col |-> k, row |-> <<>>]
<1>2. /\ run[c] = Idle
      /\ UNCHANGED <<users, dictionary, outside, messages, clients, making, view, past, restarted>>
  BY DEF Command, Free
<1>3. r \in Runs
  BY DEF Runs, Places
<1>4. r.at = "read" /\ r.op = op /\ r.net = n
  OBVIOUS
<1>5. Fits(r, netOf[c], created)
  <2>1. /\ op = "login" => netOf[c] = None
        /\ op = "add" => n \notin created
        /\ op \in {"disconnect", "change", "delete"} => n \in created
    BY DEF Command
  <2> HIDE DEF r
  <2>2. QED
    BY <1>4, <2>1 DEF Fits, Inserts
<1>6. op = "add" => \A d \in Clients : run[d].net # n
  BY DEF Command
<1>7. run' = [run EXCEPT ![c] = r]
  BY <1>1
<1> HIDE DEF r
<1>8. ~WillConnect(r) /\ (Inserts(r) => op = "add")
  BY <1>4 DEF WillConnect, Inserts
<1>9. run[c].at # "drop" /\ r.at # "drop"
  BY <1>2, <1>4, IdleFits
<1>10. QED
  BY <1>2, <1>3, <1>4, <1>5, <1>6, <1>7, <1>8, <1>9, StepKeeps

LEMMA ListsKeeps ==
    ASSUME IInv, NEW c \in Clients, Lists(c)
    PROVE  IInv'
<1> DEFINE r == [Idle EXCEPT !.op = "list", !.at = "list"]
<1>1. /\ run[c] = Idle /\ run' = [run EXCEPT ![c] = r]
      /\ UNCHANGED <<users, dictionary, outside, messages, clients, making, view, past, restarted>>
  BY DEF Lists, Free
<1>2. r \in Runs /\ r.op = "list" /\ r.at = "list"
  BY IdleFits DEF Runs, Places, Idle
<1> HIDE DEF r
<1>3. Fits(r, netOf[c], created) /\ ~WillConnect(r) /\ ~Inserts(r) /\ run[c].at # "drop"
  BY <1>1, <1>2, IdleFits DEF Fits, WillConnect, Inserts, Commands
<1>4. QED
  BY <1>1, <1>2, <1>3, StepKeeps

\* A handler goes on to its next place.
LEMMA GoesIs ==
    ASSUME IInv, NEW c \in Clients, NEW at \in Places, Goes(c, at)
    PROVE  \E r \in Runs : /\ run' = [run EXCEPT ![c] = r] /\ r.at = at
                           /\ r.op = run[c].op /\ r.net = run[c].net
<1> DEFINE r == [run[c] EXCEPT !.at = at]
<1>1. run \in [Clients -> Runs] /\ run' = [run EXCEPT ![c].at = at]
  BY DEF IInv, Typed, Goes
<1>2. r \in Runs /\ r.at = at /\ r.op = run[c].op /\ r.net = run[c].net
  BY <1>1 DEF Runs
<1>3. run' = [run EXCEPT ![c] = r]
  BY <1>1
<1>4. QED
  BY <1>2, <1>3

LEMMA ReadKeeps ==
    ASSUME IInv, NEW c \in Clients, Read(c)
    PROVE  IInv'
<1> DEFINE n == run[c].net
<1>1. /\ run[c].at = "read"
      /\ UNCHANGED <<users, dictionary, outside, messages, clients, making, view, past, restarted>>
      /\ Fits(run[c], netOf[c], created)
      /\ run \in [Clients -> Runs] /\ run[c] \in Runs
  BY DEF Read, IInv, Handlers, Typed
<1>2. CASE run[c].op = "add"
  <2>1. Goes(c, "count") /\ "count" \in Places
    BY <1>2 DEF Read, Places
  <2>2. PICK r \in Runs : /\ run' = [run EXCEPT ![c] = r] /\ r.at = "count"
                          /\ r.op = run[c].op /\ r.net = run[c].net
    BY <2>1, GoesIs
  <2>3. Fits(r, netOf[c], created) /\ ~WillConnect(r) /\ Inserts(run[c])
    BY <1>1, <1>2, <2>2 DEF Fits, WillConnect, Inserts
  <2>4. QED
    BY <1>1, <2>2, <2>3, StepKeeps
<1>3. CASE run[c].op # "add" /\ n \notin rows
  <2>1. run' = [run EXCEPT ![c] = Idle]
    BY <1>3 DEF Read, Ends
  <2>2. QED
    BY <1>1, <2>1, IdleFits, StepKeeps
<1>4. CASE run[c].op # "add" /\ n \in rows
  <2> DEFINE row == IF run[c].op = "change" THEN vals[n] ELSE run[c].row
  <2>1. run' = [run EXCEPT ![c].at = "act", ![c].row = row]
    BY <1>4 DEF Read
  <2>2. row \in {<<>>} \union [Cols -> Values]
    BY <1>1, <1>4 DEF IInv, Typed, TypeOK, Runs
  <2> HIDE DEF row
  <2> DEFINE r == [run[c] EXCEPT !.at = "act", !.row = row]
  <2>3. /\ r \in Runs /\ r.at = "act" /\ r.op = run[c].op /\ r.net = run[c].net
    BY <1>1, <2>2 DEF Runs, Places
  <2>4. run' = [run EXCEPT ![c] = r]
    BY <1>1, <2>1 DEF Runs
  <2> HIDE DEF r
  <2>5. Fits(r, netOf[c], created) /\ ~Inserts(r)
    BY <1>1, <1>4, <2>3 DEF Fits, Inserts
  <2>6. WillConnect(r) => r.net \in rows
    BY <1>4, <2>3
  <2>7. QED
    BY <1>1, <2>3, <2>4, <2>5, <2>6, StepKeeps
<1>5. QED
  BY <1>2, <1>3, <1>4

LEMMA CountKeeps ==
    ASSUME IInv, NEW c \in Clients, Count(c)
    PROVE  IInv'
<1>1. /\ run[c].op = "add" /\ run[c].at = "count"
      /\ UNCHANGED <<users, dictionary, outside, messages, clients, making, view, past, restarted>>
      /\ Fits(run[c], netOf[c], created)
  BY DEF Count, At, IInv, Handlers
<1>2. CASE Ends(c)
  BY <1>1, <1>2, IdleFits, StepKeeps DEF Ends
<1>3. CASE Goes(c, "insert")
  <2>1. "insert" \in Places
    BY DEF Places
  <2>2. PICK r \in Runs : /\ run' = [run EXCEPT ![c] = r] /\ r.at = "insert"
                          /\ r.op = run[c].op /\ r.net = run[c].net
    BY <1>3, <2>1, GoesIs
  <2>3. Fits(r, netOf[c], created) /\ ~WillConnect(r) /\ Inserts(run[c])
    BY <1>1, <2>2 DEF Fits, WillConnect, Inserts
  <2>4. QED
    BY <1>1, <2>2, <2>3, StepKeeps
<1>4. QED
  BY <1>2, <1>3 DEF Count

LEMMA QuietEndKeeps ==
    ASSUME IInv, NEW c \in Clients, Quiet(c)
    PROVE  IInv'
<1>1. /\ run[c].at # "drop" /\ run' = [run EXCEPT ![c] = Idle]
      /\ UNCHANGED <<users, dictionary, outside, messages, clients, making, view, past, restarted>>
  BY DEF Quiet, Ends
<1>2. QED
  BY <1>1, IdleFits, StepKeeps

\* CHANGENETWORK writes the column that was given, or a client had changed it since.
LEMMA ChangeKeeps ==
    ASSUME IInv, NEW c \in Clients, Change(c)
    PROVE  IInv'
<1> DEFINE n == run[c].net
<1> DEFINE col == run[c].col
<1> DEFINE row == run[c].row
<1>1. /\ run[c].op = "change" /\ run[c].at = "act" /\ Goes(c, "list")
      /\ UNCHANGED <<rows, created, dictionary, outside, messages, clients, making, view, past,
                     restarted>>
      /\ Fits(run[c], netOf[c], created)
  BY DEF Change, At, IInv, Handlers
<1>2. PICK r \in Runs : /\ run' = [run EXCEPT ![c] = r] /\ r.at = "list"
                        /\ r.op = run[c].op /\ r.net = run[c].net
  BY <1>1, GoesIs DEF Places
<1>3. Fits(r, netOf[c], created) /\ ~WillConnect(r) /\ ~Inserts(r)
  BY <1>1, <1>2 DEF Fits, WillConnect, Inserts, None
<1>4. \A m : Find(m)' = Find(m) /\ (Connected(m)' <=> Connected(m))
  BY <1>1 DEF Find, Connected
<1>5. Handlers' /\ RowsRead' /\ ClosedUp' /\ TellsTruth' /\ run' \in [Clients -> Runs]
  BY <1>1, <1>2, <1>3, <1>4, RunStep
<1>6. vals \in [Nets -> [Cols -> Values]] /\ last \in [Nets -> [Cols -> Values]]
  BY DEF IInv, Typed, TypeOK
<1>7. /\ vals' \in [Nets -> [Cols -> Values]] /\ last' \in [Nets -> [Cols -> Values]]
      /\ SameValues'
  <2>1. CASE n \in rows
    <3> HIDE DEF n, col, row
    <3>1. PICK v \in Values :
              /\ vals' = [vals EXCEPT ![n] = Saved(row, vals[n], col, v)]
              /\ last' = [last EXCEPT ![n][col] = v]
              /\ clash' = IF row[col] = vals[n][col] THEN clash \ {<<n, col>>}
                          ELSE clash \union {<<n, col>>}
      BY <2>1 DEF Change, n, col, row
    <3>2. n \in Nets
      BY <2>1 DEF IInv, Typed, TypeOK
    <3>3. vals[n] \in [Cols -> Values] /\ last[n] \in [Cols -> Values]
      BY <1>6, <3>2
    <3>4. Saved(row, vals[n], col, v) \in [Cols -> Values]
      BY <3>3 DEF Saved
    <3>5. /\ vals' \in [Nets -> [Cols -> Values]] /\ vals'[n] = Saved(row, vals[n], col, v)
          /\ \A m \in Nets : m # n => vals'[m] = vals[m]
      BY <1>6, <3>1, <3>2, <3>4
    <3>6. /\ last' \in [Nets -> [Cols -> Values]] /\ last'[n] = [last[n] EXCEPT ![col] = v]
          /\ \A m \in Nets : m # n => last'[m] = last[m]
      BY <1>6, <3>1, <3>2, <3>3
    <3>7. ASSUME NEW m \in Nets, NEW k \in Cols
          PROVE  vals'[m][k] = last'[m][k] \/ <<m, k>> \in clash'
      <4>1. vals[m][k] = last[m][k] \/ <<m, k>> \in clash
        BY DEF IInv, SameValues
      <4>2. CASE <<m, k>> # <<n, col>>
        <5>1. vals'[m][k] = vals[m][k]
          BY <3>3, <3>5, <4>2 DEF Saved
        <5>2. last'[m][k] = last[m][k]
          BY <3>3, <3>6, <4>2
        <5>3. <<m, k>> \in clash => <<m, k>> \in clash'
          BY <3>1, <4>2
        <5>4. QED
          BY <4>1, <5>1, <5>2, <5>3
      <4>3. CASE m = n /\ k = col /\ row[col] = vals[n][col]
        <5>1. vals'[n][col] = v
          BY <3>3, <3>5, <4>3 DEF Saved
        <5>2. last'[n][col] = v
          BY <3>3, <3>6, <4>3
        <5>3. QED
          BY <4>3, <5>1, <5>2
      <4>4. CASE m = n /\ k = col /\ row[col] # vals[n][col]
        BY <3>1, <4>4
      <4>5. QED
        BY <4>2, <4>3, <4>4
    <3>8. QED
      BY <3>5, <3>6, <3>7 DEF SameValues
  <2>2. CASE n \notin rows
    BY <1>6, <2>2, Frame DEF Change
  <2>3. QED
    BY <2>1, <2>2
<1>8. Typed'
  BY <1>1, <1>5, <1>7 DEF IInv, Typed, TypeOK
<1>9. QED
  BY <1>1, <1>5, <1>7, <1>8, Frame DEF IInv

\* What a client takes for its connection is in the dictionary, or there is none.
LEMMA UpstreamIs ==
    ASSUME NEW c \in Clients, NEW u \in Upstream(c)
    PROVE  \/ u = NoObject /\ u \notin Objects /\ (netOf[c] # None => Find(netOf[c]) = {})
           \/ u # NoObject /\ u \in Objects /\ up[u].in
<1>1. NoObject \notin Objects
  BY NetworksAssumption
<1>2. \A n : Find(n) \subseteq {o \in Objects : up[o].in}
  BY DEF Find
<1>3. QED
  BY <1>1, <1>2 DEF Upstream, Found

\* A client looks its connection up, and its makeUpstream() goes on.
LEMMA LooksUpKeeps ==
    ASSUME IInv, UNCHANGED <<users, dictionary, outside, messages, netOf, run, view, past, restarted>>,
           cached' \in [Clients -> Objects \union {NoObject}],
           making' \in [Clients -> {None, "read", "make", "die"}],
           \A d \in Clients : making'[d] # None => netOf[d] # None,
           \A d \in Clients : making'[d] = "make" => netOf[d] \in rows \union raced
    PROVE  IInv'
<1>1. Typed'
  BY DEF IInv, Typed, TypeOK
<1>2. Handlers' /\ RowsRead'
  BY DEF IInv, Handlers, RowsRead
<1>3. QED
  BY <1>1, <1>2, Frame DEF IInv

\* What a client caches.
LEMMA CachesIs ==
    ASSUME IInv, NEW c \in Clients, NEW u \in Upstream(c) \union Objects, Caches(c, u)
    PROVE  cached' \in [Clients -> Objects \union {NoObject}]
<1>1. cached \in [Clients -> Objects \union {NoObject}]
  BY DEF IInv, Typed, TypeOK
<1>2. u \in Objects \union {NoObject}
  BY UpstreamIs
<1>3. QED
  BY <1>1, <1>2 DEF Caches

LEMMA LooksKeeps ==
    ASSUME IInv, NEW c \in Clients, Looks(c)
    PROVE  IInv'
<1>1. cached' \in [Clients -> Objects \union {NoObject}]
  BY CachesIs DEF Looks
<1>2. /\ UNCHANGED <<users, dictionary, outside, messages, netOf, run, making, view, past, restarted>>
      /\ making \in [Clients -> {None, "read", "make", "die"}]
      /\ \A d \in Clients : making[d] # None => netOf[d] # None
      /\ \A d \in Clients : making[d] = "make" => netOf[d] \in rows \union raced
  BY DEF Looks, IInv, Typed, TypeOK, Handlers, RowsRead
<1>3. QED
  BY <1>1, <1>2, LooksUpKeeps

LEMMA BncConnectKeeps ==
    ASSUME IInv, NEW c \in Clients, BncConnect(c)
    PROVE  IInv'
<1>1. cached' \in [Clients -> Objects \union {NoObject}]
  BY CachesIs DEF BncConnect
<1>2. /\ UNCHANGED <<users, dictionary, outside, messages, netOf, run, view, past, restarted>>
      /\ netOf[c] # None
      /\ making' = making \/ making' = [making EXCEPT ![c] = "read"]
  BY DEF BncConnect
<1>3. /\ making \in [Clients -> {None, "read", "make", "die"}]
      /\ \A d \in Clients : making[d] # None => netOf[d] # None
      /\ \A d \in Clients : making[d] = "make" => netOf[d] \in rows \union raced
  BY DEF IInv, Typed, TypeOK, Handlers, RowsRead
<1>4. /\ making' \in [Clients -> {None, "read", "make", "die"}]
      /\ \A d \in Clients : making'[d] # None => netOf[d] # None
      /\ \A d \in Clients : making'[d] = "make" => netOf[d] \in rows \union raced
  BY <1>2, <1>3
<1>5. QED
  BY <1>1, <1>2, <1>4, LooksUpKeeps

LEMMA MakeReadsKeeps ==
    ASSUME IInv, NEW c \in Clients, MakeReads(c)
    PROVE  IInv'
<1>1. /\ UNCHANGED <<users, dictionary, outside, messages, clients, run, view, past, restarted>>
      /\ making[c] = "read"
      /\ making' = [making EXCEPT ![c] = IF netOf[c] \in rows THEN "make" ELSE "die"]
  BY DEF MakeReads
<1>2. /\ cached \in [Clients -> Objects \union {NoObject}]
      /\ making \in [Clients -> {None, "read", "make", "die"}]
      /\ \A d \in Clients : making[d] # None => netOf[d] # None
      /\ \A d \in Clients : making[d] = "make" => netOf[d] \in rows \union raced
  BY DEF IInv, Typed, TypeOK, Handlers, RowsRead
<1>3. netOf[c] # None
  BY <1>1, <1>2 DEF None
<1>4. /\ making' \in [Clients -> {None, "read", "make", "die"}]
      /\ \A d \in Clients : making'[d] # None => netOf[d] # None
      /\ \A d \in Clients : making'[d] = "make" => netOf[d] \in rows \union raced
  BY <1>1, <1>2, <1>3
<1>5. QED
  BY <1>1, <1>2, <1>4, LooksUpKeeps

\* A connection is closed by the worker, and perhaps leaves the dictionary.
LEMMA CloseThenKeeps ==
    ASSUME IInv, NEW o \in Objects, up[o].in, NEW flags, CloseThen(o, flags),
           UNCHANGED <<restarted, moved>>,
           flags \in [net : Nets \union {None}, in : BOOLEAN, connected : BOOLEAN,
                     requested : BOOLEAN, retry : BOOLEAN],
           flags.net = up[o].net, flags.connected = up[o].connected, flags.retry = up[o].retry
    PROVE  /\ UnusedClean' /\ EventsAgree' /\ RetryDown' /\ AtMostOne'
           /\ up' \in [Objects -> [net : Nets \union {None}, in : BOOLEAN, connected : BOOLEAN,
                                  requested : BOOLEAN, retry : BOOLEAN]]
           /\ up'[o] = flags /\ \A p \in Objects : p # o => up'[p] = up[p]
           /\ sock' \in [Objects -> {None, "opening", "open"}] /\ events' \in Seq(Events)
           /\ UNCHANGED pend
<1> DEFINE e == [ev |-> "close", o |-> o]
<1>1. /\ up \in [Objects -> [net : Nets \union {None}, in : BOOLEAN, connected : BOOLEAN,
                             requested : BOOLEAN, retry : BOOLEAN]]
      /\ sock \in [Objects -> {None, "opening", "open"}] /\ events \in Seq(Events)
  BY DEF IInv, Typed, TypeOK
<1>2. /\ up' = [up EXCEPT ![o] = flags] /\ UNCHANGED pend
      /\ sock' = [sock EXCEPT ![o] = None]
      /\ events' = IF sock[o] = None THEN events ELSE Append(events, e)
  BY DEF CloseThen
<1>3. e \in Events /\ e.o = o /\ e.ev = "close"
  BY DEF Events
<1> HIDE DEF e
<1>4. /\ up' \in [Objects -> [net : Nets \union {None}, in : BOOLEAN, connected : BOOLEAN,
                              requested : BOOLEAN, retry : BOOLEAN]]
      /\ up'[o] = flags /\ \A p \in Objects : p # o => up'[p] = up[p]
      /\ sock' \in [Objects -> {None, "opening", "open"}]
      /\ sock'[o] = None /\ \A p \in Objects : p # o => sock'[p] = sock[p]
  BY <1>1, <1>2
<1>5. events' \in Seq(Events)
  BY <1>1, <1>2, <1>3, AppendProperties
<1>6. \A p \in Objects : /\ up'[p].in => up[p].in
                         /\ up'[p].net = up[p].net /\ up'[p].connected = up[p].connected
                         /\ up'[p].retry = up[p].retry
  BY <1>4
<1>7. AtMostOne' /\ RetryDown'
  BY <1>6 DEF IInv, AtMostOne, RetryDown
<1>8. CASE sock[o] = None
  <2>1. UnusedClean'
    BY <1>2, <1>4, <1>6, <1>8 DEF IInv, UnusedClean
  <2>2. EventsAgree'
    BY <1>2, <1>4, <1>6, <1>8 DEF IInv, EventsAgree
  <2>3. QED
    BY <1>2, <1>4, <1>5, <1>7, <2>1, <2>2
<1>9. CASE sock[o] # None
  <2>1. UnusedClean'
    BY <1>2, <1>3, <1>4, <1>6, <1>9, EventOfMade
  <2>2. sock'[o] # "open" /\ e.ev # "existing"
    BY <1>3, <1>4 DEF None
  <2>3. EventsAgree'
    BY <1>2, <1>3, <1>4, <1>6, <1>9, <2>2, EventAdded
  <2>4. QED
    BY <1>2, <1>4, <1>5, <1>7, <2>1, <2>3
<1>10. QED
  BY <1>8, <1>9

\* It is closed and stays.
LEMMA RequestedKeeps ==
    ASSUME IInv, NEW o \in Objects, up[o].in, CloseThen(o, [up[o] EXCEPT !.requested = TRUE]),
           UNCHANGED <<users, messages, netOf, making, view, past, restarted>>,
           cached' \in [Clients -> Objects \union {NoObject}],
           \/ run' = run
           \/ \E c \in Clients : run[c].at # "drop" /\ run' = [run EXCEPT ![c] = Idle]
    PROVE  IInv'
<1> DEFINE flags == [up[o] EXCEPT !.requested = TRUE]
<1>1. up[o] \in [net : Nets \union {None}, in : BOOLEAN, connected : BOOLEAN,
                requested : BOOLEAN, retry : BOOLEAN]
  BY DEF IInv, Typed, TypeOK
<1>2. /\ flags \in [net : Nets \union {None}, in : BOOLEAN, connected : BOOLEAN,
                    requested : BOOLEAN, retry : BOOLEAN]
      /\ flags.net = up[o].net /\ flags.connected = up[o].connected
      /\ flags.retry = up[o].retry /\ flags.in = up[o].in
  BY <1>1
<1>3. CloseThen(o, flags)
  OBVIOUS
<1> HIDE DEF flags
<1>4. /\ UnusedClean' /\ EventsAgree' /\ RetryDown' /\ AtMostOne'
      /\ up' \in [Objects -> [net : Nets \union {None}, in : BOOLEAN, connected : BOOLEAN,
                             requested : BOOLEAN, retry : BOOLEAN]]
      /\ up'[o] = flags /\ \A p \in Objects : p # o => up'[p] = up[p]
      /\ sock' \in [Objects -> {None, "opening", "open"}] /\ events' \in Seq(Events)
      /\ UNCHANGED pend
  BY <1>2, <1>3, CloseThenKeeps
<1>5. \A p \in Objects : /\ up'[p].in = up[p].in /\ up'[p].net = up[p].net
                         /\ up'[p].connected = up[p].connected
  BY <1>2, <1>4
<1>6. \A m : Find(m)' = Find(m) /\ (Connected(m)' <=> Connected(m))
  BY <1>5 DEF Find, Connected
<1>7. Handlers' /\ RowsRead' /\ ClosedUp' /\ TellsTruth' /\ run' \in [Clients -> Runs]
  <2>1. CASE run' = run
    <3>1. Handlers' /\ RowsRead' /\ run' \in [Clients -> Runs]
      BY <2>1, Frame DEF IInv, Typed
    <3>2. ClosedUp'
      BY <1>6, <2>1 DEF IInv, ClosedUp
    <3>3. TellsTruth'
      BY <1>6, <2>1 DEF IInv, TellsTruth, LastTold, DropsNow
    <3>4. QED
      BY <3>1, <3>2, <3>3
  <2>2. CASE \E c \in Clients : run[c].at # "drop" /\ run' = [run EXCEPT ![c] = Idle]
    BY <1>6, <2>2, IdleFits, RunStep
  <2>3. QED
    BY <2>1, <2>2
<1>8. GoneUnlessRaced' /\ NotYet'
  BY <1>6 DEF IInv, GoneUnlessRaced, NotYet
<1>9. Typed'
  BY <1>4, <1>7 DEF IInv, Typed, TypeOK
<1>10. QED
  BY <1>4, <1>7, <1>8, <1>9, Frame DEF IInv

LEMMA DisconnectKeeps ==
    ASSUME IInv, NEW c \in Clients, Disconnect(c)
    PROVE  IInv'
<1>1. /\ run[c].at # "drop" /\ run' = [run EXCEPT ![c] = Idle]
      /\ UNCHANGED <<users, messages, clients, making, view, past, restarted>>
      /\ cached \in [Clients -> Objects \union {NoObject}]
  BY DEF Disconnect, At, Ends, IInv, Typed, TypeOK
<1>2. PICK o \in Found(run[c].net) :
          IF IsUp(o) THEN CloseThen(o, [up[o] EXCEPT !.requested = TRUE])
                     ELSE UNCHANGED <<dictionary, outside>>
  BY DEF Disconnect
<1>3. CASE ~IsUp(o)
  BY <1>1, <1>2, <1>3, IdleFits, StepKeeps
<1>4. CASE IsUp(o)
  <2>1. o \in Objects /\ up[o].in
    BY <1>4, NetworksAssumption DEF IsUp, Found, Find
  <2>2. QED
    BY <1>1, <1>2, <1>4, <2>1, RequestedKeeps
<1>5. QED
  BY <1>3, <1>4

LEMMA BncDisconnectKeeps ==
    ASSUME IInv, NEW c \in Clients, BncDisconnect(c)
    PROVE  IInv'
<1>1. /\ run' = run
      /\ UNCHANGED <<users, messages, netOf, making, view, past, restarted>>
  BY DEF BncDisconnect
<1>2. PICK u \in Upstream(c) : /\ IsUp(u) /\ Caches(c, u)
                               /\ CloseThen(u, [up[u] EXCEPT !.requested = TRUE])
  BY DEF BncDisconnect
<1>3. u \in Objects /\ up[u].in
  BY <1>2, UpstreamIs DEF IsUp
<1>4. cached' \in [Clients -> Objects \union {NoObject}]
  BY <1>2, CachesIs
<1>5. QED
  BY <1>1, <1>2, <1>3, <1>4, RequestedKeeps

\* DELNETWORK: no connection is left when the row is to be deleted.
LEMMA CloseUpKeeps ==
    ASSUME IInv, NEW c \in Clients, CloseUp(c)
    PROVE  IInv'
<1>0. PICK n : n = run[c].net
  OBVIOUS
<1>1. /\ run[c].op = "delete" /\ run[c].at = "act" /\ Goes(c, "drop")
      /\ UNCHANGED <<users, messages, clients, making, view, past, restarted>>
      /\ Fits(run[c], netOf[c], created)
  BY DEF CloseUp, Destroys, At, IInv, Handlers
<1>2. PICK r \in Runs : /\ run' = [run EXCEPT ![c] = r] /\ r.at = "drop"
                        /\ r.op = run[c].op /\ r.net = n
  BY <1>0, <1>1, GoesIs DEF Places
<1>3. Fits(r, netOf[c], created) /\ ~WillConnect(r) /\ ~Inserts(r)
  BY <1>0, <1>1, <1>2 DEF Fits, WillConnect, Inserts, None
<1>4. /\ Handlers' /\ RowsRead' /\ run' \in [Clients -> Runs]
      /\ run'[c] = r /\ \A d \in Clients : d # c => run'[d] = run[d]
  <2>1. /\ \A d \in Clients : Fits(run[d], netOf'[d], created')
        /\ \A d \in Clients : making'[d] # None => netOf'[d] # None
    BY <1>1 DEF IInv, Handlers
  <2>2. /\ \A d \in Clients : WillConnect(run[d]) => run[d].net \in rows' \union raced'
        /\ \A d \in Clients : making'[d] = "make" => netOf'[d] \in rows' \union raced'
    BY <1>1 DEF IInv, RowsRead
  <2>3. Fits(r, netOf'[c], created')
    BY <1>1, <1>3
  <2>4. QED
    BY <1>2, <1>3, <2>1, <2>2, <2>3, RunFits
<1>5. /\ UnusedClean' /\ EventsAgree' /\ RetryDown' /\ AtMostOne'
      /\ up' \in [Objects -> [net : Nets \union {None}, in : BOOLEAN, connected : BOOLEAN,
                             requested : BOOLEAN, retry : BOOLEAN]]
      /\ sock' \in [Objects -> {None, "opening", "open"}] /\ events' \in Seq(Events)
      /\ UNCHANGED pend
      /\ n \notin moved => Find(n)' = {}
      /\ \A m : m # n => Find(m)' = Find(m) /\ (Connected(m)' <=> Connected(m))
      /\ Find(n)' \subseteq Find(n)
  <2>1. PICK o \in Found(n) :
            IF o \in Objects THEN CloseThen(o, [up[o] EXCEPT !.requested = TRUE, !.in = FALSE])
                             ELSE UNCHANGED <<dictionary, outside>>
    BY <1>0 DEF CloseUp, Destroys
  <2>2. CASE o \notin Objects
    <3>1. UNCHANGED <<dictionary, outside>> /\ Find(n) = {}
      BY <2>1, <2>2 DEF Found, Find
    <3>2. \A m : Find(m)' = Find(m) /\ (Connected(m)' <=> Connected(m))
      BY <3>1 DEF Find, Connected
    <3>3. QED
      BY <1>1, <3>1, <3>2, Frame DEF IInv, Typed, TypeOK
  <2>3. CASE o \in Objects
    <3> DEFINE flags == [up[o] EXCEPT !.requested = TRUE, !.in = FALSE]
    <3>1. CloseThen(o, flags)
      BY <2>1, <2>3
    <3>2. o \in Find(n)
      BY <2>3, NetworksAssumption DEF Found
    <3>3. o \in Objects /\ up[o].in /\ up[o].net = n
      BY <3>2 DEF Find
    <3>4. up[o] \in [net : Nets \union {None}, in : BOOLEAN, connected : BOOLEAN,
                    requested : BOOLEAN, retry : BOOLEAN]
      BY <3>3 DEF IInv, Typed, TypeOK
    <3>5. /\ flags \in [net : Nets \union {None}, in : BOOLEAN, connected : BOOLEAN,
                        requested : BOOLEAN, retry : BOOLEAN]
          /\ flags.net = up[o].net /\ flags.connected = up[o].connected
          /\ flags.retry = up[o].retry /\ flags.in = FALSE
      BY <3>4
    <3> HIDE DEF flags
    <3>6. /\ UnusedClean' /\ EventsAgree' /\ RetryDown' /\ AtMostOne'
          /\ up' \in [Objects -> [net : Nets \union {None}, in : BOOLEAN, connected : BOOLEAN,
                                 requested : BOOLEAN, retry : BOOLEAN]]
          /\ up'[o] = flags /\ \A p \in Objects : p # o => up'[p] = up[p]
          /\ sock' \in [Objects -> {None, "opening", "open"}] /\ events' \in Seq(Events)
          /\ UNCHANGED pend
      BY <1>1, <3>1, <3>3, <3>5, CloseThenKeeps
    <3>7. n \notin moved => Find(n) = {o}
      BY <3>2, TheOne DEF IInv
    <3>8. Find(n)' = Find(n) \ {o}
      BY <3>5, <3>6 DEF Find
    <3>9. \A m : m # n => Find(m)' = Find(m)
      BY <3>3, <3>5, <3>6 DEF Find
    <3>10. \A m : m # n => o \notin Find(m) /\ Find(m) \subseteq Objects
      BY <3>3 DEF Find
    <3>11. \A m : m # n => (Connected(m)' <=> Connected(m))
      BY <3>6, <3>9, <3>10 DEF Connected
    <3>12. QED
      BY <3>6, <3>7, <3>8, <3>9, <3>11
  <2>4. QED
    BY <2>2, <2>3
<1>6. \A m : Find(m)' \subseteq Find(m)
  BY <1>5
<1>7. ClosedUp'
  <2>1. ASSUME NEW d \in Clients, (run[d].at = "drop")'
        PROVE  (Find(run[d].net) = {} \/ run[d].net \in raced \union moved)'
    <3>1. CASE d = c
      <4>1. run'[d].net = n
        BY <1>2, <1>4, <3>1
      <4>2. QED
        BY <1>1, <1>5, <4>1 DEF Find
    <3>2. CASE d # c
      <4>1. PICK m : m = run[d].net
        OBVIOUS
      <4>2. run'[d].net = m /\ (Find(m) = {} \/ m \in raced \union moved)
        BY <1>4, <2>1, <3>2, <4>1 DEF IInv, ClosedUp
      <4>3. Find(m)' = {} \/ m \in raced' \union moved'
        BY <1>1, <1>6, <4>2
      <4>4. QED
        BY <4>2, <4>3 DEF Find
    <3>3. QED
      BY <3>1, <3>2
  <2>2. QED
    BY <2>1 DEF ClosedUp
<1>8. GoneUnlessRaced' /\ NotYet'
  BY <1>1, <1>6 DEF IInv, GoneUnlessRaced, NotYet
<1>9. TellsTruth'
  <2> SUFFICES ASSUME ~restarted, NEW m \in rows \ moved, ~DropsNow(m)'
               PROVE  LastTold(m)'
    BY <1>1 DEF TellsTruth
  <2>1. m # n
    BY <1>2, <1>4 DEF DropsNow
  <2>2. ~DropsNow(m)
    BY <1>1, <1>4 DEF DropsNow
  <2>3. LastTold(m)
    BY <2>2 DEF IInv, TellsTruth
  <2>4. QED
    BY <1>1, <1>5, <2>1, <2>3 DEF LastTold
<1>10. Typed'
  BY <1>1, <1>4, <1>5 DEF IInv, Typed, TypeOK
<1>11. QED
  BY <1>1, <1>4, <1>5, <1>7, <1>8, <1>9, <1>10, Frame DEF IInv

LEMMA DropKeeps ==
    ASSUME IInv, NEW c \in Clients, Drop(c)
    PROVE  IInv'
<1> DEFINE n == run[c].net
<1>1. /\ run[c].op = "delete" /\ run[c].at = "drop" /\ Goes(c, "list")
      /\ UNCHANGED <<vals, created, last, clash, dictionary, outside, messages, clients, making, view,
                     moved, restarted>>
      /\ rows' = rows \ {n}
      /\ raced' = IF Connecting(n) THEN raced \union {n} ELSE raced
      /\ Fits(run[c], netOf[c], created)
  BY DEF Drop, At, IInv, Handlers
<1>2. PICK r \in Runs : /\ run' = [run EXCEPT ![c] = r] /\ r.at = "list"
                        /\ r.op = run[c].op /\ r.net = run[c].net
  BY <1>1, GoesIs DEF Places
<1>3. Fits(r, netOf[c], created) /\ ~WillConnect(r) /\ ~Inserts(r) /\ n \in created
  BY <1>1, <1>2 DEF Fits, WillConnect, Inserts, None
<1>4. \A m \in rows \union raced : m \in rows' \union raced' \/ (m = n /\ ~Connecting(n))
  BY <1>1
<1>5. /\ Handlers' /\ RowsRead' /\ run' \in [Clients -> Runs]
      /\ run'[c] = r /\ \A d \in Clients : d # c => run'[d] = run[d]
  <2>1. /\ \A d \in Clients : Fits(run[d], netOf'[d], created')
        /\ \A d \in Clients : making'[d] # None => netOf'[d] # None
    BY <1>1 DEF IInv, Handlers
  <2>2. \A d \in Clients : WillConnect(run[d]) => run[d].net \in rows' \union raced'
    <3>1. \A d \in Clients : WillConnect(run[d]) => run[d].net \in rows \union raced
      BY DEF IInv, RowsRead
    <3>2. \A d \in Clients : WillConnect(run[d]) /\ run[d].net = n => Connecting(n)
      BY DEF WillConnect, Connecting
    <3>3. QED
      BY <1>4, <3>1, <3>2
  <2>3. \A d \in Clients : making'[d] = "make" => netOf'[d] \in rows' \union raced'
    <3>1. \A d \in Clients : making[d] = "make" => netOf[d] \in rows \union raced
      BY DEF IInv, RowsRead
    <3>2. \A d \in Clients : making[d] = "make" /\ netOf[d] = n => Connecting(n)
      BY DEF Connecting
    <3>3. QED
      BY <1>1, <1>4, <3>1, <3>2
  <2>4. Fits(r, netOf'[c], created')
    BY <1>1, <1>3
  <2>5. QED
    BY <1>2, <1>3, <2>1, <2>2, <2>3, <2>4, RunFits
<1>6. \A m : Find(m)' = Find(m) /\ (Connected(m)' <=> Connected(m))
  BY <1>1 DEF Find, Connected
<1>7. ClosedUp'
  BY <1>1, <1>2, <1>5, <1>6 DEF IInv, ClosedUp
<1>8. GoneUnlessRaced'
  <2>1. Find(n) = {} \/ n \in raced \union moved
    BY <1>1 DEF IInv, ClosedUp
  <2>2. QED
    BY <1>1, <1>6, <2>1 DEF IInv, GoneUnlessRaced
<1>9. NotYet'
  BY <1>1, <1>6 DEF IInv, NotYet
<1>10. TellsTruth'
  <2> SUFFICES ASSUME ~restarted, NEW m \in rows \ moved, m # n, ~DropsNow(m)'
               PROVE  LastTold(m)'
    BY <1>1 DEF TellsTruth
  <2>1. ~DropsNow(m)
    BY <1>5 DEF DropsNow
  <2>2. LastTold(m)
    BY <2>1 DEF IInv, TellsTruth
  <2>3. QED
    BY <1>1, <1>6, <2>2 DEF LastTold
<1>11. Typed'
  BY <1>1, <1>3, <1>5 DEF IInv, Typed, TypeOK
<1>12. QED
  BY <1>1, <1>5, <1>7, <1>8, <1>9, <1>10, <1>11, Frame DEF IInv

\* ADDNETWORK: nothing was said of the network before.
LEMMA InsertKeeps ==
    ASSUME IInv, NEW c \in Clients, Insert(c)
    PROVE  IInv'
<1> DEFINE n == run[c].net
<1>1. /\ run[c].op = "add" /\ run[c].at = "insert" /\ Goes(c, "list")
      /\ UNCHANGED <<vals, last, clash, dictionary, outside, messages, clients, making, view, past,
                     restarted>>
      /\ rows' = rows \union {n} /\ created' = created \union {n}
      /\ Fits(run[c], netOf[c], created)
  BY DEF Insert, At, IInv, Handlers
<1>2. PICK r \in Runs : /\ run' = [run EXCEPT ![c] = r] /\ r.at = "list"
                        /\ r.op = run[c].op /\ r.net = run[c].net
  BY <1>1, GoesIs DEF Places
<1>3. Inserts(run[c]) /\ n \notin created /\ n \in Nets
  BY <1>1 DEF Fits, Inserts, Commands
<1>4. Fits(r, netOf[c], created') /\ ~WillConnect(r) /\ ~Inserts(r)
  BY <1>1, <1>2 DEF Fits, WillConnect, Inserts, None
<1>5. /\ Handlers' /\ RowsRead' /\ run' \in [Clients -> Runs]
      /\ run'[c] = r /\ \A d \in Clients : d # c => run'[d] = run[d]
  <2>1. ASSUME NEW d \in Clients, d # c
        PROVE  Fits(run[d], netOf'[d], created')
    <3>1. Fits(run[d], netOf[d], created)
      BY DEF IInv, Handlers
    <3>2. Inserts(run[d]) => run[d].net # n
      BY <1>3, <2>1 DEF IInv, Handlers
    <3>3. QED
      BY <1>1, <3>1, <3>2 DEF Fits
  <2>2. /\ \A d \in Clients : WillConnect(run[d]) => run[d].net \in rows' \union raced'
        /\ \A d \in Clients : making'[d] = "make" => netOf'[d] \in rows' \union raced'
        /\ \A d \in Clients : making'[d] # None => netOf'[d] # None
    BY <1>1 DEF IInv, RowsRead, Handlers
  <2>3. Fits(r, netOf'[c], created')
    BY <1>1, <1>4
  <2>4. QED
    BY <1>2, <1>4, <2>1, <2>2, <2>3, RunFits
<1>6. \A m : Find(m)' = Find(m) /\ (Connected(m)' <=> Connected(m))
  BY <1>1 DEF Find, Connected
<1>7. ClosedUp'
  BY <1>1, <1>2, <1>5, <1>6 DEF IInv, ClosedUp
<1>8. GoneUnlessRaced' /\ NotYet'
  BY <1>1, <1>6 DEF IInv, GoneUnlessRaced, NotYet
<1>9. TellsTruth'
  <2> SUFFICES ASSUME ~restarted, NEW m \in rows' \ moved, ~DropsNow(m)'
               PROVE  LastTold(m)'
    BY <1>1 DEF TellsTruth
  <2>1. CASE m = n
    <3>1. Find(n) = {} /\ (\A d \in Clients : ~view[d][n]) /\ notes[n] = <<>>
      BY <1>3 DEF IInv, NotYet
    <3>2. ~Connected(n)
      BY <3>1 DEF Connected
    <3>3. Len(notes[n]) = 0 /\ overtaken[n] = 0
      <4>1. Len(notes[n]) = 0
        BY <3>1
      <4>2. overtaken[n] \in Nat /\ overtaken[n] <= Len(notes[n])
        BY <1>3 DEF IInv, Overtaken, Typed
      <4>3. QED
        BY <4>1, <4>2
    <3>4. QED
      BY <1>1, <1>6, <2>1, <3>1, <3>2, <3>3 DEF LastTold
  <2>2. CASE m # n
    <3>1. m \in rows /\ ~DropsNow(m)
      BY <1>1, <1>5, <2>2 DEF DropsNow
    <3>2. LastTold(m)
      BY <3>1 DEF IInv, TellsTruth
    <3>3. QED
      BY <1>1, <1>6, <3>2 DEF LastTold
  <2>3. QED
    BY <2>1, <2>2
<1>10. Typed'
  BY <1>1, <1>3, <1>5 DEF IInv, Typed, TypeOK
<1>11. QED
  BY <1>1, <1>5, <1>7, <1>8, <1>9, <1>10, Frame DEF IInv

LEMMA ListKeeps ==
    ASSUME IInv, NEW c \in Clients, List(c)
    PROVE  IInv'
<1>1. PICK found \in [rows -> Objects \union {NoObject}] :
          /\ \A n \in rows : found[n] \in Found(n)
          /\ view' = [d \in Clients |->
                         IF run[c].op = "list" /\ d # c THEN view[d]
                         ELSE [n \in Nets |-> IF n \in rows THEN IsUp(found[n]) ELSE view[d][n]]]
  BY DEF List
<1>2. /\ run[c].at = "list" /\ run' = [run EXCEPT ![c] = Idle]
      /\ behind' = IF run[c].op = "list" THEN behind ELSE behind \ rows
      /\ UNCHANGED <<users, dictionary, outside, notes, overtaken, clients, making, past, restarted>>
  BY DEF List, Ends
<1>3. view \in [Clients -> [Nets -> BOOLEAN]] /\ rows \subseteq created /\ created \subseteq Nets
  BY DEF IInv, Typed, TypeOK
<1>4. \A n \in rows : IsUp(found[n]) \in BOOLEAN
  <2>1. \A o \in Objects : up[o].connected \in BOOLEAN
    BY DEF IInv, Typed, TypeOK
  <2>2. QED
    BY <2>1 DEF IsUp
<1>5. /\ view' \in [Clients -> [Nets -> BOOLEAN]]
      /\ \A d \in Clients, n \in Nets :
             view'[d][n] = IF n \in rows /\ ~(run[c].op = "list" /\ d # c) THEN IsUp(found[n])
                           ELSE view[d][n]
  BY <1>1, <1>3, <1>4
\* Of a network that has taken no connection of another one there is only one to find.
<1>6. \A n \in rows \ moved : IsUp(found[n]) <=> Connected(n)
  <2> SUFFICES ASSUME NEW n \in rows \ moved
               PROVE  IsUp(found[n]) <=> Connected(n)
    OBVIOUS
  <2>1. found[n] \in Found(n)
    BY <1>1
  <2>2. CASE Find(n) = {}
    BY <2>1, <2>2, NetworksAssumption DEF Found, IsUp, Connected
  <2>3. CASE Find(n) # {}
    <3>1. found[n] \in Find(n) /\ found[n] \in Objects
      BY <2>1, <2>3 DEF Found, Find
    <3>2. Connected(n) <=> up[found[n]].connected
      BY <3>1, TheOne DEF IInv
    <3>3. QED
      BY <3>1, <3>2 DEF IsUp
  <2>4. QED
    BY <2>2, <2>3
<1>7. /\ Handlers' /\ RowsRead' /\ run' \in [Clients -> Runs]
      /\ run'[c] = Idle /\ \A d \in Clients : d # c => run'[d] = run[d]
  <2>1. /\ \A d \in Clients : Fits(run[d], netOf'[d], created')
        /\ \A d \in Clients : making'[d] # None => netOf'[d] # None
    BY <1>2 DEF IInv, Handlers
  <2>2. /\ \A d \in Clients : WillConnect(run[d]) => run[d].net \in rows' \union raced'
        /\ \A d \in Clients : making'[d] = "make" => netOf'[d] \in rows' \union raced'
    BY <1>2 DEF IInv, RowsRead
  <2>3. QED
    BY <1>2, <2>1, <2>2, IdleFits, RunFits
<1>8. \A m : Find(m)' = Find(m) /\ (Connected(m)' <=> Connected(m))
  BY <1>2 DEF Find, Connected
<1>9. ClosedUp'
  BY <1>2, <1>7, <1>8, IdleFits DEF IInv, ClosedUp
<1>10. NotYet'
  BY <1>2, <1>3, <1>5, <1>8 DEF IInv, NotYet
<1>11. TellsTruth'
  <2> SUFFICES ASSUME ~restarted, NEW n \in rows \ moved, ~DropsNow(n)'
               PROVE  LastTold(n)'
    BY <1>2 DEF TellsTruth
  <2>1. ~DropsNow(n)
    BY <1>2, <1>7 DEF DropsNow
  <2>2. LastTold(n) /\ n \in Nets
    BY <1>3, <2>1 DEF IInv, TellsTruth
  <2>3. ASSUME overtaken[n] = Len(notes[n]), n \notin behind', NEW d \in Clients
        PROVE  view'[d][n] <=> Connected(n)
    <3>1. CASE run[c].op = "list" /\ d # c
      <4>1. view[d][n] <=> Connected(n)
        BY <1>2, <2>2, <2>3, <3>1 DEF LastTold
      <4>2. QED
        BY <1>5, <2>2, <3>1, <4>1
    <3>2. CASE ~(run[c].op = "list" /\ d # c)
      <4>1. view'[d][n] = IsUp(found[n])
        BY <1>5, <2>2, <3>2
      <4>2. QED
        BY <1>6, <4>1
    <3>3. QED
      BY <3>1, <3>2
  <2>4. QED
    BY <1>2, <1>8, <2>2, <2>3 DEF LastTold
<1>12. Typed'
  BY <1>2, <1>5, <1>7 DEF IInv, Typed, TypeOK
<1>13. QED
  BY <1>2, <1>7, <1>9, <1>10, <1>11, <1>12, Frame DEF IInv

\* A handler ends; its client may be in network n from now on.
LEMMA EndsIn ==
    ASSUME IInv, NEW c \in Clients, NEW n \in Nets, run' = [run EXCEPT ![c] = Idle],
           netOf' = netOf \/ (netOf[c] = None /\ netOf' = [netOf EXCEPT ![c] = n]),
           UNCHANGED <<rows, created, making>>, raced \subseteq raced'
    PROVE  /\ Handlers' /\ RowsRead' /\ run' \in [Clients -> Runs]
           /\ run'[c] = Idle /\ \A d \in Clients : d # c => run'[d] = run[d]
           /\ netOf' \in [Clients -> Nets \union {None}]
<1>1. netOf \in [Clients -> Nets \union {None}]
  BY DEF IInv, Typed, TypeOK
<1>2. /\ netOf' \in [Clients -> Nets \union {None}]
      /\ \A d \in Clients : d # c \/ netOf[c] # None => netOf'[d] = netOf[d]
  BY <1>1
<1>3. \A d \in Clients : d # c => Fits(run[d], netOf'[d], created')
  BY <1>2 DEF IInv, Handlers
<1>4. \A d \in Clients : WillConnect(run[d]) => run[d].net \in rows' \union raced'
  BY DEF IInv, RowsRead
<1>5. \A d \in Clients : making[d] # None => netOf[d] # None /\ netOf'[d] = netOf[d]
  BY <1>2 DEF IInv, Handlers
<1>6. \A d \in Clients : making'[d] # None => netOf'[d] # None
  BY <1>5
<1>7. \A d \in Clients : making'[d] = "make" => netOf'[d] \in rows' \union raced'
  BY <1>5 DEF IInv, RowsRead, None
<1>8. Idle \in Runs /\ Fits(Idle, netOf'[c], created') /\ ~WillConnect(Idle) /\ ~Inserts(Idle)
  BY IdleFits
<1>9. QED
  BY <1>2, <1>3, <1>4, <1>6, <1>7, <1>8, RunFits

\* The connection that makeUpstream() takes or makes: it is the only one of its network, or
\* was another network's.
LEMMA MakeIs ==
    ASSUME IInv, NEW c \in Clients, NEW n \in Nets, Make(c, n), Find(n) = {} \/ netOf[c] = n
    PROVE  /\ cached' \in [Clients -> Objects \union {NoObject}]
           /\ \E o \in Objects :
                 /\ up' = [up EXCEPT ![o].net = n, ![o].in = TRUE] /\ pend' = Opening(o)
                 /\ up[o].in \/ (up[o] = Unused /\ sock[o] = None /\ Find(n) = {})
                 /\ moved' = IF up[o].net \in {None, n} THEN moved ELSE moved \union {up[o].net, n}
<1>1. PICK u \in Upstream(c) :
          /\ Caches(c, u)
          /\ \E o \in ObjectFor(u) :
               /\ up' = [up EXCEPT ![o].net = n, ![o].in = TRUE] /\ pend' = Opening(o)
               /\ moved' = IF up[o].net \in {None, n} THEN moved ELSE moved \union {up[o].net, n}
  BY DEF Make
<1>2. PICK o \in ObjectFor(u) :
          /\ up' = [up EXCEPT ![o].net = n, ![o].in = TRUE] /\ pend' = Opening(o)
          /\ moved' = IF up[o].net \in {None, n} THEN moved ELSE moved \union {up[o].net, n}
  BY <1>1
<1>3. cached' \in [Clients -> Objects \union {NoObject}]
  BY <1>1, CachesIs
<1>4. o \in Objects /\ (up[o].in \/ (up[o] = Unused /\ sock[o] = None /\ Find(n) = {}))
  <2>1. CASE u = NoObject
    <3>1. o \in NewObject
      BY <2>1 DEF ObjectFor
    <3>2. o \in Objects /\ up[o] = Unused /\ sock[o] = None
      BY <3>1 DEF NewObject, Fresh
    <3>3. Find(n) = {}
      BY <2>1, UpstreamIs, NetworksAssumption
    <3>4. QED
      BY <3>2, <3>3
  <2>2. CASE u # NoObject
    BY <2>2, UpstreamIs DEF ObjectFor
  <2>3. QED
    BY <2>1, <2>2
<1>5. QED
  BY <1>2, <1>3, <1>4

\* makeUpstream() for a network whose row was read.
LEMMA MakeKeeps ==
    ASSUME IInv, NEW c \in Clients, NEW n \in Nets, n \in rows \union raced,
           Make(c, n), Find(n) = {} \/ netOf[c] = n,
           UNCHANGED <<users, messages, view, restarted>>,
           Handlers', RowsRead',
           run' \in [Clients -> Runs], netOf' \in [Clients -> Nets \union {None}],
           making' \in [Clients -> {None, "read", "make", "die"}],
           \A d \in Clients : run'[d] # run[d] => run[d].at # "drop" /\ run'[d].at # "drop"
    PROVE  IInv'
<1>1. PICK o \in Objects :
          /\ up' = [up EXCEPT ![o].net = n, ![o].in = TRUE] /\ pend' = Opening(o)
          /\ up[o].in \/ (up[o] = Unused /\ sock[o] = None /\ Find(n) = {})
          /\ moved' = IF up[o].net \in {None, n} THEN moved ELSE moved \union {up[o].net, n}
  BY MakeIs
<1>2. /\ UNCHANGED outside /\ raced' = IF Deleting(n) THEN raced \union {n} ELSE raced
      /\ cached' \in [Clients -> Objects \union {NoObject}]
  BY MakeIs DEF Make
<1>3. /\ up \in [Objects -> [net : Nets \union {None}, in : BOOLEAN, connected : BOOLEAN,
                             requested : BOOLEAN, retry : BOOLEAN]]
      /\ pend \in [Objects -> {None, "load", "send", "timer"}]
      /\ rows \subseteq created /\ raced \subseteq created /\ created \subseteq Nets
  BY DEF IInv, Typed, TypeOK
<1>4. /\ up' \in [Objects -> [net : Nets \union {None}, in : BOOLEAN, connected : BOOLEAN,
                              requested : BOOLEAN, retry : BOOLEAN]]
      /\ \A p \in Objects : p # o => up'[p] = up[p]
      /\ up'[o].in /\ up'[o].net = n
      /\ up'[o].connected = up[o].connected /\ up'[o].retry = up[o].retry
  <2>1. \A p \in Objects : p # o => up'[p] = up[p]
    BY <1>1, <1>3
  <2>2. up'[o] = [up[o] EXCEPT !.net = n, !.in = TRUE]
    BY <1>1, <1>3
  <2>3. /\ up'[o].in /\ up'[o].net = n
        /\ up'[o].connected = up[o].connected /\ up'[o].retry = up[o].retry
        /\ up'[o] \in [net : Nets \union {None}, in : BOOLEAN, connected : BOOLEAN,
                       requested : BOOLEAN, retry : BOOLEAN]
    <3>1. up[o] \in [net : Nets \union {None}, in : BOOLEAN, connected : BOOLEAN,
                    requested : BOOLEAN, retry : BOOLEAN]
      BY <1>3
    <3>2. n \in Nets
      OBVIOUS
    <3>3. QED
      BY ONLY <2>2, <3>1, <3>2
  <2>4. up' = [p \in Objects |-> up'[p]]
    BY <1>1, <1>3
  <2>5. \A p \in Objects : up'[p] \in [net : Nets \union {None}, in : BOOLEAN, connected : BOOLEAN,
                                        requested : BOOLEAN, retry : BOOLEAN]
    BY <1>3, <2>1, <2>3
  <2>6. QED
    BY <2>1, <2>3, <2>4, <2>5
<1>5. /\ pend' \in [Objects -> {None, "load", "send", "timer"}]
      /\ \A p \in Objects : p # o => pend'[p] = pend[p]
  BY <1>1, <1>3 DEF Opening
<1>6. n \in created /\ n # None
  BY <1>3, NetworksAssumption
<1>7. \A m : m # n => Find(m)' \subseteq Find(m)
  BY <1>4 DEF Find
<1>8. moved \subseteq moved' /\ raced \subseteq raced'
  BY <1>1, <1>2
\* Of a network that takes no connection of another one it is the only one.
<1>9. n \notin moved' => \/ up[o].in /\ up[o].net = n
                         \/ ~up[o].in /\ ~up[o].connected /\ Find(n) = {}
  <2>1. up[o].in => up[o].net # None
    BY DEF IInv, UnusedClean
  <2>2. up[o] = Unused => ~up[o].in /\ ~up[o].connected
    BY DEF Unused
  <2>3. QED
    BY <1>1, <2>1, <2>2
<1>10. AtMostOne'
  <2>1. ASSUME NEW p \in Objects, p # o, up[p].in, up[p].net = n, n \notin moved'
        PROVE  FALSE
    <3>1. p \in Find(n)
      BY <2>1 DEF Find
    <3>2. up[o].in /\ up[o].net = n /\ n \notin moved
      BY <1>8, <1>9, <2>1, <3>1
    <3>3. QED
      BY <2>1, <3>2 DEF IInv, AtMostOne
  <2>2. QED
    BY <1>4, <1>8, <2>1 DEF IInv, AtMostOne
<1>11. UnusedClean'
  BY <1>2, <1>4, <1>5, <1>6 DEF IInv, UnusedClean
<1>12. ClosedUp'
  <2>1. ASSUME NEW d \in Clients, (run[d].at = "drop")'
        PROVE  (Find(run[d].net) = {} \/ run[d].net \in raced \union moved)'
    <3>1. PICK m : m = run[d].net
      OBVIOUS
    <3>2. run'[d] = run[d]
      BY <2>1
    <3>3. run'[d].net = m /\ run[d].at = "drop" /\ (Find(m) = {} \/ m \in raced \union moved)
      BY <2>1, <3>1, <3>2 DEF IInv, ClosedUp
    <3>4. m = n => Deleting(n)
      BY <3>1, <3>3 DEF IInv, Handlers, Fits, Deleting
    <3>5. Find(m)' = {} \/ m \in raced' \union moved'
      BY <1>2, <1>7, <1>8, <3>3, <3>4
    <3>6. QED
      BY <3>3, <3>5 DEF Find
  <2>2. QED
    BY <2>1 DEF ClosedUp
<1>13. GoneUnlessRaced'
  BY <1>7, <1>8 DEF IInv, GoneUnlessRaced
<1>14. NotYet'
  <2>1. \A m \in Nets \ created : m # n
    BY <1>6
  <2>2. QED
    BY <1>7, <2>1 DEF IInv, NotYet
<1>15. RetryDown'
  <2>1. \A p \in Objects : up'[p].connected = up[p].connected /\ up'[p].retry = up[p].retry
    BY <1>4
  <2>2. QED
    BY <2>1 DEF IInv, RetryDown
<1>16. EventsAgree'
  <2> SUFFICES ASSUME ~restarted, NEW p \in Objects, up'[p].in
               PROVE  /\ \A i \in 1..Len(events) : events[i].o = p /\ events[i].ev = "existing"
                            => OpenAt(events, up[p].connected, p, i)
                      /\ sock[p] = "open" => OpenAt(events, up[p].connected, p, Len(events) + 1)
    <3>1. \A p \in Objects : up'[p].connected = up[p].connected
      BY <1>4
    <3>2. QED
      BY <1>2, <3>1 DEF EventsAgree
  <2>1. CASE up[p].in
    BY <2>1 DEF IInv, EventsAgree
  <2>2. CASE ~up[p].in
    <3>1. p = o /\ up[p] = Unused /\ sock[p] = None
      BY <1>1, <1>4, <2>2
    <3>2. \A i \in 1..Len(events) : events[i].o # p
      BY <3>1 DEF IInv, UnusedClean, Unused
    <3>3. QED
      BY <3>1, <3>2 DEF None
  <2>3. QED
    BY <2>1, <2>2
<1>17. TellsTruth'
  <2> SUFFICES ASSUME ~restarted, NEW m \in rows \ moved', ~DropsNow(m)'
               PROVE  LastTold(m)'
    BY DEF TellsTruth
  <2>1. ~DropsNow(m)
    <3>1. \A d \in Clients : run[d].at = "drop" => run'[d] = run[d]
      OBVIOUS
    <3>2. QED
      BY <3>1 DEF DropsNow
  <2>2. LastTold(m) /\ m # None
    BY <1>3, <1>8, <2>1, NetworksAssumption DEF IInv, TellsTruth
  <2>3. Connected(m)' <=> Connected(m)
    <3>1. CASE m = n /\ up[o].in
      <4>1. up[o].net = n
        BY <1>9, <3>1
      <4>2. \A p \in Objects : /\ up'[p].in = up[p].in /\ up'[p].net = up[p].net
                               /\ up'[p].connected = up[p].connected
        BY <1>4, <3>1, <4>1
      <4>3. QED
        BY <4>2 DEF Connected, Find
    <3>2. CASE m = n /\ ~up[o].in
      <4>1. Find(n) = {} /\ ~up[o].connected
        BY <1>9, <3>2
      <4>2. \A p \in Find(n)' : p = o
        BY <1>4, <4>1 DEF Find
      <4>3. ~Connected(n)' /\ ~Connected(n)
        BY <1>4, <4>1, <4>2 DEF Connected
      <4>4. QED
        BY <3>2, <4>3
    <3>3. CASE m # n
      <4>1. o \notin Find(m) /\ Find(m)' = Find(m)
        BY <1>1, <1>4, <2>2, <3>3 DEF Find
      <4>2. QED
        BY <1>4, <4>1 DEF Connected, Find
    <3>4. QED
      BY <3>1, <3>2, <3>3
  <2>4. QED
    BY <2>2, <2>3 DEF LastTold
<1>18. Typed'
  BY <1>2, <1>3, <1>4, <1>5, <1>6 DEF IInv, Typed, TypeOK
<1>19. SameValues' /\ Overtaken'
  BY Frame
<1>20. QED
  BY <1>10, <1>11, <1>12, <1>13, <1>14, <1>15, <1>16, <1>17, <1>18, <1>19 DEF IInv

\* A connection that is there is opened, or is open.
LEMMA ReopenKeeps ==
    ASSUME IInv, NEW c \in Clients, NEW n \in Nets, NEW o \in Find(n), Reopens(o),
           run[c].at # "drop", run' = [run EXCEPT ![c] = Idle],
           netOf' = netOf \/ (netOf[c] = None /\ netOf' = [netOf EXCEPT ![c] = n]),
           cached' \in [Clients -> Objects \union {NoObject}],
           UNCHANGED <<users, messages, making, view, restarted>>
    PROVE  IInv'
<1>1. UNCHANGED <<up, outside, past>>
  BY DEF Reopens
<1>2. /\ Handlers' /\ RowsRead' /\ run' \in [Clients -> Runs]
      /\ run'[c] = Idle /\ \A d \in Clients : d # c => run'[d] = run[d]
      /\ netOf' \in [Clients -> Nets \union {None}]
  BY <1>1, EndsIn
<1>3. pend \in [Objects -> {None, "load", "send", "timer"}]
  BY DEF IInv, Typed, TypeOK
<1>4. /\ pend' \in [Objects -> {None, "load", "send", "timer"}]
      /\ \A p \in Objects : up[p].net = None => pend'[p] = pend[p]
  <2>1. up[o].net = n /\ n # None
    BY NetworksAssumption DEF Find
  <2>2. QED
    BY <1>3, <2>1 DEF Reopens, Opening
<1>5. UnusedClean'
  BY <1>1, <1>4 DEF IInv, UnusedClean
<1>6. \A m : Find(m)' = Find(m) /\ (Connected(m)' <=> Connected(m))
  BY <1>1 DEF Find, Connected
<1>7. ClosedUp'
  BY <1>1, <1>2, <1>6, IdleFits DEF IInv, ClosedUp
<1>8. TellsTruth'
  <2> SUFFICES ASSUME ~restarted, NEW m \in rows \ moved, ~DropsNow(m)'
               PROVE  LastTold(m)'
    BY <1>1 DEF TellsTruth
  <2>1. ~DropsNow(m)
    BY <1>2 DEF DropsNow
  <2>2. LastTold(m)
    BY <2>1 DEF IInv, TellsTruth
  <2>3. QED
    BY <1>6, <2>2 DEF LastTold
<1>9. Typed'
  BY <1>1, <1>2, <1>4 DEF IInv, Typed, TypeOK
<1>10. QED
  BY <1>1, <1>2, <1>5, <1>7, <1>8, <1>9, Frame DEF IInv

LEMMA LoginKeeps ==
    ASSUME IInv, NEW c \in Clients, Login(c)
    PROVE  IInv'
<1> DEFINE n == run[c].net
<1>1. /\ run[c].op = "login" /\ run[c].at = "act" /\ run' = [run EXCEPT ![c] = Idle]
      /\ netOf' = [netOf EXCEPT ![c] = n]
      /\ UNCHANGED <<users, messages, making, view, restarted>>
      /\ Fits(run[c], netOf[c], created)
  BY DEF Login, At, Ends, IInv, Handlers
<1>2. /\ n \in Nets /\ netOf[c] = None /\ run[c].at # "drop" /\ n \in rows \union raced
      /\ making \in [Clients -> {None, "read", "make", "die"}]
  BY <1>1 DEF Fits, WillConnect, Commands, IInv, RowsRead, Typed, TypeOK
<1>3. CASE Find(n) = {} /\ Make(c, n)
  <2>1. /\ Handlers' /\ RowsRead' /\ run' \in [Clients -> Runs]
        /\ run'[c] = Idle /\ \A d \in Clients : d # c => run'[d] = run[d]
        /\ netOf' \in [Clients -> Nets \union {None}]
    <3>1. raced \subseteq raced'
      BY <1>3 DEF Make
    <3>2. QED
      BY <1>1, <1>2, <3>1, EndsIn
  <2>2. \A d \in Clients : run'[d] # run[d] => run[d].at # "drop" /\ run'[d].at # "drop"
    BY <1>2, <2>1, IdleFits
  <2>3. QED
    BY <1>1, <1>2, <1>3, <2>1, <2>2, MakeKeeps
<1>4. CASE \E o \in Find(n) : Reopens(o) /\ Caches(c, o)
  <2>1. PICK o \in Find(n) : Reopens(o) /\ Caches(c, o)
    BY <1>4
  <2>2. cached' \in [Clients -> Objects \union {NoObject}]
    BY <2>1, CachesIs DEF Find
  <2>3. QED
    BY <1>1, <1>2, <2>1, <2>2, ReopenKeeps
<1>5. QED
  BY <1>3, <1>4 DEF Login

LEMMA ConnectKeeps ==
    ASSUME IInv, NEW c \in Clients, Connect(c)
    PROVE  IInv'
<1> DEFINE n == run[c].net
<1>1. /\ run[c].op = "connect" /\ run[c].at = "act" /\ run' = [run EXCEPT ![c] = Idle]
      /\ UNCHANGED <<users, messages, netOf, making, view, restarted>>
      /\ Fits(run[c], netOf[c], created)
  BY DEF Connect, At, Ends, IInv, Handlers
<1>2. /\ n \in Nets /\ run[c].at # "drop" /\ n \in rows \union raced
      /\ making \in [Clients -> {None, "read", "make", "die"}]
      /\ cached \in [Clients -> Objects \union {NoObject}]
  BY <1>1 DEF Fits, WillConnect, Commands, IInv, RowsRead, Typed, TypeOK
<1>3. CASE Find(n) = {} /\ Make(c, n)
  <2>1. /\ Handlers' /\ RowsRead' /\ run' \in [Clients -> Runs]
        /\ run'[c] = Idle /\ \A d \in Clients : d # c => run'[d] = run[d]
        /\ netOf' \in [Clients -> Nets \union {None}]
    <3>1. raced \subseteq raced'
      BY <1>3 DEF Make
    <3>2. QED
      BY <1>1, <1>2, <3>1, EndsIn
  <2>2. \A d \in Clients : run'[d] # run[d] => run[d].at # "drop" /\ run'[d].at # "drop"
    BY <1>2, <2>1, IdleFits
  <2>3. QED
    BY <1>1, <1>2, <1>3, <2>1, <2>2, MakeKeeps
<1>4. CASE \E o \in Find(n) : Reopens(o) /\ UNCHANGED cached
  BY <1>1, <1>2, <1>4, ReopenKeeps
<1>5. QED
  BY <1>3, <1>4 DEF Connect

LEMMA MakeUpstreamKeeps ==
    ASSUME IInv, NEW c \in Clients, MakeUpstream(c)
    PROVE  IInv'
<1> DEFINE n == netOf[c]
<1>1. /\ making[c] = "make" /\ making' = [making EXCEPT ![c] = None] /\ Make(c, n)
      /\ UNCHANGED <<users, messages, netOf, run, view, restarted>>
  BY DEF MakeUpstream
<1>2. /\ making \in [Clients -> {None, "read", "make", "die"}] /\ run \in [Clients -> Runs]
      /\ netOf \in [Clients -> Nets \union {None}] /\ rows \union raced \subseteq Nets
  BY DEF IInv, Typed, TypeOK
<1>3. n \in rows \union raced /\ n \in Nets
  BY <1>1, <1>2 DEF IInv, RowsRead
<1>4. /\ making' \in [Clients -> {None, "read", "make", "die"}]
      /\ \A d \in Clients : making'[d] # None => making'[d] = making[d]
  BY <1>1, <1>2
<1>5. Handlers' /\ RowsRead'
  <2>1. raced \subseteq raced'
    BY <1>1 DEF Make
  <2>2. Handlers'
    BY <1>1, <1>4 DEF IInv, Handlers
  <2>3. \A d \in Clients : making'[d] = "make" => making[d] = "make"
    BY <1>4 DEF None
  <2>4. RowsRead'
    BY <1>1, <2>1, <2>3 DEF IInv, RowsRead
  <2>5. QED
    BY <2>2, <2>4
<1>6. run' \in [Clients -> Runs] /\ netOf' \in [Clients -> Nets \union {None}]
  BY <1>1, <1>2
<1>7. QED
  BY <1>1, <1>3, <1>4, <1>5, <1>6, MakeKeeps

-----------------------------------------------------------------------------
(* Another worker.                                                         *)

LEMMA RestartKeeps ==
    ASSUME IInv, Restarts
    PROVE  IInv'
<1> DEFINE kept == {o \in Objects : up[o].in /\ up[o].net \in rows}
<1>1. /\ up' = [o \in Objects |-> IF o \in kept THEN [up[o] EXCEPT !.connected = FALSE]
                                  ELSE [up[o] EXCEPT !.in = FALSE]]
      /\ pend' = [o \in Objects |-> IF o \in kept THEN "load" ELSE None]
      /\ cached' = [c \in Clients |-> NoObject]
      /\ run' = [c \in Clients |-> Idle] /\ making' = [c \in Clients |-> None]
      /\ notes' = [n \in Nets |-> <<>>] /\ overtaken' = [n \in Nets |-> 0] /\ restarted' = TRUE
      /\ UNCHANGED <<users, outside, netOf, view, past>>
  BY DEF Restarts
<1>2. up \in [Objects -> [net : Nets \union {None}, in : BOOLEAN, connected : BOOLEAN,
                          requested : BOOLEAN, retry : BOOLEAN]]
  BY DEF IInv, Typed, TypeOK
<1>3. \A o \in Objects : o \in kept => up[o].net # None /\ up[o].in
  BY NetworksAssumption DEF IInv, Typed, TypeOK
<1> HIDE DEF kept
<1>4. /\ up' \in [Objects -> [net : Nets \union {None}, in : BOOLEAN, connected : BOOLEAN,
                              requested : BOOLEAN, retry : BOOLEAN]]
      /\ \A o \in Objects : up'[o].net = up[o].net /\ (up'[o].in => up[o].in)
  BY <1>1, <1>2, <1>3
<1>5. \A n : Find(n)' \subseteq Find(n)
  BY <1>4 DEF Find
<1>6. \A c \in Clients : run'[c] = Idle /\ making'[c] = None
  BY <1>1
<1>7. run' \in [Clients -> Runs]
  BY <1>1, IdleFits
<1>8. Handlers' /\ RowsRead' /\ ClosedUp'
  BY <1>6, IdleFits DEF Handlers, RowsRead, ClosedUp, None
<1>9. AtMostOne'
  BY <1>1, <1>4 DEF IInv, AtMostOne
<1>10. UnusedClean'
  BY <1>1, <1>3, <1>4 DEF IInv, UnusedClean
<1>11. GoneUnlessRaced'
  BY <1>1, <1>5 DEF IInv, GoneUnlessRaced
<1>12. /\ notes' \in [Nets -> Seq(BOOLEAN)] /\ overtaken' \in [Nets -> Nat]
       /\ \A n \in Nets : Len(notes'[n]) = 0 /\ notes'[n] = <<>> /\ overtaken'[n] = 0
  BY <1>1
<1>13. NotYet' /\ Overtaken'
  BY <1>1, <1>5, <1>12 DEF IInv, NotYet, Overtaken
<1>14. RetryDown' /\ EventsAgree' /\ TellsTruth'
  BY <1>1 DEF RetryDown, EventsAgree, TellsTruth
<1>15. Typed'
  <2>1. /\ pend' \in [Objects -> {None, "load", "send", "timer"}]
        /\ cached' \in [Clients -> Objects \union {NoObject}]
        /\ making' \in [Clients -> {None, "read", "make", "die"}]
    BY <1>1
  <2>2. QED
    BY <1>1, <1>4, <1>7, <1>12, <2>1 DEF IInv, Typed, TypeOK
<1>16. SameValues'
  BY <1>1, Frame
<1>17. QED
  BY <1>8, <1>9, <1>10, <1>11, <1>13, <1>14, <1>15, <1>16 DEF IInv

LEMMA InitHolds == Init => IInv
<1> SUFFICES ASSUME Init PROVE IInv
  OBVIOUS
<1> USE DEF Init
<1>1. (CHOOSE n \in Nets : TRUE) \in Nets
  BY NetworksAssumption
<1>2. \A n : Find(n) = {}
  BY DEF Find, Unused
<1>3. /\ events \in Seq(Events) /\ Len(events) = 0
      /\ notes \in [Nets -> Seq(BOOLEAN)] /\ overtaken \in [Nets -> Nat]
      /\ \A n \in Nets : notes[n] = <<>> /\ Len(notes[n]) = 0 /\ overtaken[n] = 0
  OBVIOUS
<1>4. run \in [Clients -> Runs]
  BY IdleFits
<1>5. \A o \in Objects : ~up[o].in /\ ~up[o].retry
  BY DEF Unused
<1>6. up \in [Objects -> [net : Nets \union {None}, in : BOOLEAN, connected : BOOLEAN,
                          requested : BOOLEAN, retry : BOOLEAN]]
  BY DEF Unused
<1>7. TypeOK
  <2>1. vals \in [Nets -> [Cols -> Values]]
    BY DEF Values
  <2>2. QED
    BY <1>1, <1>6, <2>1 DEF TypeOK
<1>8. Typed
  BY <1>3, <1>4, <1>7 DEF Typed
<1>9. SameValues /\ AtMostOne /\ RetryDown
  BY <1>5 DEF SameValues, AtMostOne, RetryDown
<1>10. UnusedClean /\ EventsAgree
  BY <1>3, <1>5 DEF UnusedClean, EventsAgree
<1>11. Handlers /\ RowsRead /\ ClosedUp
  BY IdleFits DEF Handlers, RowsRead, ClosedUp, None
<1>12. GoneUnlessRaced /\ NotYet /\ Overtaken
  BY <1>2, <1>3 DEF GoneUnlessRaced, NotYet, Overtaken
<1>13. TellsTruth
  <2>1. \A n : ~Connected(n)
    BY <1>2 DEF Connected
  <2>2. \A n \in rows : LastTold(n)
    BY <1>1, <1>3, <2>1 DEF LastTold
  <2>3. QED
    BY <2>2 DEF TellsTruth
<1>14. QED
  BY <1>8, <1>9, <1>10, <1>11, <1>12, <1>13 DEF IInv

-----------------------------------------------------------------------------
(* The theorems.                                                           *)

\* The inductive invariant holds in every reachable state.
THEOREM Invariance == Spec => []IInv
<1>1. IInv /\ [Next]_vars => IInv'
  <2> SUFFICES ASSUME IInv, [Next]_vars
               PROVE  IInv'
    OBVIOUS
  <2>1. CASE UNCHANGED vars
    <3>1. /\ UNCHANGED <<users, up, messages, clients, run, making, view, past, restarted>>
          /\ UNCHANGED <<pend, sock, events>>
      BY <2>1 DEF vars
    <3>2. Typed' /\ UnusedClean' /\ EventsAgree'
      BY <3>1, Frame DEF IInv, Typed, TypeOK
    <3>3. QED
      BY <3>1, <3>2, QuietKeeps DEF IInv
  <2>2. ASSUME NEW o \in Objects, Load(o) \/ SendOpen(o) \/ Timer(o) \/ Connects(o) \/ Drops(o)
        PROVE  IInv'
    BY <2>2, LoadKeeps, SendOpenKeeps, TimerKeeps, ConnectsKeeps, DropsKeeps
  <2>3. CASE WorkerEvent \/ \E n \in Nets : Note(n)
    BY <2>3, WorkerEventKeeps, NoteKeeps
  <2>4. ASSUME NEW c \in Clients, Handler(c)
        PROVE  IInv'
    BY <2>4, ReadKeeps, LoginKeeps, ConnectKeeps, DisconnectKeeps, CountKeeps, InsertKeeps,
       ChangeKeeps, CloseUpKeeps, DropKeeps, ListKeeps, QuietEndKeeps, BncConnectKeeps,
       MakeReadsKeeps, MakeUpstreamKeeps, BncDisconnectKeeps, LooksKeeps, ListsKeeps DEF Handler
  <2>5. ASSUME NEW c \in Clients, Dies(c)
        PROVE  IInv'
    BY <2>5, RestartKeeps DEF Dies
  <2>6. ASSUME NEW c \in Clients, NEW n \in Nets, NEW op \in Commands, Command(c, op, n)
        PROVE  IInv'
    BY <2>6, CommandKeeps
  <2>7. CASE Restart
    BY <2>7, RestartKeeps DEF Restart
  <2>8. QED
    BY <2>1, <2>2, <2>3, <2>4, <2>5, <2>6, <2>7 DEF Next
<1>2. QED
  BY <1>1, InitHolds, PTL DEF Spec

\* Every variable keeps its type, whatever handlers, timers and restarts interleave.
THEOREM TypeCorrect == Spec => []TypeOK
<1>1. IInv => TypeOK
  BY DEF IInv, Typed
<1>2. QED
  BY <1>1, Invariance, PTL

\* However the handlers of several clients and the worker's restarts interleave, the dictionary
\* has two connections of a network to find only where a client has connected a network with a
\* connection it had cached for another one
\* (connectiondict.js:45, connectionincoming.js: makeUpstream()).
THEOREM OneToFind == Spec => []OneUpstreamPerNetwork
<1>1. IInv => OneUpstreamPerNetwork
  <2> SUFFICES ASSUME IInv, NEW n \in Nets \ moved
               PROVE  Cardinality(Find(n)) <= 1
    BY DEF OneUpstreamPerNetwork
  <2>1. CASE Find(n) = {}
    BY <2>1, FS_EmptySet
  <2>2. CASE Find(n) # {}
    <3>1. PICK o : o \in Find(n)
      BY <2>2
    <3>2. Find(n) = {o}
      BY <3>1, TheOne DEF IInv
    <3>3. Cardinality({o}) = 1
      BY FS_Singleton
    <3>4. QED
      BY <3>2, <3>3
  <2>3. QED
    BY <2>1, <2>2
<1>2. QED
  BY <1>1, Invariance, PTL

\* A column has the value that was last given to it, although handlers save rows they read
\* before another one wrote, unless the other one wrote the same column
\* (databasesavable.js: setData(), save()).
THEOREM SettingsAreKept == Spec => []NoLostUpdate
<1>1. IInv => NoLostUpdate
  BY DEF IInv, SameValues, NoLostUpdate, Typed, TypeOK
<1>2. QED
  BY <1>1, Invariance, PTL

\* DELNETWORK leaves no connection of its network behind, unless another handler that had read
\* the row ran at the same time or a connection was taken from another network
\* (bouncer/index.js:635).
THEOREM DeletedHasNone == Spec => []GoneUnlessRaced
<1>1. IInv => GoneUnlessRaced
  BY DEF IInv
<1>2. QED
  BY <1>1, Invariance, PTL

\* What the clients were told of a network is true when no message about it is on its way, in
\* whatever order the messages before were sent, if the last one was sent last; until a worker
\* restarts, and where the network has taken no connection of another one
\* (bouncer/index.js: sendConnectionState(), sendNetworkListToClients()).
THEOREM ClientsAreTold == Spec => []ToldUntilRestart
<1>1. IInv => ToldUntilRestart
  <2> SUFFICES ASSUME IInv, ~restarted, NEW n \in rows \ (moved \union behind), ~DropsNow(n),
                      notes[n] = <<>>, NEW c \in Clients
               PROVE  view[c][n] = Connected(n)
    BY DEF ToldUntilRestart, Told
  <2>1. LastTold(n) /\ n \in Nets
    BY DEF IInv, TellsTruth, Typed, TypeOK
  <2>2. overtaken[n] = Len(notes[n])
    <3>1. Len(notes[n]) = 0
      OBVIOUS
    <3>2. overtaken[n] \in Nat /\ overtaken[n] <= Len(notes[n])
      BY <2>1 DEF IInv, Overtaken, Typed
    <3>3. QED
      BY <3>1, <3>2
  <2>3. view[c][n] <=> Connected(n)
    BY <2>1, <2>2 DEF LastTold
  <2>4. view[c][n] \in BOOLEAN /\ Connected(n) \in BOOLEAN
    BY <2>1 DEF IInv, Typed, TypeOK, Connected
  <2>5. QED
    BY <2>3, <2>4
<1>2. QED
  BY <1>1, Invariance, PTL

=============================================================================
