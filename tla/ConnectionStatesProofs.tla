----------------------- MODULE ConnectionStatesProofs -----------------------
(***************************************************************************)
(* Proofs about ConnectionStates for every set of clients and every number *)
(* of faults: a running worker forgets no connection whose socket is open, *)
(* and what was authenticated stays known to every later worker.           *)
(***************************************************************************)
EXTENDS ConnectionStates, SequenceTheorems, TLAPS

Events == [ev : {"new", "line", "close"}, id : Clients, ids : {{}}]
          \union [ev : {"active", "reset"}, id : {"all"}, ids : SUBSET Clients]

Announces(e, c) == e.ev = "new" /\ e.id = c

\* Event e denies that socket c is open: the worker that handles it may forget c.
Denies(e, c) ==
    \/ e.ev = "close" /\ e.id = c
    \/ e.ev = "active" /\ c \notin e.ids
    \/ e.ev = "reset"

Typed == TypeOK /\ queue \in Seq(Events)

\* Nothing is known of a socket that does not exist yet, or that is still to be announced.
NothingOf(c) == mem[c] = "none" /\ rows[c] = "none" /\ ghosts[c] = "none" /\ c \notin sure

KnownOnceAnnounced ==
    \A c \in Clients :
       c \notin used \/ (\E i \in DOMAIN queue : Announces(queue[i], c)) => NothingOf(c)

AnnouncedOnce ==
    \A c \in Clients : \A i, j \in DOMAIN queue :
       Announces(queue[i], c) => c \in used /\ (Announces(queue[j], c) => i = j)

\* An event denies a socket that is open only when it is older than the socket.
DeniesOnlyOlder ==
    \A c \in live : \A i \in DOMAIN queue :
       Denies(queue[i], c) => \E j \in DOMAIN queue : j > i /\ Announces(queue[j], c)

DirtyKnown == \A c \in dirty : Known(c)

GhostsGone == \A c \in live : ghosts[c] = "none"

\* What must survive is in memory, and on disk or about to be.
Saved ==
    \A c \in sure \intersect live :
       /\ mem[c] = "auth" /\ mode # "wiping"
       /\ rows[c] = "auth" \/ (c \in dirty /\ mode = "up")

IInv ==
    /\ Typed /\ KnownOnceAnnounced /\ AnnouncedOnce /\ DeniesOnlyOlder /\ DirtyKnown
    /\ GhostsGone /\ Saved

\* The bound on faults, whatever the step.
LEMMA FaultsTyped == TypeOK /\ [Next]_vars => faults' \in 0..MaxFaults
<1>. SUFFICES ASSUME TypeOK, [Next]_vars PROVE faults' \in 0..MaxFaults
  OBVIOUS
<1>1. UNCHANGED faults \/ (faults < MaxFaults /\ faults' = faults + 1)
  BY DEF Next, vars, Sockets, Reports, SocketsRestart, Handle, Save, GiveUp, Stop, ResetEnds,
         Exit, Crash
<1>. QED
  BY <1>1, StatesAssumption DEF TypeOK

----------------------------------------------------------------------------
(* The queue of events.                                                    *)

LEMMA EventSent ==
    ASSUME Typed, NEW e \in Events, Sends(e)
    PROVE  /\ queue' \in Seq(Events)
           /\ DOMAIN queue = 1..Len(queue)
           /\ DOMAIN queue' = 1..(Len(queue) + 1)
           /\ \A i \in 1..Len(queue) : queue'[i] = queue[i]
           /\ queue'[Len(queue) + 1] = e
BY DEF Typed, Sends

LEMMA EventTaken ==
    ASSUME Typed, queue # <<>>, queue' = Tail(queue)
    PROVE  /\ Head(queue) = queue[1] /\ Head(queue) \in Events
           /\ queue' \in Seq(Events)
           /\ DOMAIN queue = 1..Len(queue) /\ Len(queue) \in Nat \ {0}
           /\ DOMAIN queue' = 1..(Len(queue) - 1)
           /\ \A i \in 1..(Len(queue) - 1) : queue'[i] = queue[i + 1]
BY DEF Typed

\* The events that are left when none, or the first, is taken.
LEMMA EventsLeft ==
    ASSUME IInv, UNCHANGED sockets,
           queue' = queue \/ (queue # <<>> /\ queue' = Tail(queue))
    PROVE  /\ queue' \in Seq(Events) /\ AnnouncedOnce' /\ DeniesOnlyOlder'
           /\ \A c \in Clients :
                 (c \notin used \/ \E i \in DOMAIN queue : Announces(queue[i], c))'
                 => NothingOf(c)
<1>1. CASE queue' = queue
  BY <1>1 DEF IInv, Typed, AnnouncedOnce, DeniesOnlyOlder, KnownOnceAnnounced, sockets,
              Announces, Denies
<1>2. CASE queue # <<>> /\ queue' = Tail(queue)
  <2>. DEFINE n == Len(queue)
  <2>. USE DEF sockets
  <2>1. /\ queue' \in Seq(Events) /\ n \in Nat \ {0}
        /\ DOMAIN queue = 1..n /\ DOMAIN queue' = 1..(n - 1)
        /\ \A i \in 1..(n - 1) : queue'[i] = queue[i + 1]
    BY <1>2, EventTaken DEF IInv
  <2>2. \A c : \A i \in 1..(n - 1) :
           /\ i + 1 \in 1..n
           /\ Announces(queue[i], c)' <=> Announces(queue[i + 1], c)
           /\ Denies(queue[i], c)' <=> Denies(queue[i + 1], c)
    BY <2>1 DEF Announces, Denies
  <2>3. AnnouncedOnce'
    <3>. SUFFICES ASSUME NEW c \in Clients, NEW i \in 1..(n - 1), NEW j \in 1..(n - 1),
                         Announces(queue[i], c)'
                  PROVE  c \in used /\ (Announces(queue[j], c)' => i = j)
      BY <2>1 DEF AnnouncedOnce
    <3>1. Announces(queue[i + 1], c) /\ i + 1 \in 1..n /\ j + 1 \in 1..n
      BY <2>2
    <3>2. c \in used /\ (Announces(queue[j + 1], c) => i + 1 = j + 1)
      BY <3>1, <2>1 DEF IInv, AnnouncedOnce
    <3>. QED
      BY <3>2, <2>2
  <2>4. DeniesOnlyOlder'
    <3>. SUFFICES ASSUME NEW c \in live, NEW i \in 1..(n - 1), Denies(queue[i], c)'
                  PROVE  \E j \in 1..(n - 1) : j > i /\ Announces(queue[j], c)'
      BY <2>1 DEF DeniesOnlyOlder
    <3>1. PICK k \in 1..n : k > i + 1 /\ Announces(queue[k], c)
      BY <2>1, <2>2 DEF IInv, DeniesOnlyOlder
    <3>2. k - 1 \in 1..(n - 1) /\ k - 1 > i /\ (k - 1) + 1 = k
      BY <3>1, <2>1
    <3>. QED
      BY <3>1, <3>2, <2>2
  <2>5. ASSUME NEW c \in Clients, (c \notin used \/ \E i \in DOMAIN queue : Announces(queue[i], c))'
        PROVE  NothingOf(c)
    <3>1. c \notin used \/ \E i \in 1..n : Announces(queue[i], c)
      BY <2>5, <2>1, <2>2
    <3>. QED
      BY <3>1, <2>1 DEF IInv, KnownOnceAnnounced
  <2>. QED
    BY <2>1, <2>3, <2>4, <2>5
<1>. QED
  BY <1>1, <1>2

\* An event that denies no open socket is sent.
LEMMA EventAdded ==
    ASSUME IInv, NEW e \in Events, e.ev # "new", Sends(e), used' = used, live' \subseteq live,
           \A c \in live' : ~Denies(e, c)
    PROVE  /\ queue' \in Seq(Events) /\ AnnouncedOnce' /\ DeniesOnlyOlder'
           /\ \A c \in Clients :
                 (c \notin used \/ \E i \in DOMAIN queue : Announces(queue[i], c))'
                 => NothingOf(c)
<1>. DEFINE n == Len(queue)
<1>1. /\ queue' \in Seq(Events) /\ n \in Nat
      /\ DOMAIN queue = 1..n /\ DOMAIN queue' = 1..(n + 1)
      /\ \A i \in 1..n : queue'[i] = queue[i]
      /\ queue'[n + 1] = e
  BY EventSent DEF IInv, Typed
<1>2. \A c : ~Announces(e, c)
  BY DEF Announces
<1>3. AnnouncedOnce'
  BY <1>1, <1>2 DEF IInv, AnnouncedOnce
<1>4. DeniesOnlyOlder'
  <2>. SUFFICES ASSUME NEW c \in live', NEW i \in 1..(n + 1), Denies(queue'[i], c)
                PROVE  \E j \in 1..(n + 1) : j > i /\ Announces(queue'[j], c)
    BY <1>1 DEF DeniesOnlyOlder
  <2>1. c \in live /\ i \in 1..n /\ Denies(queue[i], c)
    BY <1>1
  <2>. QED
    BY <2>1, <1>1 DEF IInv, DeniesOnlyOlder
<1>5. ASSUME NEW c \in Clients,
             (c \notin used \/ \E i \in DOMAIN queue : Announces(queue[i], c))'
      PROVE  NothingOf(c)
  <2>1. c \notin used \/ \E i \in 1..n : Announces(queue[i], c)
    BY <1>5, <1>1, <1>2
  <2>. QED
    BY <2>1, <1>1 DEF IInv, KnownOnceAnnounced
<1>. QED
  BY <1>1, <1>3, <1>4, <1>5

\* What the worker knows does not change, and no socket is new.
LEMMA NothingLearnt ==
    ASSUME IInv, UNCHANGED <<mode, states, database, sure>>, live' \subseteq live,
           \A c \in Clients :
              (c \notin used \/ \E i \in DOMAIN queue : Announces(queue[i], c))'
              => NothingOf(c)
    PROVE  KnownOnceAnnounced' /\ DirtyKnown' /\ GhostsGone' /\ Saved'
BY DEF IInv, states, database, KnownOnceAnnounced, NothingOf, DirtyKnown, Known, GhostsGone,
       Saved

LEMMA SocketsKeeps == IInv /\ Sockets => IInv'
<1>. SUFFICES ASSUME IInv, Sockets PROVE IInv'
  OBVIOUS
<1>. USE DEF sockets
<1>0. Typed /\ TypeOK /\ queue \in Seq(Events)
  BY DEF IInv, Typed
<1>1. UNCHANGED <<mode, states, database, network, pending, history>>
  BY DEF Sockets
<1>2. CASE UNCHANGED used
  <2>1. \E e \in Events : /\ e.ev # "new" /\ Sends(e) /\ live' \subseteq live
                          /\ \A c \in live' : ~Denies(e, c)
                          /\ UNCHANGED asked
    <3>1. \A c \in Clients : Event("line", c) \in Events /\ Event("close", c) \in Events
      BY DEF Event, Events
    <3>2. \A c \in Clients : Clients \ used = Clients \ used'
      BY <1>2
    <3>3. CASE \E c \in Clients \ used : used' = used \union {c}
      BY <3>3, <1>2
    <3>4. CASE \E c \in live : Sends(Event("line", c)) /\ UNCHANGED <<sockets, asked>>
      <4>1. PICK c \in live : Sends(Event("line", c)) /\ UNCHANGED <<sockets, asked>>
        BY <3>4
      <4>2. c \in Clients
        BY <1>0 DEF TypeOK
      <4>3. Event("line", c).ev = "line"
        BY DEF Event
      <4>. QED
        BY <4>1, <4>2, <4>3, <3>1 DEF Denies
    <3>5. CASE \E c \in live : /\ live' = live \ {c} /\ Sends(Event("close", c))
                               /\ UNCHANGED asked
      <4>1. PICK c \in live : /\ live' = live \ {c} /\ Sends(Event("close", c))
                              /\ UNCHANGED asked
        BY <3>5
      <4>2. c \in Clients
        BY <1>0 DEF TypeOK
      <4>3. Event("close", c).ev = "close" /\ Event("close", c).id = c
        BY DEF Event
      <4>. QED
        BY <4>1, <4>2, <4>3, <3>1 DEF Denies
    <3>. QED
      BY <3>3, <3>4, <3>5 DEF Sockets
  <2>2. PICK e \in Events : /\ e.ev # "new" /\ Sends(e) /\ live' \subseteq live
                            /\ \A c \in live' : ~Denies(e, c)
                            /\ UNCHANGED asked
    BY <2>1
  <2>3. /\ queue' \in Seq(Events) /\ AnnouncedOnce' /\ DeniesOnlyOlder'
        /\ \A c \in Clients :
              (c \notin used \/ \E i \in DOMAIN queue : Announces(queue[i], c))'
              => NothingOf(c)
    BY <1>2, <2>2, EventAdded
  <2>4. KnownOnceAnnounced' /\ DirtyKnown' /\ GhostsGone' /\ Saved'
    BY <1>1, <2>2, <2>3, NothingLearnt DEF history
  <2>5. TypeOK'
    BY <1>0, <1>1, <1>2, <2>2, FaultsTyped DEF TypeOK, Next, states, database, network, history
  <2>. QED
    BY <2>3, <2>4, <2>5 DEF IInv, Typed
<1>3. CASE \E c \in Clients \ used : /\ live' = live \union {c} /\ used' = used \union {c}
                                     /\ Sends(Event("new", c)) /\ UNCHANGED asked
  <2>. DEFINE n == Len(queue)
  <2>1. PICK d \in Clients \ used : /\ live' = live \union {d} /\ used' = used \union {d}
                                    /\ Sends(Event("new", d)) /\ UNCHANGED asked
    BY <1>3
  <2>. DEFINE e == Event("new", d)
  <2>2. e \in Events /\ e.ev = "new" /\ e.id = d
    BY DEF Event, Events
  <2>3. /\ queue' \in Seq(Events) /\ n \in Nat
        /\ DOMAIN queue = 1..n /\ DOMAIN queue' = 1..(n + 1)
        /\ \A i \in 1..n : queue'[i] = queue[i]
        /\ queue'[n + 1] = e
    BY <1>0, <2>1, <2>2, EventSent
  <2>4. /\ \A c : Announces(e, c) <=> c = d
        /\ \A c : ~Denies(e, c)
        /\ \A i \in 1..n : ~Announces(queue[i], d)
    BY <2>1, <2>2, <2>3 DEF Announces, Denies, IInv, AnnouncedOnce
  <2>5. AnnouncedOnce'
    BY <2>1, <2>3, <2>4 DEF IInv, AnnouncedOnce
  <2>6. DeniesOnlyOlder'
    <3>. SUFFICES ASSUME NEW c \in live', NEW i \in 1..(n + 1), Denies(queue'[i], c)
                  PROVE  \E j \in 1..(n + 1) : j > i /\ Announces(queue'[j], c)
      BY <2>3 DEF DeniesOnlyOlder
    <3>1. i \in 1..n /\ Denies(queue[i], c)
      BY <2>3, <2>4
    <3>2. CASE c = d
      BY <3>1, <3>2, <2>3, <2>4
    <3>3. CASE c \in live
      BY <3>1, <3>3, <2>3 DEF IInv, DeniesOnlyOlder
    <3>. QED
      BY <2>1, <3>2, <3>3
  <2>7. KnownOnceAnnounced'
    <3>. SUFFICES ASSUME NEW c \in Clients,
                         c \notin used' \/ \E i \in 1..(n + 1) : Announces(queue'[i], c)
                  PROVE  NothingOf(c)
      BY <1>1, <2>3 DEF KnownOnceAnnounced, NothingOf, states, database, history
    <3>1. c \notin used \/ \E i \in 1..n : Announces(queue[i], c)
      BY <2>1, <2>3, <2>4
    <3>. QED
      BY <3>1, <2>3 DEF IInv, KnownOnceAnnounced
  <2>8. NothingOf(d)
    BY <2>1 DEF IInv, KnownOnceAnnounced
  <2>9. DirtyKnown' /\ GhostsGone' /\ Saved'
    BY <1>1, <2>1, <2>8 DEF IInv, states, database, history, NothingOf, DirtyKnown, Known,
                            GhostsGone, Saved
  <2>10. TypeOK'
    BY <1>0, <1>1, <2>1, FaultsTyped DEF TypeOK, Next, states, database, network, history
  <2>. QED
    BY <2>3, <2>5, <2>6, <2>7, <2>9, <2>10 DEF IInv, Typed
<1>. QED
  BY <1>2, <1>3 DEF Sockets

LEMMA ReportsKeeps == IInv /\ (Reports \/ SocketsRestart) => IInv'
<1>. SUFFICES ASSUME IInv, Reports \/ SocketsRestart PROVE IInv'
  OBVIOUS
<1>0. Typed /\ TypeOK /\ live \subseteq Clients
  BY DEF IInv, Typed, TypeOK
<1>. DEFINE e == [Event("active", "all") EXCEPT !.ids = live]
            r == Event("reset", "all")
<1>1. /\ e \in Events /\ e.ev = "active" /\ e.ids = live
      /\ r \in Events /\ r.ev = "reset"
  BY <1>0 DEF Event, Events
<1>2. /\ queue' \in Seq(Events) /\ AnnouncedOnce' /\ DeniesOnlyOlder'
      /\ \A c \in Clients :
            (c \notin used \/ \E i \in DOMAIN queue : Announces(queue[i], c))'
            => NothingOf(c)
  <2>1. CASE Reports
    <3>1. Sends(e) /\ used' = used /\ live' = live
      BY <2>1 DEF Reports, sockets
    <3>2. \A c \in live' : ~Denies(e, c)
      BY <1>1, <3>1 DEF Denies
    <3>. QED
      BY <1>1, <3>1, <3>2, EventAdded
  <2>2. CASE SocketsRestart
    <3>1. Sends(r) /\ used' = used /\ live' = {}
      BY <2>2 DEF SocketsRestart
    <3>. QED
      BY <1>1, <3>1, EventAdded
  <2>. QED
    BY <2>1, <2>2
<1>3. UNCHANGED <<mode, states, database, network, pending, history>> /\ live' \subseteq live
  BY DEF Reports, SocketsRestart, sockets
<1>4. KnownOnceAnnounced' /\ DirtyKnown' /\ GhostsGone' /\ Saved'
  BY <1>2, <1>3, NothingLearnt DEF history
<1>5. TypeOK'
  BY <1>0, FaultsTyped DEF TypeOK, Next, Reports, SocketsRestart, sockets, states, database,
                              network, history
<1>. QED
  BY <1>2, <1>4, <1>5 DEF IInv, Typed

----------------------------------------------------------------------------
(* The worker.                                                             *)

\* An event that is handled denies no socket that is open and that the worker knows.
LEMMA DeniesNoneKnown ==
    ASSUME IInv, queue # <<>>, NEW c \in live, Denies(Head(queue), c)
    PROVE  NothingOf(c)
<1>1. /\ DOMAIN queue = 1..Len(queue) /\ Len(queue) \in Nat \ {0}
      /\ Head(queue) = queue[1]
  BY DEF IInv, Typed
<1>2. \E j \in DOMAIN queue : Announces(queue[j], c)
  BY <1>1 DEF IInv, DeniesOnlyOlder
<1>. QED
  BY <1>2 DEF IInv, Typed, TypeOK, KnownOnceAnnounced

\* Destroying connections whose sockets are gone.
LEMMA DestroysKeeps ==
    ASSUME IInv, NEW cs \in SUBSET Clients, NEW marked \in SUBSET Clients,
           \A c \in cs \intersect live : NothingOf(c),
           \A c \in marked : Known(c) /\ c \notin cs,
           Destroys(cs, marked), UNCHANGED <<sockets, sure>>,
           mode' = mode,
           \A c \in Clients :
              (c \notin used \/ \E i \in DOMAIN queue : Announces(queue[i], c))'
              => NothingOf(c)
    PROVE  /\ KnownOnceAnnounced' /\ DirtyKnown' /\ GhostsGone' /\ Saved'
           /\ {mem', ghosts', rows'} \subseteq [Clients -> States \union {"none"}]
           /\ dirty' \subseteq Clients /\ links' \subseteq Clients
           /\ linkDirty' \in BOOLEAN
           /\ linkRow' = linkRow
           /\ \A c \in live : mem'[c] = mem[c]
<1>. DEFINE gone == {c \in cs : Known(c)}
<1>1. /\ mem' = [c \in Clients |-> IF c \in gone THEN "none" ELSE mem[c]]
      /\ rows' = [c \in Clients |-> IF c \in gone THEN "none" ELSE rows[c]]
      /\ ghosts' = [c \in Clients |-> IF c \in gone \intersect dirty THEN mem[c]
                                                                     ELSE ghosts[c]]
      /\ dirty' = (dirty \ gone) \union marked
      /\ links' = links \ gone
      /\ linkDirty' = (linkDirty \/ \E c \in gone : mem[c] = "auth")
      /\ UNCHANGED linkRow
  BY DEF Destroys
<1>2. TypeOK /\ live \subseteq Clients
  BY DEF IInv, Typed, TypeOK
<1>3. \A c \in live : c \notin gone
  BY DEF NothingOf, Known
<1>4. \A c \in Clients : NothingOf(c) => c \notin gone
  BY DEF NothingOf, Known
<1>. HIDE DEF gone
<1>5. gone \subseteq cs /\ gone \subseteq Clients
  BY DEF gone
<1>6. KnownOnceAnnounced'
  BY <1>1, <1>4 DEF KnownOnceAnnounced, NothingOf
<1>7. DirtyKnown'
  BY <1>1, <1>2, <1>5 DEF IInv, DirtyKnown, Known, TypeOK
<1>8. GhostsGone'
  BY <1>1, <1>2, <1>3 DEF IInv, GhostsGone, sockets
<1>9. Saved'
  BY <1>1, <1>2, <1>3 DEF IInv, Saved, sockets
<1>10. {mem', ghosts', rows'} \subseteq [Clients -> States \union {"none"}]
  BY <1>1, <1>2 DEF TypeOK
<1>11. linkDirty' \in BOOLEAN
  BY <1>1, <1>2 DEF TypeOK
<1>. QED
  BY <1>1, <1>2, <1>3, <1>5, <1>6, <1>7, <1>8, <1>9, <1>10, <1>11 DEF TypeOK

LEMMA HandleKeeps ==
    ASSUME IInv, Handle
    PROVE  IInv' /\ \A c \in live : Known(c) => Known(c)'
<1>. DEFINE e == Head(queue)
<1>1. queue # <<>> /\ queue' = Tail(queue) /\ mode # "wiping" /\ UNCHANGED <<sockets, asked>>
  BY DEF Handle
<1>2. /\ queue' \in Seq(Events) /\ AnnouncedOnce' /\ DeniesOnlyOlder'
      /\ \A c \in Clients :
            (c \notin used \/ \E i \in DOMAIN queue : Announces(queue[i], c))'
            => NothingOf(c)
  BY <1>1, EventsLeft
<1>3. /\ e \in Events /\ e = queue[1] /\ DOMAIN queue = 1..Len(queue)
      /\ Len(queue) \in Nat \ {0} /\ DOMAIN queue' = 1..(Len(queue) - 1)
      /\ \A i \in 1..(Len(queue) - 1) : queue'[i] = queue[i + 1]
  BY <1>1, EventTaken DEF IInv
<1>4. Typed /\ TypeOK /\ live \subseteq Clients /\ live' = live /\ used' = used
  BY <1>1 DEF IInv, Typed, TypeOK, sockets
<1>5. CASE e.ev = "new" /\ OnNew(e.id)
  <2>. DEFINE d == e.id
  <2>1. d \in Clients /\ Announces(queue[1], d)
    BY <1>3, <1>5 DEF Events, Announces
  <2>2. d \in used /\ NothingOf(d)
    BY <1>3, <2>1 DEF IInv, AnnouncedOnce, KnownOnceAnnounced
  <2>3. \A i \in DOMAIN queue' : ~Announces(queue'[i], d)
    <3>. SUFFICES ASSUME NEW i \in 1..(Len(queue) - 1), Announces(queue[i + 1], d)
                  PROVE  FALSE
      BY <1>3
    <3>. QED
      BY <1>3, <2>1 DEF IInv, AnnouncedOnce
  <2>. HIDE DEF d
  <2>4. /\ mem' = [mem EXCEPT ![d] = "new"] /\ rows' = [rows EXCEPT ![d] = "new"]
        /\ UNCHANGED <<mode, dirty, ghosts, linkRow, network, pending, history>>
    BY <1>5 DEF OnNew, d
  <2>5. KnownOnceAnnounced'
    <3>. SUFFICES ASSUME NEW c \in Clients,
                         (c \notin used \/ \E i \in DOMAIN queue : Announces(queue[i], c))'
                  PROVE  NothingOf(c)'
      BY DEF KnownOnceAnnounced
    <3>1. c # d /\ NothingOf(c)
      BY <1>2, <1>4, <2>2, <2>3
    <3>. QED
      BY <1>4, <2>4, <3>1 DEF NothingOf, TypeOK, history
  <2>6. DirtyKnown' /\ GhostsGone' /\ Saved'
    BY <1>4, <2>1, <2>2, <2>4 DEF IInv, TypeOK, DirtyKnown, Known, GhostsGone, Saved, NothingOf,
                                  history
  <2>7. TypeOK'
    BY <1>1, <1>4, <2>1, <2>4, FaultsTyped DEF TypeOK, Next, States, sockets, network, history
  <2>8. \A c \in live : Known(c) => Known(c)'
    BY <1>4, <2>4 DEF Known, TypeOK
  <2>. QED
    BY <1>2, <2>5, <2>6, <2>7, <2>8 DEF IInv, Typed
<1>6. CASE e.ev = "line" /\ OnLine(e.id)
  <2>. DEFINE d == e.id
  <2>1. d \in Clients
    BY <1>3, <1>6 DEF Events
  <2>. HIDE DEF d
  <2>2. OnLine(d)
    BY <1>6 DEF d
  <2>3. CASE ~Known(d)
    <3>1. UNCHANGED <<mode, states, network, database, pending, history>>
      BY <2>2, <2>3 DEF OnLine, history
    <3>2. KnownOnceAnnounced' /\ DirtyKnown' /\ GhostsGone' /\ Saved'
      BY <1>2, <1>4, <3>1, NothingLearnt DEF history
    <3>3. TypeOK'
      BY <1>1, <1>4, <3>1, FaultsTyped DEF TypeOK, Next, sockets, states, database, network, history
    <3>. QED
      BY <1>2, <3>1, <3>2, <3>3 DEF IInv, Typed, Known, states
  <2>4. CASE Known(d)
    <3>1. /\ mem' = [mem EXCEPT ![d] = "auth"]
          /\ dirty' = dirty \union {d}
          /\ links' = links \union {d} /\ linkDirty' = TRUE
          /\ sure' = IF mode = "up" THEN sure \union {d} ELSE sure
          /\ UNCHANGED <<ghosts, mode, database, pending, wiped, gaveUp>>
      BY <2>2, <2>4 DEF OnLine
    <3>2. KnownOnceAnnounced'
      <4>. SUFFICES ASSUME NEW c \in Clients,
                           (c \notin used \/ \E i \in DOMAIN queue : Announces(queue[i], c))'
                    PROVE  NothingOf(c)'
        BY DEF KnownOnceAnnounced
      <4>1. NothingOf(c)
        BY <1>2
      <4>2. c # d
        BY <2>4, <4>1 DEF Known, NothingOf
      <4>. QED
        BY <1>4, <3>1, <4>1, <4>2 DEF NothingOf, TypeOK, database
    <3>3. DirtyKnown' /\ GhostsGone'
      BY <1>4, <2>1, <3>1 DEF IInv, TypeOK, DirtyKnown, Known, GhostsGone
    <3>4. Saved'
      <4>. SUFFICES ASSUME NEW c \in sure' \intersect live
                    PROVE  /\ mem'[c] = "auth" /\ mode # "wiping"
                           /\ rows[c] = "auth" \/ (c \in dirty' /\ mode = "up")
        BY <1>4, <3>1 DEF Saved, database
      <4>1. CASE c = d /\ mode = "up"
        BY <1>4, <2>1, <3>1, <4>1 DEF TypeOK
      <4>2. CASE c \in sure
        BY <1>4, <2>1, <3>1, <4>2 DEF TypeOK, IInv, Saved
      <4>. QED
        BY <3>1, <4>1, <4>2
    <3>5. TypeOK'
      BY <1>1, <1>4, <2>1, <3>1, FaultsTyped DEF TypeOK, Next, States, sockets, database
    <3>6. \A c \in live : Known(c) => Known(c)'
      BY <1>4, <3>1 DEF Known, TypeOK
    <3>. QED
      BY <1>2, <3>2, <3>3, <3>4, <3>5, <3>6 DEF IInv, Typed
  <2>. QED
    BY <2>3, <2>4
<1>7. CASE e.ev = "close" /\ OnClose(e.id)
  <2>. DEFINE d == e.id
  <2>1. d \in Clients /\ Denies(e, d)
    BY <1>3, <1>7 DEF Events, Denies
  <2>. HIDE DEF d
  <2>2. Destroys({d}, {}) /\ UNCHANGED <<mode, pending, history>>
    BY <1>7 DEF OnClose, d
  <2>3. \A c \in {d} \intersect live : NothingOf(c)
    BY <1>1, <2>1, DeniesNoneKnown
  <2>4. {d} \in SUBSET Clients /\ {} \in SUBSET Clients
    BY <2>1
  <2>5. /\ KnownOnceAnnounced' /\ DirtyKnown' /\ GhostsGone' /\ Saved'
        /\ {mem', ghosts', rows'} \subseteq [Clients -> States \union {"none"}]
        /\ dirty' \subseteq Clients /\ links' \subseteq Clients
        /\ linkDirty' \in BOOLEAN /\ linkRow' = linkRow
        /\ \A c \in live : mem'[c] = mem[c]
    BY <1>1, <1>2, <2>2, <2>3, <2>4, DestroysKeeps DEF history
  <2>6. TypeOK'
    BY <1>1, <1>4, <2>2, <2>5, FaultsTyped DEF TypeOK, Next, sockets, history
  <2>. QED
    BY <1>2, <2>5, <2>6 DEF IInv, Typed, Known
<1>8. CASE e.ev = "active" /\ OnActive(e.ids)
  <2>. DEFINE ids == e.ids
              cs == pending \ ids
              marked == {c \in pending \intersect ids : Known(c)}
  <2>1. \A c \in cs \intersect live : NothingOf(c)
    BY <1>1, <1>8, DeniesNoneKnown DEF Denies
  <2>2. Destroys(cs, marked) /\ pending' = {} /\ UNCHANGED <<mode, history>>
    BY <1>8 DEF OnActive
  <2>3. cs \in SUBSET Clients /\ marked \in SUBSET Clients
    BY <1>4 DEF TypeOK
  <2>4. \A c \in marked : Known(c) /\ c \notin cs
    OBVIOUS
  <2>5. /\ KnownOnceAnnounced' /\ DirtyKnown' /\ GhostsGone' /\ Saved'
        /\ {mem', ghosts', rows'} \subseteq [Clients -> States \union {"none"}]
        /\ dirty' \subseteq Clients /\ links' \subseteq Clients
        /\ linkDirty' \in BOOLEAN /\ linkRow' = linkRow
        /\ \A c \in live : mem'[c] = mem[c]
    <3>. HIDE DEF cs, marked
    <3>. QED
      BY <1>1, <1>2, <2>1, <2>2, <2>3, <2>4, DestroysKeeps DEF history
  <2>6. TypeOK'
    BY <1>1, <1>4, <2>2, <2>5, FaultsTyped DEF TypeOK, Next, sockets, history
  <2>. QED
    BY <1>2, <2>5, <2>6 DEF IInv, Typed, Known
<1>9. CASE e.ev = "reset" /\ OnReset
  <2>1. \A c \in live : NothingOf(c)
    BY <1>1, <1>9, DeniesNoneKnown DEF Denies
  <2>2. /\ rows' = [c \in Clients |-> "none"] /\ mode' = "wiping"
        /\ wiped' \subseteq Clients
        /\ UNCHANGED <<states, linkRow, network, pending, sure, gaveUp>>
    BY <1>4, <1>9 DEF OnReset, TypeOK
  <2>3. KnownOnceAnnounced'
    BY <1>2, <2>2 DEF KnownOnceAnnounced, NothingOf, states
  <2>4. DirtyKnown' /\ GhostsGone' /\ Saved'
    BY <1>4, <2>1, <2>2 DEF IInv, DirtyKnown, Known, GhostsGone, Saved, NothingOf, states
  <2>5. TypeOK'
    BY <1>1, <1>4, <2>2, FaultsTyped DEF TypeOK, Next, sockets, states, network
  <2>. QED
    BY <1>2, <2>2, <2>3, <2>4, <2>5 DEF IInv, Typed, Known, states
<1>. QED
  BY <1>5, <1>6, <1>7, <1>8, <1>9 DEF Handle

\* The timers, the fail-safe and the flush: the events stay, and what is saved is in memory.
LEMMA SaveKeeps == IInv /\ Save => IInv'
<1>. SUFFICES ASSUME IInv, Save PROVE IInv'
  OBVIOUS
<1>0. /\ UNCHANGED <<sockets, queue, asked, mode, mem, links, pending, history, faults>>
      /\ Typed /\ TypeOK /\ live \subseteq Clients
  BY DEF Save, IInv, Typed, TypeOK
<1>1. /\ queue' \in Seq(Events) /\ AnnouncedOnce' /\ DeniesOnlyOlder'
      /\ \A c \in Clients :
            (c \notin used \/ \E i \in DOMAIN queue : Announces(queue[i], c))'
            => NothingOf(c)
  BY <1>0, EventsLeft
<1>2. CASE \E c \in dirty : /\ rows' = [rows EXCEPT ![c] = mem[c]] /\ dirty' = dirty \ {c}
                            /\ UNCHANGED <<ghosts, linkRow, linkDirty>>
  <2>1. PICK d \in dirty : /\ rows' = [rows EXCEPT ![d] = mem[d]] /\ dirty' = dirty \ {d}
                           /\ UNCHANGED <<ghosts, linkRow, linkDirty>>
    BY <1>2
  <2>2. d \in Clients /\ Known(d)
    BY <1>0, <2>1 DEF TypeOK, IInv, DirtyKnown
  <2>3. KnownOnceAnnounced'
    BY <1>0, <1>1, <2>1, <2>2 DEF KnownOnceAnnounced, NothingOf, Known, TypeOK, history
  <2>4. DirtyKnown' /\ GhostsGone'
    BY <1>0, <2>1 DEF IInv, DirtyKnown, Known, GhostsGone, sockets
  <2>5. Saved'
    BY <1>0, <2>1, <2>2 DEF IInv, Saved, TypeOK, sockets, history
  <2>6. TypeOK'
    BY <1>0, <2>1, <2>2, FaultsTyped DEF TypeOK, Next, sockets, history
  <2>. QED
    BY <1>1, <2>3, <2>4, <2>5, <2>6 DEF IInv, Typed
<1>3. CASE \E c \in Clients :
             /\ ghosts[c] # "none"
             /\ rows' = [rows EXCEPT ![c] = ghosts[c]] /\ ghosts' = [ghosts EXCEPT ![c] = "none"]
             /\ UNCHANGED <<dirty, linkRow, linkDirty>>
  <2>1. PICK d \in Clients :
             /\ ghosts[d] # "none"
             /\ rows' = [rows EXCEPT ![d] = ghosts[d]] /\ ghosts' = [ghosts EXCEPT ![d] = "none"]
             /\ UNCHANGED <<dirty, linkRow, linkDirty>>
    BY <1>3
  <2>2. d \notin live
    BY <2>1 DEF IInv, GhostsGone
  <2>3. KnownOnceAnnounced'
    BY <1>0, <1>1, <2>1 DEF KnownOnceAnnounced, NothingOf, TypeOK, history
  <2>4. DirtyKnown' /\ GhostsGone'
    BY <1>0, <2>1 DEF IInv, DirtyKnown, Known, GhostsGone, TypeOK, sockets
  <2>5. Saved'
    BY <1>0, <2>1, <2>2 DEF IInv, Saved, TypeOK, sockets, history
  <2>6. TypeOK'
    BY <1>0, <2>1, FaultsTyped DEF TypeOK, Next, sockets, history
  <2>. QED
    BY <1>1, <2>3, <2>4, <2>5, <2>6 DEF IInv, Typed
<1>4. CASE linkRow' = links /\ linkDirty' = FALSE /\ UNCHANGED <<rows, dirty, ghosts>>
  BY <1>0, <1>1, <1>4 DEF IInv, Typed, TypeOK, KnownOnceAnnounced, NothingOf, DirtyKnown, Known,
                          GhostsGone, Saved, sockets, history
<1>. QED
  BY <1>2, <1>3, <1>4 DEF Save

LEMMA FlushKeeps == IInv /\ (GiveUp \/ Stop \/ ResetEnds) => IInv'
<1>. SUFFICES ASSUME IInv, GiveUp \/ Stop \/ ResetEnds PROVE IInv'
  OBVIOUS
<1>0. Typed /\ TypeOK /\ live \subseteq Clients
  BY DEF IInv, Typed, TypeOK
<1>1. UNCHANGED <<sockets, queue>>
  BY DEF GiveUp, Stop, ResetEnds
<1>2. /\ queue' \in Seq(Events) /\ AnnouncedOnce' /\ DeniesOnlyOlder'
      /\ \A c \in Clients :
            (c \notin used \/ \E i \in DOMAIN queue : Announces(queue[i], c))'
            => NothingOf(c)
  BY <1>1, EventsLeft
<1>3. CASE GiveUp
  BY <1>0, <1>2, <1>3 DEF GiveUp, IInv, Typed, TypeOK, KnownOnceAnnounced, NothingOf, DirtyKnown,
                          Known, GhostsGone, Saved, sockets, states, database, network
<1>4. CASE \E rowLinks \in SUBSET Clients : Flush(rowLinks) /\ (Stop \/ ResetEnds)
  <2>1. PICK rowLinks \in SUBSET Clients : Flush(rowLinks) /\ (Stop \/ ResetEnds)
    BY <1>4
  <2>2. /\ rows' = [c \in Clients |-> IF c \in dirty THEN mem[c] ELSE rows[c]]
        /\ linkRow' = IF linkDirty THEN links ELSE rowLinks
        /\ dirty' = {} /\ linkDirty' = FALSE /\ mode' = "stopping"
    BY <2>1 DEF Flush
  <2>3. UNCHANGED <<sockets, asked, mem, ghosts, links, pending, history>>
    BY <2>1 DEF Stop, ResetEnds
  <2>4. KnownOnceAnnounced'
    <3>1. \A c \in Clients : NothingOf(c) => c \notin dirty
      BY DEF IInv, DirtyKnown, Known, NothingOf
    <3>. QED
      BY <1>2, <2>2, <2>3, <3>1 DEF KnownOnceAnnounced, NothingOf, history
  <2>5. DirtyKnown' /\ GhostsGone'
    BY <2>2, <2>3 DEF IInv, DirtyKnown, GhostsGone, sockets
  <2>6. Saved'
    BY <1>0, <2>2, <2>3 DEF IInv, Saved, sockets, history
  <2>7. TypeOK'
    BY <1>0, <2>2, <2>3, FaultsTyped DEF TypeOK, Next, sockets, history
  <2>. QED
    BY <1>2, <2>4, <2>5, <2>6, <2>7 DEF IInv, Typed
<1>5. Stop => Flush(linkRow) /\ linkRow \in SUBSET Clients
  BY <1>0 DEF Stop, TypeOK
<1>6. ResetEnds => Flush({})
  BY DEF ResetEnds
<1>. QED
  BY <1>3, <1>4, <1>5, <1>6

\* A worker starts, with the events that are left.
LEMMA BootKeeps == IInv /\ (Exit \/ Crash) => IInv'
<1>. SUFFICES ASSUME IInv, Exit \/ Crash PROVE IInv'
  OBVIOUS
<1>0. Typed /\ TypeOK /\ live \subseteq Clients
  BY DEF IInv, Typed, TypeOK
<1>1. /\ UNCHANGED sockets
      /\ queue' = queue \/ (queue # <<>> /\ queue' = Tail(queue))
  BY DEF Exit, Crash, Boot
<1>2. /\ queue' \in Seq(Events) /\ AnnouncedOnce' /\ DeniesOnlyOlder'
      /\ \A c \in Clients :
            (c \notin used \/ \E i \in DOMAIN queue : Announces(queue[i], c))'
            => NothingOf(c)
  BY <1>1, EventsLeft
<1>3. /\ mode' = "up"
      /\ rows' = [c \in Clients |-> IF c \in Authenticated THEN "auth" ELSE "none"]
      /\ mem' = rows' /\ dirty' = {} /\ ghosts' = [c \in Clients |-> "none"]
      /\ links' = linkRow /\ linkDirty' = FALSE
      /\ pending' = Authenticated
      /\ asked' = IF Authenticated = {} THEN asked ELSE asked + 1
      /\ UNCHANGED <<linkRow, wiped, gaveUp>>
  BY DEF Exit, Crash, Boot
<1>4. Authenticated = {c \in Clients : rows[c] = "auth"}
  BY DEF Authenticated
<1>5. sure' \subseteq sure /\ sure' \intersect live \subseteq Authenticated
  <2>1. CASE Exit
    BY <1>0, <1>4, <2>1 DEF Exit, IInv, Saved
  <2>2. CASE Crash
    BY <2>2 DEF Crash
  <2>. QED
    BY <2>1, <2>2
<1>6. KnownOnceAnnounced'
  BY <1>2, <1>3, <1>4, <1>5 DEF KnownOnceAnnounced, NothingOf
<1>7. DirtyKnown' /\ GhostsGone'
  BY <1>0, <1>1, <1>3 DEF DirtyKnown, GhostsGone, sockets
<1>8. Saved'
  BY <1>0, <1>1, <1>3, <1>5 DEF Saved, sockets
<1>9. TypeOK'
  <2>1. Authenticated \subseteq Clients
    BY <1>4
  <2>2. rows' \in [Clients -> States \union {"none"}]
    BY <1>3 DEF States
  <2>3. ghosts' \in [Clients -> States \union {"none"}]
    BY <1>3
  <2>4. asked' \in Nat
    BY <1>0, <1>3 DEF TypeOK
  <2>5. faults' \in 0..MaxFaults
    BY <1>0, StatesAssumption DEF TypeOK, Exit, Crash
  <2>6. sure' \subseteq Clients
    BY <1>0, <1>5 DEF TypeOK
  <2>7. {mem', ghosts', rows'} \subseteq [Clients -> States \union {"none"}]
    BY <1>3, <2>2, <2>3
  <2>8. /\ mode' \in {"up", "wiping", "stopping"} /\ dirty' \subseteq Clients
        /\ pending' \subseteq Clients
        /\ links' \subseteq Clients /\ linkRow' \subseteq Clients /\ linkDirty' \in BOOLEAN
        /\ wiped' \subseteq Clients /\ gaveUp' \in BOOLEAN
    BY <1>0, <1>3, <2>1 DEF TypeOK
  <2>. QED
    BY <1>0, <1>1, <2>4, <2>5, <2>6, <2>7, <2>8 DEF TypeOK, sockets
<1>. QED
  BY <1>2, <1>6, <1>7, <1>8, <1>9 DEF IInv, Typed

----------------------------------------------------------------------------
(* The theorems.                                                           *)

LEMMA InitIInv == Init => IInv
<1>. SUFFICES ASSUME Init PROVE IInv
  OBVIOUS
<1>1. queue \in Seq(Events) /\ DOMAIN queue = {}
  BY DEF Init
<1>2. {mem, ghosts, rows} \subseteq [Clients -> States \union {"none"}]
  BY DEF Init
<1>3. faults \in 0..MaxFaults
  BY StatesAssumption DEF Init
<1>4. TypeOK
  BY <1>2, <1>3 DEF Init, TypeOK
<1>. QED
  BY <1>1, <1>4 DEF Init, IInv, Typed, KnownOnceAnnounced, NothingOf, AnnouncedOnce,
                    DeniesOnlyOlder, DirtyKnown, GhostsGone, Saved

LEMMA NextIInv == IInv /\ [Next]_vars => IInv'
<1>. SUFFICES ASSUME IInv, [Next]_vars PROVE IInv'
  OBVIOUS
<1>1. CASE UNCHANGED vars
  <2>1. UNCHANGED <<sockets, queue>> /\ UNCHANGED <<mode, states, database, sure>>
    BY <1>1 DEF vars, history
  <2>2. /\ queue' \in Seq(Events) /\ AnnouncedOnce' /\ DeniesOnlyOlder'
        /\ \A c \in Clients :
              (c \notin used \/ \E i \in DOMAIN queue : Announces(queue[i], c))'
              => NothingOf(c)
    BY <2>1, EventsLeft
  <2>3. KnownOnceAnnounced' /\ DirtyKnown' /\ GhostsGone' /\ Saved'
    BY <2>1, <2>2, NothingLearnt DEF sockets
  <2>4. TypeOK'
    BY <1>1 DEF IInv, Typed, TypeOK, vars, sockets, states, database, network, history
  <2>. QED
    BY <2>2, <2>3, <2>4 DEF IInv, Typed
<1>. QED
  BY <1>1, SocketsKeeps, ReportsKeeps, HandleKeeps, SaveKeeps, FlushKeeps, BootKeeps DEF Next

THEOREM Invariance == Spec => []IInv
<1>. QED
  BY InitIInv, NextIInv, PTL DEF Spec

\* The types of the variables.
THEOREM TypeCorrect == Spec => []TypeOK
<1>1. IInv => TypeOK
  BY DEF IInv, Typed
<1>. QED
  BY <1>1, Invariance, PTL

\* A client whose authentication a later worker must know of is known for as long as its
\* socket is open, through crashes, stops, restarts of the sockets layer and answers of any age
\* (worker.js: loadConnections(), reconcileIncomingConnections(), prepareShutdown(), reset).
THEOREM AuthenticatedStayKnown == Spec => []KnownWhileLive
<1>1. IInv => KnownWhileLive
  BY DEF IInv, Saved, KnownWhileLive
<1>. QED
  BY <1>1, Invariance, PTL

\* No event, and no fail-safe, makes a running worker forget a connection whose socket is open.
THEOREM LiveAreNeverForgotten == Spec => NeverForgetsLive
<1>1. IInv /\ [Next]_vars
      => [Handle \/ GiveUp => \A c \in live : Known(c) => Known(c)']_vars
  <2>. SUFFICES ASSUME IInv, Handle \/ GiveUp, NEW c \in live, Known(c)
                PROVE  Known(c)'
    OBVIOUS
  <2>1. CASE GiveUp
    BY <2>1 DEF GiveUp, states, Known
  <2>. QED
    BY <2>1, HandleKeeps
<1>. QED
  BY <1>1, Invariance, PTL DEF Spec, NeverForgetsLive

=============================================================================
