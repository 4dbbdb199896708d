------------------------- MODULE UpstreamLinkProofs -------------------------
(***************************************************************************)
(* Proofs about UpstreamLink for any number of sockets and events: one     *)
(* network never has two connections, and a connection that is left alone  *)
(* is not taken for registered before it is.                               *)
(***************************************************************************)
EXTENDS UpstreamLink, SequenceTheorems, TLAPS

Requests == {"open", "close", "register", "join"}
Reports == {"open", "existing", "close", "welcome"}

-----------------------------------------------------------------------------
(* What lines on their way have in common with others on their way.        *)

OnItsWay(msg, queue) == \E i \in 1..Len(queue) : queue[i] = msg

Once(msg, queue) ==
    \A i, j \in 1..Len(queue) : queue[i] = msg /\ queue[j] = msg => i = j

\* There is no `other` behind a `msg`.
NoneBehind(msg, other, queue) ==
    \A i, j \in 1..Len(queue) : i < j /\ queue[i] = msg => queue[j] # other

\* There is an `other` behind each `msg`.
Followed(msg, other, queue) ==
    \A i \in 1..Len(queue) :
        queue[i] = msg => \E k \in 1..Len(queue) : k > i /\ queue[k] = other

\* There is a registration between a request to open and one to close behind it.
Separated(queue) ==
    \A i, j \in 1..Len(queue) :
        i < j /\ queue[i] = "open" /\ queue[j] = "close" =>
            \E k \in 1..Len(queue) : i < k /\ k < j /\ queue[k] = "register"

\* An "existing" tells nothing new to who is told before it, or believes already.
Confirms(queue, believes) ==
    \A i \in 1..Len(queue) :
        queue[i] = "existing" =>
            \/ \E j \in 1..Len(queue) : j < i /\ queue[j] = "open"
            \/ believes /\ \A j \in 1..Len(queue) : j < i => queue[j] # "close"

-----------------------------------------------------------------------------
(* The invariant.                                                          *)

Typed ==
    /\ TypeOK
    /\ ended \subseteq {s \in Socks : sock[s] # "unused"}
    /\ cons # 0 => sock[cons] # "unused"

\* The sockets that wait, connect or are open.
Inside == {s \in Socks : sock[s] \in {"waiting", "connecting", "open"}}

\* A socket has a turn to come while it waits, and is disposed of when it is gone.
TurnsFollow ==
    ~repeated => /\ \A s \in Socks : turns[s] = IF sock[s] = "waiting" THEN 1 ELSE 0
                 /\ disposed = {s \in Socks : sock[s] \in {"gone", "failed"}}

\* Without commands no socket is ended, and the layer finds the only one there is.
Commandless ==
    "command" \notin happened =>
        /\ ~OnItsWay("close", toSockets) /\ ended = {}
        /\ ~repeated => Inside = IF cons = 0 THEN {} ELSE {cons}

\* The user's commands, to a worker that lives, over connections that get registered.
Undisturbed == ~repeated /\ happened \intersect {"abort", "crash", "stop"} = {}

\* One socket at most, which is the one to be found unless it was ended.
OneInside ==
    Undisturbed =>
        /\ buffered = {}
        /\ \A s \in Socks : sock[s] = "connecting" => ircd[s] = "new"
        /\ cons # 0 => Inside = {cons} /\ cons \notin ended
        /\ cons = 0 => Inside \subseteq ended /\ \A r, s \in Inside : r = s

\* A connection whose registration is to come stays until it gets it.
RegistersNext ==
    Undisturbed /\ (OnItsWay("open", toWorker) \/ OnItsWay("register", toSockets)) =>
        /\ cons # 0 /\ sock[cons] = "open" /\ ircd[cons] = "new"
        /\ ~(OnItsWay("open", toWorker) /\ OnItsWay("register", toSockets))
        /\ Once("open", toWorker) /\ Once("register", toSockets)
        /\ NoneBehind("open", "close", toWorker)

\* What the worker believes of the connection, or will when it has read what is on its way.
BelievesConnected ==
    Undisturbed =>
        /\ state["connected"] =>
              /\ ~state["reconnecting"] /\ ~OnItsWay("open", toWorker)
              /\ cons # 0 => sock[cons] = "open"
              /\ Followed("open", "register", toSockets)
        /\ cons # 0 /\ sock[cons] = "open" =>
              OnItsWay("open", toWorker) \/ (state["connected"] /\ ~OnItsWay("close", toWorker))
        /\ Confirms(toWorker, state["connected"])

\* A request to close meets the connection it was made for, or none.
ClosesTheRightOne ==
    Undisturbed =>
        /\ Separated(toSockets)
        /\ OnItsWay("close", toSockets) /\ cons # 0 =>
              /\ sock[cons] = "open" /\ state["connected"]
              /\ ~OnItsWay("close", toWorker) /\ ~OnItsWay("open", toWorker)
              /\ NoneBehind("close", "open", toSockets)
              /\ NoneBehind("close", "register", toSockets)
        /\ Inside \intersect ended # {} =>
              /\ \A s \in Inside : sock[s] = "open"
              /\ cons = 0 /\ state["connected"] /\ ~OnItsWay("open", toSockets)
              /\ ~OnItsWay("close", toWorker) /\ ~OnItsWay("open", toWorker)

LeftAlone == happened \subseteq {"drop", "abort", "fail"}

\* One attempt at a time: a request, a socket, its close or a timer.
OneAttempt ==
    LeftAlone =>
        /\ ~repeated /\ ~OnItsWay("existing", toWorker) /\ timers \in {0, 1}
        /\ Once("open", toSockets) /\ Once("close", toWorker)
        /\ OnItsWay("open", toSockets) => timers = 0 /\ cons = 0 /\ ~OnItsWay("close", toWorker)
        /\ OnItsWay("close", toWorker) => timers = 0 /\ cons = 0
        /\ timers # 0 => cons = 0

Registered == cons # 0 /\ sock[cons] = "open" /\ ircd[cons] \in {"registered", "joined"}

\* The worker takes a connection for registered when it is, or when its close is on its way.
RegisteredOrClosed ==
    LeftAlone =>
        /\ state["connected"] => ~state["reconnecting"]
        /\ state["connected"] /\ state["netRegistered"] =>
              Registered \/ OnItsWay("close", toWorker)
        /\ Registered \/ Followed("welcome", "close", toWorker)

IInv ==
    /\ Typed /\ TurnsFollow /\ Commandless
    /\ OneInside /\ RegistersNext /\ BelievesConnected /\ ClosesTheRightOne
    /\ OneAttempt /\ RegisteredOrClosed

-----------------------------------------------------------------------------
(* Lemmas about queues that are read at one end and written at the other.  *)

\* What is left of a queue whose head is read.
LEMMA Read ==
    ASSUME NEW S, NEW q \in Seq(S), q # <<>>
    PROVE  /\ Tail(q) \in Seq(S) /\ Len(Tail(q)) \in Nat /\ Len(q) = Len(Tail(q)) + 1
           /\ \A i \in 1..Len(Tail(q)) : Tail(q)[i] = q[i + 1]
           /\ q[1] = Head(q) /\ Head(q) \in S
<1>1. Len(q) \in Nat /\ Len(q) # 0
  BY EmptySeq, LenProperties
<1>2. QED
  BY <1>1, HeadTailProperties, LenProperties

\* A queue that a line is written to.
LEMMA Write ==
    ASSUME NEW S, NEW q \in Seq(S), NEW e \in S
    PROVE  /\ Append(q, e) \in Seq(S) /\ Len(q) \in Nat /\ Len(Append(q, e)) = Len(q) + 1
           /\ \A i \in 1..Len(q) : Append(q, e)[i] = q[i]
           /\ Append(q, e)[Len(q) + 1] = e
BY AppendProperties, LenProperties

\* An empty queue has nothing in it.
LEMMA NothingOnItsWay ==
    ASSUME NEW m
    PROVE  ~OnItsWay(m, <<>>)
<1>1. Len(<<>>) = 0
  BY EmptySeq
<1>2. QED
  BY <1>1 DEF OnItsWay

\* What is on its way is the head or behind it.
LEMMA OnItsWayRead ==
    ASSUME NEW S, NEW q \in Seq(S), q # <<>>, NEW m
    PROVE  OnItsWay(m, q) <=> Head(q) = m \/ OnItsWay(m, Tail(q))
<1> DEFINE t == Tail(q)
<1>1. /\ Len(t) \in Nat /\ Len(q) = Len(t) + 1
      /\ \A i \in 1..Len(t) : t[i] = q[i + 1]
      /\ q[1] = Head(q)
  BY Read
<1> HIDE DEF t
<1>2. ASSUME NEW i \in 1..Len(q), q[i] = m
      PROVE  Head(q) = m \/ OnItsWay(m, t)
  <2>1. CASE i = 1
    BY <1>1, <1>2, <2>1
  <2>2. CASE i # 1
    <3>1. i - 1 \in 1..Len(t) /\ (i - 1) + 1 = i
      BY <1>1, <2>2
    <3>2. t[i - 1] = m
      BY <1>1, <1>2, <3>1
    <3>3. QED
      BY <3>1, <3>2 DEF OnItsWay
  <2>3. QED
    BY <2>1, <2>2
<1>3. ASSUME NEW i \in 1..Len(t), t[i] = m
      PROVE  OnItsWay(m, q)
  <2>1. i + 1 \in 1..Len(q) /\ q[i + 1] = m
    BY <1>1, <1>3
  <2>2. QED
    BY <2>1 DEF OnItsWay
<1>4. Head(q) = m => OnItsWay(m, q)
  <2>1. 1 \in 1..Len(q)
    BY <1>1
  <2>2. QED
    BY <1>1, <2>1 DEF OnItsWay
<1>5. QED
  BY <1>2, <1>3, <1>4 DEF OnItsWay, t

\* What is on its way after a line was written.
LEMMA OnItsWayWritten ==
    ASSUME NEW S, NEW q \in Seq(S), NEW e \in S, NEW m
    PROVE  OnItsWay(m, Append(q, e)) <=> OnItsWay(m, q) \/ m = e
<1> DEFINE r == Append(q, e)
           n == Len(q)
<1>1. /\ n \in Nat /\ Len(r) = n + 1
      /\ \A i \in 1..n : r[i] = q[i]
      /\ r[n + 1] = e
  BY Write
<1> HIDE DEF r
<1>2. ASSUME NEW i \in 1..Len(r), r[i] = m
      PROVE  OnItsWay(m, q) \/ m = e
  <2>1. CASE i = n + 1
    BY <1>1, <1>2, <2>1
  <2>2. CASE i # n + 1
    <3>1. i \in 1..n
      BY <1>1, <2>2
    <3>2. q[i] = m
      BY <1>1, <1>2, <3>1
    <3>3. QED
      BY <3>1, <3>2 DEF OnItsWay
  <2>3. QED
    BY <2>1, <2>2
<1>3. ASSUME NEW i \in 1..n, q[i] = m
      PROVE  OnItsWay(m, r)
  <2>1. i \in 1..Len(r) /\ r[i] = m
    BY <1>1, <1>3
  <2>2. QED
    BY <2>1 DEF OnItsWay
<1>4. m = e => OnItsWay(m, r)
  <2>1. n + 1 \in 1..Len(r)
    BY <1>1
  <2>2. QED
    BY <1>1, <2>1 DEF OnItsWay
<1>5. QED
  BY <1>2, <1>3, <1>4 DEF OnItsWay, r

\* What is there once is gone when it is read.
LEMMA OnceRead ==
    ASSUME NEW S, NEW q \in Seq(S), q # <<>>, NEW m, Once(m, q)
    PROVE  /\ Once(m, Tail(q))
           /\ Head(q) = m => ~OnItsWay(m, Tail(q))
<1> DEFINE t == Tail(q)
<1>1. /\ Len(t) \in Nat /\ Len(q) = Len(t) + 1
      /\ \A i \in 1..Len(t) : t[i] = q[i + 1]
      /\ q[1] = Head(q)
  BY Read
<1> HIDE DEF t
<1>2. ASSUME NEW i \in 1..Len(t), NEW j \in 1..Len(t), t[i] = m, t[j] = m
      PROVE  i = j
  <2>1. /\ i + 1 \in 1..Len(q) /\ j + 1 \in 1..Len(q)
        /\ q[i + 1] = m /\ q[j + 1] = m
    BY <1>1, <1>2
  <2>2. i + 1 = j + 1
    BY <2>1 DEF Once
  <2>3. QED
    BY <2>2
<1>3. ASSUME NEW i \in 1..Len(t), t[i] = m, Head(q) = m
      PROVE  FALSE
  <2>1. 1 \in 1..Len(q) /\ i + 1 \in 1..Len(q) /\ q[i + 1] = m
    BY <1>1, <1>3
  <2>2. i + 1 = 1
    BY <1>1, <1>3, <2>1 DEF Once
  <2>3. QED
    BY <2>2
<1>4. QED
  BY <1>2, <1>3 DEF Once, OnItsWay, t

\* A line that is not there yet is there once.
LEMMA OnceWritten ==
    ASSUME NEW S, NEW q \in Seq(S), NEW e \in S, NEW m,
           Once(m, q), m = e => ~OnItsWay(m, q)
    PROVE  Once(m, Append(q, e))
<1> DEFINE r == Append(q, e)
           n == Len(q)
<1>1. /\ n \in Nat /\ Len(r) = n + 1
      /\ \A i \in 1..n : r[i] = q[i]
      /\ r[n + 1] = e
  BY Write
<1> HIDE DEF r
<1> SUFFICES ASSUME NEW i \in 1..Len(r), NEW j \in 1..Len(r), r[i] = m, r[j] = m
             PROVE  i = j
  BY DEF Once, r
<1>2. CASE m = e
  <2>1. \A k \in 1..n : q[k] # m
    BY <1>2 DEF OnItsWay
  <2>2. ~(i \in 1..n) /\ ~(j \in 1..n)
    BY <1>1, <2>1
  <2>3. QED
    BY <1>1, <2>2
<1>3. CASE m # e
  <2>1. i # n + 1 /\ j # n + 1
    BY <1>1, <1>3
  <2>2. i \in 1..n /\ j \in 1..n
    BY <1>1, <2>1
  <2>3. q[i] = m /\ q[j] = m
    BY <1>1, <2>2
  <2>4. QED
    BY <2>2, <2>3 DEF Once
<1>4. QED
  BY <1>2, <1>3

\* What is not there is not there twice.
LEMMA OnceAbsent ==
    ASSUME NEW m, NEW q, ~OnItsWay(m, q)
    PROVE  Once(m, q)
BY DEF Once, OnItsWay

\* Reading puts nothing behind a line.
LEMMA NoneBehindRead ==
    ASSUME NEW S, NEW q \in Seq(S), q # <<>>, NEW m, NEW o, NoneBehind(m, o, q)
    PROVE  /\ NoneBehind(m, o, Tail(q))
           /\ Head(q) = m => ~OnItsWay(o, Tail(q))
<1> DEFINE t == Tail(q)
<1>1. /\ Len(t) \in Nat /\ Len(q) = Len(t) + 1
      /\ \A i \in 1..Len(t) : t[i] = q[i + 1]
      /\ q[1] = Head(q)
  BY Read
<1> HIDE DEF t
<1>2. ASSUME NEW i \in 1..Len(t), NEW j \in 1..Len(t), i < j, t[i] = m, t[j] = o
      PROVE  FALSE
  <2>1. /\ i + 1 \in 1..Len(q) /\ j + 1 \in 1..Len(q) /\ i + 1 < j + 1
        /\ q[i + 1] = m /\ q[j + 1] = o
    BY <1>1, <1>2
  <2>2. QED
    BY <2>1 DEF NoneBehind
<1>3. ASSUME NEW i \in 1..Len(t), t[i] = o, Head(q) = m
      PROVE  FALSE
  <2>1. 1 \in 1..Len(q) /\ i + 1 \in 1..Len(q) /\ 1 < i + 1 /\ q[i + 1] = o
    BY <1>1, <1>3
  <2>2. QED
    BY <1>1, <1>3, <2>1 DEF NoneBehind
<1>4. QED
  BY <1>2, <1>3 DEF NoneBehind, OnItsWay, t

\* A line that is written comes behind all others.
LEMMA NoneBehindWritten ==
    ASSUME NEW S, NEW q \in Seq(S), NEW e \in S, NEW m, NEW o,
           NoneBehind(m, o, q), o = e => ~OnItsWay(m, q)
    PROVE  NoneBehind(m, o, Append(q, e))
<1> DEFINE r == Append(q, e)
           n == Len(q)
<1>1. /\ n \in Nat /\ Len(r) = n + 1
      /\ \A i \in 1..n : r[i] = q[i]
      /\ r[n + 1] = e
  BY Write
<1> HIDE DEF r
<1> SUFFICES ASSUME NEW i \in 1..Len(r), NEW j \in 1..Len(r), i < j, r[i] = m, r[j] = o
             PROVE  FALSE
  BY DEF NoneBehind, r
<1>2. i \in 1..n
  BY <1>1
<1>3. q[i] = m
  BY <1>1, <1>2
<1>4. CASE j = n + 1
  BY <1>1, <1>2, <1>3, <1>4 DEF OnItsWay
<1>5. CASE j # n + 1
  <2>1. j \in 1..n
    BY <1>1, <1>5
  <2>2. q[j] = o
    BY <1>1, <2>1
  <2>3. QED
    BY <1>2, <1>3, <2>1, <2>2 DEF NoneBehind
<1>6. QED
  BY <1>4, <1>5

\* There is nothing behind a line that is not there.
LEMMA NoneBehindAbsent ==
    ASSUME NEW m, NEW o, NEW q, ~OnItsWay(m, q)
    PROVE  NoneBehind(m, o, q)
BY DEF NoneBehind, OnItsWay

\* A line that is read has its follower left.
LEMMA FollowedRead ==
    ASSUME NEW S, NEW q \in Seq(S), q # <<>>, NEW m, NEW o, Followed(m, o, q)
    PROVE  /\ Followed(m, o, Tail(q))
           /\ Head(q) = m => OnItsWay(o, Tail(q))
<1> DEFINE t == Tail(q)
<1>1. /\ Len(t) \in Nat /\ Len(q) = Len(t) + 1
      /\ \A i \in 1..Len(t) : t[i] = q[i + 1]
      /\ q[1] = Head(q)
  BY Read
<1> HIDE DEF t
<1>2. ASSUME NEW k \in 1..Len(q), k # 1, q[k] = o
      PROVE  k - 1 \in 1..Len(t) /\ t[k - 1] = o
  <2>1. k - 1 \in 1..Len(t) /\ (k - 1) + 1 = k
    BY <1>1, <1>2
  <2>2. QED
    BY <1>1, <1>2, <2>1
<1>3. ASSUME NEW i \in 1..Len(t), t[i] = m
      PROVE  \E k \in 1..Len(t) : k > i /\ t[k] = o
  <2>1. i + 1 \in 1..Len(q) /\ q[i + 1] = m
    BY <1>1, <1>3
  <2>2. PICK k \in 1..Len(q) : k > i + 1 /\ q[k] = o
    BY <2>1 DEF Followed
  <2>3. k # 1
    BY <2>2
  <2>4. k - 1 \in 1..Len(t) /\ t[k - 1] = o
    BY <1>2, <2>2, <2>3
  <2>5. k - 1 > i
    BY <2>2
  <2>6. QED
    BY <2>4, <2>5
<1>4. ASSUME Head(q) = m
      PROVE  OnItsWay(o, t)
  <2>1. 1 \in 1..Len(q)
    BY <1>1
  <2>2. PICK k \in 1..Len(q) : k > 1 /\ q[k] = o
    BY <1>1, <1>4, <2>1 DEF Followed
  <2>3. k - 1 \in 1..Len(t) /\ t[k - 1] = o
    BY <1>2, <2>2
  <2>4. QED
    BY <2>3 DEF OnItsWay
<1>5. QED
  BY <1>3, <1>4 DEF Followed, t

\* The follower that is written last follows all.
LEMMA FollowedWritten ==
    ASSUME NEW S, NEW q \in Seq(S), NEW e \in S, NEW m, NEW o, m # e,
           Followed(m, o, q) \/ o = e
    PROVE  Followed(m, o, Append(q, e))
<1> DEFINE r == Append(q, e)
           n == Len(q)
<1>1. /\ n \in Nat /\ Len(r) = n + 1
      /\ \A i \in 1..n : r[i] = q[i]
      /\ r[n + 1] = e
  BY Write
<1> HIDE DEF r
<1> SUFFICES ASSUME NEW i \in 1..Len(r), r[i] = m
             PROVE  \E k \in 1..Len(r) : k > i /\ r[k] = o
  BY DEF Followed, r
<1>2. i # n + 1
  BY <1>1
<1>3. i \in 1..n
  BY <1>1, <1>2
<1>4. CASE o = e
  <2>1. n + 1 \in 1..Len(r) /\ n + 1 > i /\ r[n + 1] = o
    BY <1>1, <1>3, <1>4
  <2>2. QED
    BY <2>1
<1>5. CASE Followed(m, o, q)
  <2>1. q[i] = m
    BY <1>1, <1>3
  <2>2. PICK k \in 1..n : k > i /\ q[k] = o
    BY <1>3, <1>5, <2>1 DEF Followed
  <2>3. k \in 1..Len(r) /\ r[k] = o
    BY <1>1, <2>2
  <2>4. QED
    BY <2>2, <2>3
<1>6. QED
  BY <1>4, <1>5

\* A line that is not there needs no follower.
LEMMA FollowedAbsent ==
    ASSUME NEW m, NEW o, NEW q, ~OnItsWay(m, q)
    PROVE  Followed(m, o, q)
BY DEF Followed, OnItsWay

\* When the request to open is read, the registration before a close is left.
LEMMA SeparatedRead ==
    ASSUME NEW S, NEW q \in Seq(S), q # <<>>, Separated(q)
    PROVE  /\ Separated(Tail(q))
           /\ Head(q) = "open" /\ OnItsWay("close", Tail(q)) => OnItsWay("register", Tail(q))
<1> DEFINE t == Tail(q)
<1>1. /\ Len(t) \in Nat /\ Len(q) = Len(t) + 1
      /\ \A i \in 1..Len(t) : t[i] = q[i + 1]
      /\ q[1] = Head(q)
  BY Read
<1> HIDE DEF t
<1>2. ASSUME NEW k \in 1..Len(q), k # 1
      PROVE  k - 1 \in 1..Len(t) /\ t[k - 1] = q[k]
  <2>1. k - 1 \in 1..Len(t) /\ (k - 1) + 1 = k
    BY <1>1, <1>2
  <2>2. QED
    BY <1>1, <2>1
<1>3. ASSUME NEW i \in 1..Len(t), NEW j \in 1..Len(t), i < j, t[i] = "open", t[j] = "close"
      PROVE  \E k \in 1..Len(t) : i < k /\ k < j /\ t[k] = "register"
  <2>1. /\ i + 1 \in 1..Len(q) /\ j + 1 \in 1..Len(q) /\ i + 1 < j + 1
        /\ q[i + 1] = "open" /\ q[j + 1] = "close"
    BY <1>1, <1>3
  <2>2. PICK k \in 1..Len(q) : i + 1 < k /\ k < j + 1 /\ q[k] = "register"
    BY <2>1 DEF Separated
  <2>3. k # 1
    BY <2>2
  <2>4. k - 1 \in 1..Len(t) /\ t[k - 1] = "register"
    BY <1>2, <2>2, <2>3
  <2>5. i < k - 1 /\ k - 1 < j
    BY <2>2
  <2>6. QED
    BY <2>4, <2>5
<1>4. ASSUME NEW j \in 1..Len(t), t[j] = "close", Head(q) = "open"
      PROVE  OnItsWay("register", t)
  <2>1. 1 \in 1..Len(q) /\ j + 1 \in 1..Len(q) /\ 1 < j + 1 /\ q[j + 1] = "close"
    BY <1>1, <1>4
  <2>2. PICK k \in 1..Len(q) : 1 < k /\ k < j + 1 /\ q[k] = "register"
    BY <1>1, <1>4, <2>1 DEF Separated
  <2>3. k - 1 \in 1..Len(t) /\ t[k - 1] = "register"
    BY <1>2, <2>2
  <2>4. QED
    BY <2>3 DEF OnItsWay
<1>5. QED
  BY <1>3, <1>4 DEF Separated, OnItsWay, t

\* A close is written once each request to open has its registration behind it.
LEMMA SeparatedWritten ==
    ASSUME NEW S, NEW q \in Seq(S), NEW e \in S, Separated(q),
           e = "close" => Followed("open", "register", q)
    PROVE  Separated(Append(q, e))
<1> DEFINE r == Append(q, e)
           n == Len(q)
<1>1. /\ n \in Nat /\ Len(r) = n + 1
      /\ \A i \in 1..n : r[i] = q[i]
      /\ r[n + 1] = e
  BY Write
<1> HIDE DEF r
<1> SUFFICES ASSUME NEW i \in 1..Len(r), NEW j \in 1..Len(r), i < j, r[i] = "open", r[j] = "close"
             PROVE  \E k \in 1..Len(r) : i < k /\ k < j /\ r[k] = "register"
  BY DEF Separated, r
<1>2. i \in 1..n
  BY <1>1
<1>3. q[i] = "open"
  BY <1>1, <1>2
<1>4. ASSUME NEW k \in 1..n, q[k] = "register"
      PROVE  k \in 1..Len(r) /\ r[k] = "register"
  BY <1>1, <1>4
<1>5. CASE j = n + 1
  <2>1. Followed("open", "register", q)
    BY <1>1, <1>5
  <2>2. PICK k \in 1..n : k > i /\ q[k] = "register"
    BY <1>2, <1>3, <2>1 DEF Followed
  <2>3. i < k /\ k < j
    BY <1>1, <1>5, <2>2
  <2>4. QED
    BY <1>4, <2>2, <2>3
<1>6. CASE j # n + 1
  <2>1. j \in 1..n
    BY <1>1, <1>6
  <2>2. q[j] = "close"
    BY <1>1, <2>1
  <2>3. PICK k \in 1..n : i < k /\ k < j /\ q[k] = "register"
    BY <1>2, <1>3, <2>1, <2>2 DEF Separated
  <2>4. QED
    BY <1>4, <2>3
<1>7. QED
  BY <1>5, <1>6

\* Who reads a line believes what it says.
LEMMA ConfirmsRead ==
    ASSUME NEW S, NEW q \in Seq(S), q # <<>>, NEW b \in BOOLEAN, Confirms(q, b)
    PROVE  /\ Head(q) = "existing" => b
           /\ Head(q) = "open" /\ ~OnItsWay("close", Tail(q)) => Confirms(Tail(q), TRUE)
           /\ Head(q) = "close" => Confirms(Tail(q), FALSE)
           /\ Head(q) \notin {"open", "close"} => Confirms(Tail(q), b)
<1> DEFINE t == Tail(q)
<1>1. /\ Len(t) \in Nat /\ Len(q) = Len(t) + 1
      /\ \A i \in 1..Len(t) : t[i] = q[i + 1]
      /\ q[1] = Head(q)
  BY Read
<1> HIDE DEF t
<1>2. 1 \in 1..Len(q)
  BY <1>1
<1>3. Head(q) = "existing" => b
  <2>1. \A j \in 1..Len(q) : ~(j < 1)
    BY <1>1
  <2>2. QED
    BY <1>1, <1>2, <2>1 DEF Confirms
<1>4. Head(q) = "open" /\ ~OnItsWay("close", t) => Confirms(t, TRUE)
  BY DEF Confirms, OnItsWay
<1>5. ASSUME Head(q) # "open", NEW i \in 1..Len(t), t[i] = "existing"
      PROVE  \/ \E j \in 1..Len(t) : j < i /\ t[j] = "open"
             \/ /\ b /\ Head(q) # "close"
                /\ \A j \in 1..Len(t) : j < i => t[j] # "close"
  <2>1. i + 1 \in 1..Len(q) /\ q[i + 1] = "existing"
    BY <1>1, <1>5
  <2>2. CASE \E j \in 1..Len(q) : j < i + 1 /\ q[j] = "open"
    <3>1. PICK j \in 1..Len(q) : j < i + 1 /\ q[j] = "open"
      BY <2>2
    <3>2. j # 1
      BY <1>1, <1>5, <3>1
    <3>3. j - 1 \in 1..Len(t) /\ (j - 1) + 1 = j /\ j - 1 < i
      BY <1>1, <3>1, <3>2
    <3>4. t[j - 1] = "open"
      BY <1>1, <3>1, <3>3
    <3>5. QED
      BY <3>3, <3>4
  <2>3. CASE b /\ \A j \in 1..Len(q) : j < i + 1 => q[j] # "close"
    <3>1. Head(q) # "close"
      <4>1. 1 < i + 1
        OBVIOUS
      <4>2. QED
        BY <1>1, <1>2, <2>3, <4>1
    <3>2. ASSUME NEW j \in 1..Len(t), j < i
          PROVE  t[j] # "close"
      <4>1. j + 1 \in 1..Len(q) /\ j + 1 < i + 1
        BY <1>1, <3>2
      <4>2. QED
        BY <1>1, <2>3, <4>1
    <3>3. QED
      BY <2>3, <3>1, <3>2
  <2>4. QED
    BY <2>1, <2>2, <2>3 DEF Confirms
<1>6. Head(q) = "close" => Confirms(t, FALSE)
  BY <1>5 DEF Confirms
<1>7. Head(q) \notin {"open", "close"} => Confirms(t, b)
  BY <1>5 DEF Confirms
<1>8. QED
  BY <1>3, <1>4, <1>6, <1>7 DEF t

\* An "existing" confirms what was told before it.
LEMMA ConfirmsWritten ==
    ASSUME NEW S, NEW q \in Seq(S), NEW e \in S, NEW b \in BOOLEAN, Confirms(q, b),
           e = "existing" => OnItsWay("open", q) \/ (b /\ ~OnItsWay("close", q))
    PROVE  Confirms(Append(q, e), b)
<1> DEFINE r == Append(q, e)
           n == Len(q)
<1>1. /\ n \in Nat /\ Len(r) = n + 1
      /\ \A i \in 1..n : r[i] = q[i]
      /\ r[n + 1] = e
  BY Write
<1> HIDE DEF r
<1> SUFFICES ASSUME NEW i \in 1..Len(r), r[i] = "existing"
             PROVE  \/ \E j \in 1..Len(r) : j < i /\ r[j] = "open"
                    \/ b /\ \A j \in 1..Len(r) : j < i => r[j] # "close"
  BY DEF Confirms, r
<1>2. ASSUME NEW j \in 1..n, j < i, q[j] = "open"
      PROVE  \E k \in 1..Len(r) : k < i /\ r[k] = "open"
  <2>1. j \in 1..Len(r) /\ r[j] = "open"
    BY <1>1, <1>2
  <2>2. QED
    BY <1>2, <2>1
<1>3. ASSUME \A j \in 1..n : j < i => q[j] # "close", NEW j \in 1..Len(r), j < i
      PROVE  r[j] # "close"
  <2>1. j \in 1..n
    BY <1>1, <1>3
  <2>2. QED
    BY <1>1, <1>3, <2>1
<1>4. CASE i = n + 1
  <2>1. e = "existing"
    BY <1>1, <1>4
  <2>2. CASE OnItsWay("open", q)
    <3>1. PICK j \in 1..n : q[j] = "open"
      BY <2>2 DEF OnItsWay
    <3>2. j < i
      BY <1>1, <1>4
    <3>3. QED
      BY <1>2, <3>1, <3>2
  <2>3. CASE b /\ ~OnItsWay("close", q)
    <3>1. \A j \in 1..n : j < i => q[j] # "close"
      BY <2>3 DEF OnItsWay
    <3>2. QED
      BY <1>3, <2>3, <3>1
  <2>4. QED
    BY <2>1, <2>2, <2>3
<1>5. CASE i # n + 1
  <2>1. i \in 1..n
    BY <1>1, <1>5
  <2>2. q[i] = "existing"
    BY <1>1, <2>1
  <2>3. \/ \E j \in 1..n : j < i /\ q[j] = "open"
        \/ b /\ \A j \in 1..n : j < i => q[j] # "close"
    BY <2>1, <2>2 DEF Confirms
  <2>4. QED
    BY <1>2, <1>3, <2>3
<1>6. QED
  BY <1>4, <1>5

-----------------------------------------------------------------------------
(* Types.                                                                  *)

\* What the worker does with the line it reads.
LEMMA Handled ==
    ASSUME Typed, WorkerHandles
    PROVE  /\ toWorker # <<>> /\ toWorker' = Tail(toWorker)
           /\ \/ Head(toWorker) = "open" /\ OnOpen
              \/ Head(toWorker) = "existing" /\ OnExisting
              \/ Head(toWorker) = "close" /\ OnClose
              \/ Head(toWorker) = "welcome" /\ OnWelcome
           /\ UNCHANGED <<row, sock, cons, turns, repeated, disposed, buffered, ended, ircd,
                          events, happened>>
<1>1. toWorker # <<>> /\ toWorker \in Seq(Reports)
  BY DEF WorkerHandles, Typed, TypeOK, Reports
<1>2. Head(toWorker) \in Reports
  BY <1>1, Read
<1>3. QED
  BY <1>1, <1>2 DEF WorkerHandles, Reports, layer, listed, world

\* A flag that is set or cleared keeps the state a state.
LEMMA StateTyped ==
    ASSUME Typed,
           OnOpen \/ OnExisting \/ OnClose \/ OnWelcome
    PROVE  /\ state' \in [Flags -> BOOLEAN] /\ dirty' \in BOOLEAN /\ timers' \in Nat
           /\ toSockets' \in Seq(Requests)
<1>1. /\ state \in [Flags -> BOOLEAN] /\ timers \in Nat /\ toSockets \in Seq(Requests)
  BY DEF Typed, TypeOK, Requests
<1>2. Append(toSockets, "register") \in Seq(Requests) /\ Append(toSockets, "join") \in Seq(Requests)
  BY <1>1, Write DEF Requests
<1>3. CASE OnOpen
  BY <1>1, <1>2, <1>3 DEF OnOpen, Set
<1>4. CASE OnExisting
  BY <1>1, <1>2, <1>4 DEF OnExisting, Set
<1>5. CASE OnClose
  <2> DEFINE closed == [f \in Flags |-> f = "reconnecting" /\ state[f]]
  <2>1. closed \in [Flags -> BOOLEAN]
    BY <1>1
  <2>2. /\ toSockets' = toSockets
        /\ \/ Reconnect(state) \/ Reconnect(closed)
           \/ Set(closed) /\ timers' = timers
    BY <1>5 DEF OnClose
  <2> HIDE DEF closed
  <2>3. ASSUME NEW st \in [Flags -> BOOLEAN], Reconnect(st)
        PROVE  state' \in [Flags -> BOOLEAN] /\ dirty' \in BOOLEAN /\ timers' \in Nat
    <3>1. state' = [st EXCEPT !["reconnecting"] = TRUE] /\ dirty' = TRUE /\ timers' = timers + 1
      BY <2>3 DEF Reconnect, Set
    <3>2. [st EXCEPT !["reconnecting"] = TRUE] \in [Flags -> BOOLEAN]
      BY <2>3
    <3>3. timers + 1 \in Nat
      BY <1>1
    <3>4. QED
      BY <3>1, <3>2, <3>3
  <2>4. QED
    BY <1>1, <2>1, <2>2, <2>3 DEF Set
<1>6. CASE OnWelcome
  BY <1>1, <1>2, <1>6 DEF OnWelcome, Set
<1>7. QED
  BY <1>3, <1>4, <1>5, <1>6

\* Every step keeps the types.
LEMMA TypedStep ==
    ASSUME Typed, [Next]_vars
    PROVE  Typed'
<1>1. /\ state \in [Flags -> BOOLEAN] /\ row \in [Flags -> BOOLEAN] /\ dirty \in BOOLEAN
      /\ timers \in Nat /\ toSockets \in Seq(Requests) /\ toWorker \in Seq(Reports)
      /\ sock \in [Socks -> {"unused", "waiting", "connecting", "open", "gone", "failed"}]
      /\ cons \in 0..MaxSocks /\ turns \in [Socks -> Nat] /\ disposed \subseteq Socks
      /\ repeated \in BOOLEAN /\ buffered \subseteq Socks
      /\ ended \subseteq {s \in Socks : sock[s] # "unused"}
      /\ cons # 0 => cons \in Socks /\ sock[cons] # "unused"
      /\ ircd \in [Socks -> {"new", "registering", "registered", "joined"}]
  BY LinkBounds DEF Typed, TypeOK, Socks, Requests, Reports
<1>2. /\ \A e \in Requests : Append(toSockets, e) \in Seq(Requests)
      /\ \A e \in Reports : Append(toWorker, e) \in Seq(Reports)
  BY <1>1, Write
<1>3. /\ toSockets # <<>> => Tail(toSockets) \in Seq(Requests) /\ Head(toSockets) \in Requests
      /\ toWorker # <<>> => Tail(toWorker) \in Seq(Reports)
  BY <1>1, Read
<1>4. ASSUME NEW s \in Socks, NEW line, ServerGets(s, line)
      PROVE  ircd' \in [Socks -> {"new", "registering", "registered", "joined"}]
  BY <1>1, <1>4 DEF ServerGets
<1>5. ASSUME NEW s \in Socks, Closed(s), sock[s] # "unused"
      PROVE  Typed'
  <2>1. /\ sock' = [sock EXCEPT ![s] = IF @ = "connecting" THEN "failed" ELSE "gone"]
        /\ toWorker' = Append(toWorker, "close")
    BY <1>5 DEF Closed
  <2>2. /\ sock' \in [Socks -> {"unused", "waiting", "connecting", "open", "gone", "failed"}]
        /\ ended' \subseteq {r \in Socks : sock'[r] # "unused"}
    BY <1>1, <1>5, <2>1 DEF Closed
  <2>3. cons' \in 0..MaxSocks /\ (cons' # 0 => sock'[cons'] # "unused")
    BY <1>1, <1>5, <2>1, LinkBounds DEF Closed
  <2>4. toWorker' \in Seq(Reports)
    BY <1>2, <2>1 DEF Reports
  <2>5. QED
    BY <1>1, <1>5, <2>2, <2>3, <2>4 DEF Closed, Typed, TypeOK, Requests, Reports
<1>6. ASSUME NEW persisted \in [Flags -> BOOLEAN], Restart(persisted)
      PROVE  /\ state' \in [Flags -> BOOLEAN] /\ row' \in [Flags -> BOOLEAN] /\ dirty' \in BOOLEAN
             /\ timers' \in Nat /\ toSockets' \in Seq(Requests)
  BY <1>2, <1>6 DEF Restart, Requests
<1>7. CASE WorkerHandles
  <2>1. toWorker' \in Seq(Reports)
    BY <1>3, <1>7, Handled
  <2>2. /\ state' \in [Flags -> BOOLEAN] /\ dirty' \in BOOLEAN /\ timers' \in Nat
        /\ toSockets' \in Seq(Requests)
    BY <1>7, Handled, StateTyped
  <2>3. UNCHANGED <<row, sock, cons, turns, repeated, disposed, buffered, ended, ircd>>
    BY <1>7, Handled
  <2>4. QED
    BY <1>1, <2>1, <2>2, <2>3 DEF Typed, TypeOK, Requests, Reports
<1>8. CASE TimerFires
  <2>1. toSockets' \in Seq(Requests)
    BY <1>1, <1>2, <1>8 DEF TimerFires, Requests
  <2>2. timers' \in Nat
    BY <1>1, <1>8 DEF TimerFires
  <2>3. QED
    BY <1>1, <1>8, <2>1, <2>2 DEF TimerFires, layer, listed, Typed, TypeOK, Requests, Reports
<1>9. CASE Save
  BY <1>1, <1>9 DEF Save, layer, listed, Typed, TypeOK, Requests, Reports
<1>10. CASE Crash
  <2>1. toWorker' \in Seq(Reports)
    BY <1>1, <1>3, <1>10 DEF Crash
  <2>2. Restart(row)
    BY <1>10 DEF Crash
  <2>3. QED
    BY <1>1, <1>6, <2>1, <2>2 DEF Restart, layer, listed, Typed, TypeOK, Requests, Reports
<1>11. CASE Stop
  <2>1. Restart(state) /\ toWorker' = toWorker
    BY <1>11 DEF Stop
  <2>2. QED
    BY <1>1, <1>6, <2>1 DEF Restart, layer, listed, Typed, TypeOK, Requests, Reports
<1>12. CASE UserConnects
  <2>1. toSockets' \in Seq(Requests)
    BY <1>2, <1>12 DEF UserConnects, Requests
  <2>2. QED
    BY <1>1, <1>12, <2>1 DEF UserConnects, layer, listed, Typed, TypeOK, Requests, Reports
<1>13. CASE UserDisconnects
  <2>1. toSockets' \in Seq(Requests)
    BY <1>2, <1>13 DEF UserDisconnects, Requests
  <2>2. state' \in [Flags -> BOOLEAN] /\ dirty' \in BOOLEAN
    BY <1>1, <1>13 DEF UserDisconnects, Set
  <2>3. QED
    BY <1>1, <1>13, <2>1, <2>2 DEF UserDisconnects, layer, listed, Typed, TypeOK, Requests, Reports
<1>14. CASE SocketsHandle
  <2>1. /\ toSockets' \in Seq(Requests)
        /\ UNCHANGED <<state, dirty, row, timers, disposed>>
    BY <1>3, <1>14 DEF SocketsHandle
  <2>2. CASE SocketsOpen /\ UNCHANGED <<buffered, ended, ircd>>
    <3>1. CASE NewSocket /\ UNCHANGED <<toWorker, repeated>>
      <4>1. PICK s \in Socks : /\ sock[s] = "unused" /\ sock' = [sock EXCEPT ![s] = "waiting"]
                               /\ turns' = [turns EXCEPT ![s] = 1] /\ cons' = s
        BY <3>1 DEF NewSocket
      <4>2. /\ sock' \in [Socks -> {"unused", "waiting", "connecting", "open", "gone", "failed"}]
            /\ ended' \subseteq {r \in Socks : sock'[r] # "unused"}
        BY <1>1, <2>2, <4>1
      <4>3. turns' \in [Socks -> Nat] /\ cons' \in 0..MaxSocks /\ sock'[cons'] # "unused"
        BY <1>1, <4>1, LinkBounds DEF Socks
      <4>4. QED
        BY <1>1, <2>1, <2>2, <3>1, <4>2, <4>3 DEF Typed, TypeOK, Requests, Reports
    <3>2. CASE cons # 0 /\ turns' = [turns EXCEPT ![cons] = @ + 1] /\ repeated' = TRUE
               /\ UNCHANGED <<sock, cons, toWorker>>
      <4>1. turns' \in [Socks -> Nat]
        BY <1>1, <3>2 DEF Socks
      <4>2. QED
        BY <1>1, <2>1, <2>2, <3>2, <4>1 DEF Typed, TypeOK, Requests, Reports
    <3>3. CASE UNCHANGED <<sock, listed>> /\ toWorker' \in {toWorker, Append(toWorker, "existing")}
      <4>1. toWorker' \in Seq(Reports)
        BY <1>1, <1>2, <3>3 DEF Reports
      <4>2. QED
        BY <1>1, <2>1, <2>2, <3>3, <4>1 DEF listed, Typed, TypeOK, Requests, Reports
    <3>4. QED
      BY <2>2, <3>1, <3>2, <3>3 DEF SocketsOpen
  <2>3. CASE SocketsClose /\ UNCHANGED <<sock, turns, repeated, buffered, ircd, toWorker>>
    <3>1. cons' \in 0..MaxSocks
      BY <2>3, LinkBounds DEF SocketsClose
    <3>2. ended' \subseteq {s \in Socks : sock[s] # "unused"}
      BY <1>1, <2>3 DEF SocketsClose
    <3>3. cons' = 0
      BY <2>3 DEF SocketsClose
    <3>4. QED
      BY <1>1, <2>1, <2>3, <3>1, <3>2, <3>3 DEF Typed, TypeOK, Requests, Reports
  <2>4. CASE SocketsWrite(Head(toSockets)) /\ UNCHANGED <<sock, listed, ended, toWorker>>
    <3>1. cons # 0 => cons \in Socks
      BY <1>1 DEF Socks
    <3>2. ircd' \in [Socks -> {"new", "registering", "registered", "joined"}]
      BY <1>1, <1>4, <2>4, <3>1 DEF SocketsWrite
    <3>3. buffered' \subseteq Socks
      BY <1>1, <2>4, <3>1 DEF SocketsWrite
    <3>4. QED
      BY <1>1, <2>1, <2>4, <3>2, <3>3 DEF listed, Typed, TypeOK, Requests, Reports
  <2>5. QED
    BY <1>14, <2>2, <2>3, <2>4 DEF SocketsHandle
<1>15. ASSUME NEW s \in Socks, Connect(s)
       PROVE  Typed'
  <2>1. turns' \in [Socks -> Nat]
    BY <1>1, <1>15 DEF Connect
  <2>2. /\ sock' \in [Socks -> {"unused", "waiting", "connecting", "open", "gone", "failed"}]
        /\ ended' \subseteq {r \in Socks : sock'[r] # "unused"}
        /\ ircd' \in [Socks -> {"new", "registering", "registered", "joined"}]
        /\ cons' # 0 => sock'[cons'] # "unused"
    BY <1>1, <1>15 DEF Connect
  <2>3. QED
    BY <1>1, <1>15, <2>1, <2>2 DEF Connect, Typed, TypeOK, Requests, Reports
<1>16. ASSUME NEW s \in Socks, Connected(s)
       PROVE  Typed'
  <2>1. /\ sock' \in [Socks -> {"unused", "waiting", "connecting", "open", "gone", "failed"}]
        /\ ended' \subseteq {r \in Socks : sock'[r] # "unused"}
        /\ cons' # 0 => sock'[cons'] # "unused"
    BY <1>1, <1>16 DEF Connected, listed
  <2>2. toWorker' \in Seq(Reports)
    BY <1>2, <1>16 DEF Connected, Reports
  <2>3. ircd' \in [Socks -> {"new", "registering", "registered", "joined"}]
    BY <1>1, <1>4, <1>16 DEF Connected
  <2>4. QED
    BY <1>1, <1>16, <2>1, <2>2, <2>3 DEF Connected, listed, Typed, TypeOK, Requests, Reports
<1>17. ASSUME NEW s \in Socks, Welcome(s)
       PROVE  Typed'
  <2>1. ircd' \in [Socks -> {"new", "registering", "registered", "joined"}]
    BY <1>1, <1>17 DEF Welcome
  <2>2. toWorker' \in Seq(Reports)
    BY <1>2, <1>17 DEF Welcome, Reports
  <2>3. QED
    BY <1>1, <1>17, <2>1, <2>2 DEF Welcome, listed, Typed, TypeOK, Requests, Reports
<1>18. ASSUME NEW s \in Socks,
              ConnectFails(s) \/ Ends(s) \/ ServerDrops(s) \/ RegistrationTimeout(s)
       PROVE  Typed'
  BY <1>5, <1>18 DEF ConnectFails, Ends, ServerDrops, RegistrationTimeout
<1>19. CASE UNCHANGED vars
  BY <1>1, <1>19 DEF vars, layer, listed, Typed, TypeOK, Requests, Reports
<1>20. QED
  BY <1>7, <1>8, <1>9, <1>10, <1>11, <1>12, <1>13, <1>14, <1>15, <1>16, <1>17, <1>18, <1>19
     DEF Next

-----------------------------------------------------------------------------
(* A worker that lives and gives commands.                                 *)

\* What is known of the queues and the state.
LEMMA Kinded ==
    ASSUME Typed
    PROVE  /\ state \in [Flags -> BOOLEAN] /\ state["connected"] \in BOOLEAN
           /\ toSockets \in Seq(Requests) /\ toWorker \in Seq(Reports)
           /\ cons # 0 => cons \in Socks
BY LinkBounds DEF Typed, TypeOK, Flags, Requests, Reports, Socks

Safe == OneInside /\ RegistersNext /\ BelievesConnected /\ ClosesTheRightOne

\* The worker handles a line.
LEMMA HandlesSafely ==
    ASSUME Typed, Safe, Undisturbed, Undisturbed', WorkerHandles
    PROVE  Safe'
<1>1. /\ toWorker # <<>> /\ toWorker' = Tail(toWorker)
      /\ UNCHANGED <<sock, cons, buffered, ended, ircd>>
      /\ toSockets \in Seq(Requests) /\ toWorker \in Seq(Reports)
      /\ state \in [Flags -> BOOLEAN] /\ state["connected"] \in BOOLEAN
  BY Handled, Kinded
<1> DEFINE h == Head(toWorker)
<1>2. \A m : OnItsWay(m, toWorker) <=> h = m \/ OnItsWay(m, toWorker')
  BY <1>1, OnItsWayRead
<1>3. /\ \A m : Once(m, toWorker) => Once(m, toWorker') /\ (h = m => ~OnItsWay(m, toWorker'))
      /\ \A m, o : NoneBehind(m, o, toWorker) =>
            NoneBehind(m, o, toWorker') /\ (h = m => ~OnItsWay(o, toWorker'))
  BY <1>1, OnceRead, NoneBehindRead
<1>4. Confirms(toWorker, state["connected"]) =>
        /\ h = "existing" => state["connected"]
        /\ h = "open" /\ ~OnItsWay("close", toWorker') => Confirms(toWorker', TRUE)
        /\ h = "close" => Confirms(toWorker', FALSE)
        /\ h \notin {"open", "close"} => Confirms(toWorker', state["connected"])
  BY <1>1, ConfirmsRead
<1>5. Inside' = Inside
  BY <1>1 DEF Inside
<1>6. OneInside'
  BY <1>1, <1>5 DEF Safe, OneInside
<1>7. CASE h = "open" /\ OnOpen
  <2>1. /\ state'["connected"] = TRUE /\ state'["reconnecting"] = FALSE
        /\ toSockets' = Append(toSockets, "register")
    BY <1>1, <1>7 DEF OnOpen, Set, Flags
  <2>2. OnItsWay("open", toWorker)
    BY <1>2, <1>7
  <2>3. /\ cons # 0 /\ sock[cons] = "open" /\ ircd[cons] = "new"
        /\ ~OnItsWay("register", toSockets)
        /\ Once("open", toWorker) /\ Once("register", toSockets)
        /\ NoneBehind("open", "close", toWorker)
    BY <2>2 DEF Safe, RegistersNext
  <2>4. ~OnItsWay("open", toWorker') /\ ~OnItsWay("close", toWorker')
    BY <1>3, <1>7, <2>3
  <2>5. ~OnItsWay("close", toSockets) /\ Inside \intersect ended = {}
    BY <2>2, <2>3 DEF Safe, ClosesTheRightOne
  <2>6. "register" \in Requests
    BY DEF Requests
  <2>7. ~OnItsWay("close", toSockets')
    BY <1>1, <2>1, <2>5, <2>6, OnItsWayWritten
  <2>8. Once("register", toSockets') /\ Once("open", toWorker')
    BY <1>1, <1>3, <2>1, <2>3, <2>6, OnceWritten
  <2>9. RegistersNext'
    BY <1>1, <1>3, <2>3, <2>4, <2>8 DEF RegistersNext
  <2>10. Followed("open", "register", toSockets')
    BY <1>1, <2>1, <2>6, FollowedWritten
  <2>11. Confirms(toWorker', state'["connected"])
    BY <1>4, <1>7, <2>1, <2>4 DEF Safe, BelievesConnected
  <2>12. BelievesConnected'
    BY <1>1, <2>1, <2>3, <2>4, <2>10, <2>11 DEF BelievesConnected
  <2>13. Separated(toSockets')
    BY <1>1, <2>1, <2>6, SeparatedWritten DEF Safe, ClosesTheRightOne
  <2>14. ClosesTheRightOne'
    BY <1>1, <1>5, <2>5, <2>7, <2>13 DEF ClosesTheRightOne
  <2>15. QED
    BY <1>6, <2>9, <2>12, <2>14 DEF Safe
<1>8. ASSUME state'["connected"] = state["connected"],
             state'["reconnecting"] = state["reconnecting"],
             toSockets' \in {toSockets, Append(toSockets, "join")}, h \in {"existing", "welcome"}
      PROVE  Safe'
  <2>1. "join" \in Requests
    BY DEF Requests
  <2>2. /\ OnItsWay("open", toWorker') <=> OnItsWay("open", toWorker)
        /\ OnItsWay("close", toWorker') <=> OnItsWay("close", toWorker)
    BY <1>2, <1>8
  <2>3. \A m \in {"open", "close", "register"} :
            OnItsWay(m, toSockets') <=> OnItsWay(m, toSockets)
    <3>1. CASE toSockets' = toSockets
      BY <3>1
    <3>2. CASE toSockets' = Append(toSockets, "join")
      <4>1. \A m : OnItsWay(m, toSockets') <=> OnItsWay(m, toSockets) \/ m = "join"
        BY <1>1, <2>1, <3>2, OnItsWayWritten
      <4>2. QED
        BY <4>1
    <3>3. QED
      BY <1>8, <3>1, <3>2
  <2>4. /\ Once("register", toSockets) => Once("register", toSockets')
        /\ Followed("open", "register", toSockets) => Followed("open", "register", toSockets')
        /\ Separated(toSockets) => Separated(toSockets')
        /\ NoneBehind("close", "open", toSockets) => NoneBehind("close", "open", toSockets')
        /\ NoneBehind("close", "register", toSockets) => NoneBehind("close", "register", toSockets')
    <3>1. CASE toSockets' = toSockets
      BY <3>1
    <3>2. CASE toSockets' = Append(toSockets, "join")
      BY <1>1, <2>1, <3>2, OnceWritten, FollowedWritten, SeparatedWritten, NoneBehindWritten
    <3>3. QED
      BY <1>8, <3>1, <3>2
  <2>5. RegistersNext'
    BY <1>1, <1>3, <2>2, <2>3, <2>4 DEF Safe, RegistersNext
  <2>6. Confirms(toWorker', state'["connected"])
    BY <1>4, <1>8 DEF Safe, BelievesConnected
  <2>7. BelievesConnected'
    BY <1>1, <1>8, <2>2, <2>4, <2>6 DEF Safe, BelievesConnected
  <2>8. ClosesTheRightOne'
    BY <1>1, <1>5, <1>8, <2>2, <2>3, <2>4 DEF Safe, ClosesTheRightOne
  <2>9. QED
    BY <1>6, <2>5, <2>7, <2>8 DEF Safe
<1>9. CASE h = "existing" /\ OnExisting
  <2>1. state["connected"] = TRUE
    BY <1>4, <1>9 DEF Safe, BelievesConnected
  <2>2. /\ state'["connected"] = TRUE /\ state'["reconnecting"] = state["reconnecting"]
        /\ toSockets' = toSockets
    BY <1>1, <1>9 DEF OnExisting, Set, Flags
  <2>3. QED
    BY <1>8, <1>9, <2>1, <2>2
<1>10. CASE h = "welcome" /\ OnWelcome
  <2>1. /\ state'["connected"] = state["connected"]
        /\ state'["reconnecting"] = state["reconnecting"]
        /\ toSockets' \in {toSockets, Append(toSockets, "join")}
    BY <1>1, <1>10 DEF OnWelcome, Set, Flags
  <2>2. QED
    BY <1>8, <1>10, <2>1
<1>11. CASE h = "close" /\ OnClose
  <2>1. state["connected"] => ~state["reconnecting"]
    BY DEF Safe, BelievesConnected
  <2>2. state'["connected"] = FALSE /\ toSockets' = toSockets
    <3>1. toSockets' = toSockets
      BY <1>11 DEF OnClose
    <3>2. CASE state["reconnecting"] /\ Reconnect(state)
      BY <1>1, <2>1, <3>1, <3>2 DEF Reconnect, Set, Flags
    <3>3. CASE Reconnect([f \in Flags |-> f = "reconnecting" /\ state[f]])
      BY <3>1, <3>3 DEF Reconnect, Set, Flags
    <3>4. CASE Set([f \in Flags |-> f = "reconnecting" /\ state[f]])
      BY <3>1, <3>4 DEF Set, Flags
    <3>5. QED
      BY <1>11, <3>2, <3>3, <3>4 DEF OnClose
  <2>3. /\ OnItsWay("close", toWorker)
        /\ OnItsWay("open", toWorker') <=> OnItsWay("open", toWorker)
    BY <1>2, <1>11
  <2>4. RegistersNext'
    BY <1>1, <1>3, <2>2, <2>3 DEF Safe, RegistersNext
  <2>5. Confirms(toWorker', state'["connected"])
    BY <1>4, <1>11, <2>2 DEF Safe, BelievesConnected
  <2>6. BelievesConnected'
    BY <1>1, <2>2, <2>3, <2>5 DEF Safe, BelievesConnected
  <2>7. ClosesTheRightOne'
    BY <1>1, <1>5, <2>2, <2>3 DEF Safe, ClosesTheRightOne
  <2>8. QED
    BY <1>6, <2>4, <2>6, <2>7 DEF Safe
<1>12. QED
  BY <1>7, <1>9, <1>10, <1>11, Handled

\* The timer or the user asks for a connection.
LEMMA AsksSafely ==
    ASSUME Typed, Safe, Undisturbed, Undisturbed', ~state["connected"],
           toSockets' = Append(toSockets, "open"),
           UNCHANGED <<state, toWorker, sock, cons, buffered, ended, ircd>>
    PROVE  Safe'
<1>1. toSockets \in Seq(Requests) /\ "open" \in Requests
  BY Kinded DEF Requests
<1>2. \A m \in {"register", "close"} : OnItsWay(m, toSockets') <=> OnItsWay(m, toSockets)
  <2>1. \A m : OnItsWay(m, toSockets') <=> OnItsWay(m, toSockets) \/ m = "open"
    BY <1>1, OnItsWayWritten
  <2>2. QED
    BY <2>1
<1>3. Inside' = Inside
  BY DEF Inside
<1>4. OneInside'
  BY <1>3 DEF Safe, OneInside
<1>5. RegistersNext'
  <2>1. Once("register", toSockets) => Once("register", toSockets')
    BY <1>1, OnceWritten
  <2>2. QED
    BY <1>2, <2>1 DEF Safe, RegistersNext
<1>6. BelievesConnected'
  BY DEF Safe, BelievesConnected
<1>7. ClosesTheRightOne'
  <2>1. Separated(toSockets')
    BY <1>1, SeparatedWritten DEF Safe, ClosesTheRightOne
  <2>2. QED
    BY <1>2, <1>3, <2>1 DEF Safe, ClosesTheRightOne
<1>8. QED
  BY <1>4, <1>5, <1>6, <1>7 DEF Safe

\* The user asks for the end of the connection.
LEMMA DisconnectsSafely ==
    ASSUME Typed, Safe, Undisturbed, Undisturbed', UserDisconnects
    PROVE  Safe'
<1>1. /\ toSockets \in Seq(Requests) /\ "close" \in Requests
      /\ state \in [Flags -> BOOLEAN] /\ state["connected"]
      /\ toSockets' = Append(toSockets, "close")
      /\ UNCHANGED <<toWorker, sock, cons, buffered, ended, ircd>>
  BY Kinded DEF UserDisconnects, Requests, layer, listed
<1>2. state'["connected"] = state["connected"] /\ state'["reconnecting"] = state["reconnecting"]
  BY <1>1 DEF UserDisconnects, Set, Flags
<1>3. \A m \in {"register", "open"} : OnItsWay(m, toSockets') <=> OnItsWay(m, toSockets)
  <2>1. \A m : OnItsWay(m, toSockets') <=> OnItsWay(m, toSockets) \/ m = "close"
    BY <1>1, OnItsWayWritten
  <2>2. QED
    BY <2>1
<1>4. Inside' = Inside
  BY <1>1 DEF Inside
<1>5. OneInside'
  BY <1>1, <1>4 DEF Safe, OneInside
<1>6. RegistersNext'
  <2>1. Once("register", toSockets) => Once("register", toSockets')
    BY <1>1, OnceWritten
  <2>2. QED
    BY <1>1, <1>3, <2>1 DEF Safe, RegistersNext
<1>7. /\ Followed("open", "register", toSockets) /\ ~state["reconnecting"]
      /\ ~OnItsWay("open", toWorker) /\ (cons # 0 => sock[cons] = "open")
  BY <1>1 DEF Safe, BelievesConnected
<1>8. BelievesConnected'
  <2>1. Followed("open", "register", toSockets')
    BY <1>1, <1>7, FollowedWritten
  <2>2. QED
    BY <1>1, <1>2, <2>1 DEF Safe, BelievesConnected
<1>9. ClosesTheRightOne'
  <2>1. Separated(toSockets')
    BY <1>1, <1>7, SeparatedWritten DEF Safe, ClosesTheRightOne
  <2>2. ASSUME cons # 0
        PROVE  /\ sock[cons] = "open" /\ ~OnItsWay("close", toWorker)
               /\ NoneBehind("close", "open", toSockets')
               /\ NoneBehind("close", "register", toSockets')
    <3>1. sock[cons] = "open" /\ ~OnItsWay("close", toWorker)
      BY <1>7, <2>2 DEF Safe, BelievesConnected
    <3>2. NoneBehind("close", "open", toSockets) /\ NoneBehind("close", "register", toSockets)
      BY <2>2, NoneBehindAbsent DEF Safe, ClosesTheRightOne
    <3>3. QED
      BY <1>1, <3>1, <3>2, NoneBehindWritten
  <2>3. QED
    BY <1>1, <1>2, <1>3, <1>4, <1>7, <2>1, <2>2 DEF Safe, ClosesTheRightOne
<1>10. QED
  BY <1>5, <1>6, <1>8, <1>9 DEF Safe

\* The sockets layer handles a request.
LEMMA ServesSafely ==
    ASSUME Typed, TurnsFollow, Safe, Undisturbed, Undisturbed', SocketsHandle
    PROVE  Safe'
<1>1. /\ toSockets # <<>> /\ toSockets' = Tail(toSockets)
      /\ UNCHANGED <<state, disposed>>
      /\ toSockets \in Seq(Requests) /\ toWorker \in Seq(Reports)
      /\ state["connected"] \in BOOLEAN
      /\ cons # 0 => cons \in Socks
  BY Kinded DEF SocketsHandle
<1> DEFINE h == Head(toSockets)
<1>2. \A m : OnItsWay(m, toSockets) <=> h = m \/ OnItsWay(m, toSockets')
  BY <1>1, OnItsWayRead
<1>3. /\ \A m : Once(m, toSockets) => Once(m, toSockets') /\ (h = m => ~OnItsWay(m, toSockets'))
      /\ \A m, o : NoneBehind(m, o, toSockets) =>
            NoneBehind(m, o, toSockets') /\ (h = m => ~OnItsWay(o, toSockets'))
      /\ \A m, o : Followed(m, o, toSockets) =>
            Followed(m, o, toSockets') /\ (h = m => OnItsWay(o, toSockets'))
      /\ Separated(toSockets) =>
            /\ Separated(toSockets')
            /\ h = "open" /\ OnItsWay("close", toSockets') => OnItsWay("register", toSockets')
  BY <1>1, OnceRead, NoneBehindRead, FollowedRead, SeparatedRead
<1>4. CASE h = "open" /\ SocketsOpen /\ UNCHANGED <<buffered, ended, ircd>>
  <2>1. /\ OnItsWay("open", toSockets)
        /\ OnItsWay("register", toSockets') <=> OnItsWay("register", toSockets)
        /\ OnItsWay("close", toSockets') <=> OnItsWay("close", toSockets)
    BY <1>2, <1>4
  <2>2. CASE cons # 0 /\ toWorker' \in {toWorker, Append(toWorker, "existing")}
             /\ (toWorker' # toWorker => sock[cons] = "open") /\ UNCHANGED <<sock, listed>>
    <3>1. "existing" \in Reports
      BY DEF Reports
    <3>2. CASE toWorker' = toWorker
      <4>1. Inside' = Inside
        BY <2>2 DEF Inside
      <4>2. OneInside'
        BY <1>4, <2>2, <4>1 DEF listed, Safe, OneInside
      <4>3. RegistersNext'
        BY <1>3, <1>4, <2>1, <2>2, <3>2 DEF listed, Safe, RegistersNext
      <4>4. BelievesConnected'
        BY <1>1, <1>3, <2>2, <3>2 DEF listed, Safe, BelievesConnected
      <4>5. ClosesTheRightOne'
        BY <1>1, <1>2, <1>3, <1>4, <2>1, <2>2, <3>2, <4>1 DEF listed, Safe, ClosesTheRightOne
      <4>6. QED
        BY <4>2, <4>3, <4>4, <4>5 DEF Safe
    <3>3. CASE toWorker' = Append(toWorker, "existing") /\ sock[cons] = "open"
      <4>1. Inside' = Inside
        BY <2>2 DEF Inside
      <4>2. OneInside'
        BY <1>4, <2>2, <4>1 DEF listed, Safe, OneInside
      <4>3. \A m \in {"open", "close"} : OnItsWay(m, toWorker') <=> OnItsWay(m, toWorker)
        <5>1. \A m : OnItsWay(m, toWorker') <=> OnItsWay(m, toWorker) \/ m = "existing"
          BY <1>1, <3>1, <3>3, OnItsWayWritten
        <5>2. QED
          BY <5>1
      <4>4. RegistersNext'
        <5>1. /\ Once("open", toWorker) => Once("open", toWorker')
              /\ NoneBehind("open", "close", toWorker) => NoneBehind("open", "close", toWorker')
          BY <1>1, <3>1, <3>3, OnceWritten, NoneBehindWritten
        <5>2. QED
          BY <1>3, <1>4, <2>1, <2>2, <4>3, <5>1 DEF listed, Safe, RegistersNext
      <4>5. BelievesConnected'
        <5>1. OnItsWay("open", toWorker) \/ (state["connected"] /\ ~OnItsWay("close", toWorker))
          BY <2>2, <3>3 DEF Safe, BelievesConnected
        <5>2. Confirms(toWorker', state["connected"])
          BY <1>1, <3>1, <3>3, <5>1, ConfirmsWritten DEF Safe, BelievesConnected
        <5>3. QED
          BY <1>1, <1>3, <2>2, <4>3, <5>2 DEF listed, Safe, BelievesConnected
      <4>6. ClosesTheRightOne'
        BY <1>1, <1>2, <1>3, <1>4, <2>1, <2>2, <4>1, <4>3 DEF listed, Safe, ClosesTheRightOne
      <4>7. QED
        BY <4>2, <4>4, <4>5, <4>6 DEF Safe
    <3>4. QED
      BY <2>2, <3>2, <3>3
  <2>3. CASE repeated' = TRUE
    BY <2>3 DEF Undisturbed
  <2>4. CASE cons = 0 /\ NewSocket /\ UNCHANGED toWorker
    <3>1. PICK s \in Socks : sock[s] = "unused" /\ sock' = [sock EXCEPT ![s] = "waiting"]
                             /\ cons' = s
      BY <2>4 DEF NewSocket
    <3>2. /\ sock \in [Socks -> {"unused", "waiting", "connecting", "open", "gone", "failed"}]
          /\ s \notin ended
          /\ s # 0
      BY <3>1 DEF Typed, TypeOK, Socks
    <3>3. Inside = {}
      <4>1. Inside \intersect ended = {}
        BY <2>1 DEF Safe, ClosesTheRightOne
      <4>2. Inside \subseteq ended
        BY <2>4 DEF Safe, OneInside
      <4>3. QED
        BY <4>1, <4>2
    <3>4. Inside' = {s}
      BY <3>1, <3>2, <3>3 DEF Inside
    <3>5. sock'[s] = "waiting" /\ \A r \in Socks : r # s => sock'[r] = sock[r]
      BY <3>1, <3>2
    <3>6. OneInside'
      BY <1>4, <3>1, <3>2, <3>4, <3>5 DEF Safe, OneInside
    <3>7. ~OnItsWay("open", toWorker) /\ ~OnItsWay("register", toSockets')
      BY <2>1, <2>4 DEF Safe, RegistersNext
    <3>8. RegistersNext'
      BY <2>4, <3>7 DEF RegistersNext
    <3>9. ~state["connected"]
      BY <1>3, <1>4, <3>7 DEF Safe, BelievesConnected
    <3>10. BelievesConnected'
      BY <1>1, <2>4, <3>1, <3>5, <3>9 DEF Safe, BelievesConnected
    <3>11. Separated(toSockets') /\ ~OnItsWay("close", toSockets')
      BY <1>3, <1>4, <3>7 DEF Safe, ClosesTheRightOne
    <3>12. ClosesTheRightOne'
      BY <1>4, <3>2, <3>4, <3>11 DEF ClosesTheRightOne
    <3>13. QED
      BY <3>6, <3>8, <3>10, <3>12 DEF Safe
  <2>5. QED
    BY <1>4, <2>2, <2>3, <2>4 DEF SocketsOpen
<1>5. CASE h = "close" /\ SocketsClose
           /\ UNCHANGED <<sock, turns, repeated, buffered, ircd, toWorker>>
  <2>1. /\ OnItsWay("close", toSockets)
        /\ OnItsWay("register", toSockets') <=> OnItsWay("register", toSockets)
        /\ OnItsWay("open", toSockets') <=> OnItsWay("open", toSockets)
    BY <1>2, <1>5
  <2>2. cons' = 0 /\ Inside' = Inside
    BY <1>5 DEF SocketsClose, Inside
  <2>3. Separated(toSockets')
    BY <1>3 DEF Safe, ClosesTheRightOne
  <2>4. CASE cons = 0
    <3>1. ended' = ended
      BY <1>5, <2>4 DEF SocketsClose
    <3>2. OneInside'
      BY <1>5, <2>2, <2>4, <3>1 DEF Safe, OneInside
    <3>3. RegistersNext'
      BY <1>5, <2>1, <2>2, <2>4 DEF Safe, RegistersNext
    <3>4. BelievesConnected'
      BY <1>1, <1>3, <1>5, <2>2, <2>4 DEF Safe, BelievesConnected
    <3>5. ClosesTheRightOne'
      BY <1>1, <1>5, <2>1, <2>2, <2>3, <2>4, <3>1 DEF Safe, ClosesTheRightOne
    <3>6. QED
      BY <3>2, <3>3, <3>4, <3>5 DEF Safe
  <2>5. CASE cons # 0
    <3>1. /\ sock[cons] = "open" /\ state["connected"]
          /\ ~OnItsWay("close", toWorker) /\ ~OnItsWay("open", toWorker)
          /\ NoneBehind("close", "open", toSockets) /\ NoneBehind("close", "register", toSockets)
      BY <2>1, <2>5 DEF Safe, ClosesTheRightOne
    <3>2. ~OnItsWay("open", toSockets') /\ ~OnItsWay("register", toSockets')
      BY <1>3, <1>5, <3>1
    <3>3. ended' = ended \union {cons} /\ Inside = {cons}
      BY <1>5, <2>5, <3>1 DEF SocketsClose, Safe, OneInside
    <3>4. OneInside'
      BY <1>5, <2>2, <3>3 DEF Safe, OneInside
    <3>5. RegistersNext'
      BY <1>5, <3>1, <3>2 DEF RegistersNext
    <3>6. BelievesConnected'
      BY <1>1, <1>3, <1>5, <2>2 DEF Safe, BelievesConnected
    <3>7. ClosesTheRightOne'
      BY <1>1, <1>5, <2>2, <2>3, <3>1, <3>2, <3>3 DEF ClosesTheRightOne
    <3>8. QED
      BY <3>4, <3>5, <3>6, <3>7 DEF Safe
  <2>6. QED
    BY <2>4, <2>5
<1>6. CASE h \in {"register", "join"} /\ SocketsWrite(h)
           /\ UNCHANGED <<sock, listed, ended, toWorker>>
  <2>1. \A m \in {"open", "close"} : OnItsWay(m, toSockets') <=> OnItsWay(m, toSockets)
    BY <1>2, <1>6
  <2>2. cons' = cons /\ Inside' = Inside
    BY <1>6 DEF listed, Inside
  <2>3. /\ OnItsWay("register", toSockets') => OnItsWay("register", toSockets)
        /\ h = "register" => OnItsWay("register", toSockets)
    BY <1>2
  <2>4. buffered' = {}
    <3>1. buffered = {}
      BY DEF Safe, OneInside
    <3>2. h = "register" => cons # 0 /\ sock[cons] = "open"
      BY <2>3 DEF Safe, RegistersNext
    <3>3. QED
      BY <1>6, <3>1, <3>2 DEF SocketsWrite
  <2>5. /\ \A s \in Socks : sock[s] # "open" => ircd'[s] = ircd[s]
        /\ h = "join" /\ cons # 0 /\ ircd[cons] = "new" => ircd'[cons] = "new"
    <3>1. ircd \in [Socks -> {"new", "registering", "registered", "joined"}]
      BY DEF Typed, TypeOK
    <3>2. CASE ircd' = ircd
      BY <3>2
    <3>3. CASE cons # 0 /\ sock[cons] = "open" /\ ServerGets(cons, h)
      BY <1>1, <3>1, <3>3 DEF ServerGets
    <3>4. QED
      BY <1>6, <3>2, <3>3 DEF SocketsWrite
  <2>6. OneInside'
    BY <1>6, <2>2, <2>4, <2>5 DEF Safe, OneInside
  <2>7. RegistersNext'
    <3>1. CASE h = "register"
      <4>1. /\ ~OnItsWay("open", toWorker) /\ Once("register", toSockets)
        BY <2>3, <3>1 DEF Safe, RegistersNext
      <4>2. ~OnItsWay("register", toSockets')
        BY <1>3, <3>1, <4>1
      <4>3. QED
        BY <1>6, <4>1, <4>2 DEF RegistersNext
    <3>2. CASE h = "join"
      BY <1>3, <1>6, <2>2, <2>3, <2>5, <3>2 DEF Safe, RegistersNext
    <3>3. QED
      BY <1>6, <3>1, <3>2
  <2>8. BelievesConnected'
    BY <1>1, <1>3, <1>6, <2>2 DEF Safe, BelievesConnected
  <2>9. ClosesTheRightOne'
    BY <1>1, <1>3, <1>6, <2>1, <2>2 DEF Safe, ClosesTheRightOne
  <2>10. QED
    BY <2>6, <2>7, <2>8, <2>9 DEF Safe
<1>7. QED
  BY <1>4, <1>5, <1>6 DEF SocketsHandle

\* A socket that waits or connects is the one to be found.
LEMMA TheOneToBeFound ==
    ASSUME Typed, Safe, Undisturbed, NEW s \in Socks, sock[s] \in {"waiting", "connecting"}
    PROVE  /\ cons = s /\ Inside = {s} /\ s \notin ended /\ s # 0
           /\ ~state["connected"]
           /\ ~OnItsWay("open", toWorker) /\ ~OnItsWay("register", toSockets)
           /\ ~OnItsWay("close", toSockets)
<1>1. s \in Inside
  BY DEF Inside
<1>2. cons # 0
  <2> SUFFICES ASSUME cons = 0
               PROVE  FALSE
    OBVIOUS
  <2>1. s \in Inside \intersect ended
    BY <1>1 DEF Safe, OneInside
  <2>2. sock[s] = "open"
    BY <1>1, <2>1 DEF Safe, ClosesTheRightOne
  <2>3. QED
    BY <2>2
<1>3. Inside = {cons} /\ cons \notin ended
  BY <1>2 DEF Safe, OneInside
<1>4. cons = s
  BY <1>1, <1>3
<1>5. ~state["connected"]
  BY <1>2, <1>4 DEF Safe, BelievesConnected
<1>6. ~OnItsWay("open", toWorker) /\ ~OnItsWay("register", toSockets)
  BY <1>4 DEF Safe, RegistersNext
<1>7. ~OnItsWay("close", toSockets)
  BY <1>2, <1>5 DEF Safe, ClosesTheRightOne
<1>8. QED
  BY <1>2, <1>3, <1>4, <1>5, <1>6, <1>7

\* A socket's turn comes.
LEMMA ConnectsSafely ==
    ASSUME Typed, TurnsFollow, Safe, Undisturbed, Undisturbed', NEW s \in Socks, Connect(s)
    PROVE  Safe'
<1>1. sock[s] = "waiting"
  BY DEF Connect, TurnsFollow, Undisturbed
<1>2. /\ sock' = [sock EXCEPT ![s] = "connecting"] /\ ircd' = [ircd EXCEPT ![s] = "new"]
      /\ ended' = ended \ {s}
      /\ UNCHANGED <<state, toSockets, toWorker, cons, buffered>>
  BY <1>1 DEF Connect
<1>3. /\ sock \in [Socks -> {"unused", "waiting", "connecting", "open", "gone", "failed"}]
      /\ ircd \in [Socks -> {"new", "registering", "registered", "joined"}]
  BY DEF Typed, TypeOK
<1>4. /\ cons = s /\ Inside = {s} /\ s \notin ended /\ s # 0 /\ ~state["connected"]
      /\ ~OnItsWay("open", toWorker) /\ ~OnItsWay("register", toSockets)
      /\ ~OnItsWay("close", toSockets)
  BY <1>1, TheOneToBeFound
<1>5. sock'[s] = "connecting" /\ \A r \in Socks : r # s => sock'[r] = sock[r]
  BY <1>2, <1>3
<1>6. Inside' = {s}
  BY <1>1, <1>4, <1>5 DEF Inside
<1>7. OneInside'
  <2>1. ircd'[s] = "new" /\ \A r \in Socks : r # s => ircd'[r] = ircd[r]
    BY <1>2, <1>3
  <2>2. QED
    BY <1>2, <1>4, <1>5, <1>6, <2>1 DEF Safe, OneInside
<1>8. RegistersNext'
  BY <1>2, <1>4 DEF RegistersNext
<1>9. BelievesConnected'
  BY <1>2, <1>4, <1>5 DEF Safe, BelievesConnected
<1>10. ClosesTheRightOne'
  BY <1>2, <1>4, <1>6 DEF Safe, ClosesTheRightOne
<1>11. QED
  BY <1>7, <1>8, <1>9, <1>10 DEF Safe

\* A socket is connected.
LEMMA IsConnectedSafely ==
    ASSUME Typed, Safe, Undisturbed, Undisturbed', NEW s \in Socks, Connected(s)
    PROVE  Safe'
<1>1. buffered = {} /\ sock[s] = "connecting" /\ ircd[s] = "new"
  BY DEF Safe, OneInside, Connected
<1>2. /\ sock' = [sock EXCEPT ![s] = "open"] /\ toWorker' = Append(toWorker, "open")
      /\ UNCHANGED <<state, toSockets, cons, buffered, ended, ircd>>
  BY <1>1 DEF Connected, listed
<1>3. /\ sock \in [Socks -> {"unused", "waiting", "connecting", "open", "gone", "failed"}]
      /\ toWorker \in Seq(Reports) /\ "open" \in Reports /\ state["connected"] \in BOOLEAN
  BY Kinded DEF Typed, TypeOK, Reports
<1>4. /\ cons = s /\ Inside = {s} /\ s \notin ended /\ s # 0 /\ ~state["connected"]
      /\ ~OnItsWay("open", toWorker) /\ ~OnItsWay("register", toSockets)
      /\ ~OnItsWay("close", toSockets)
  BY <1>1, TheOneToBeFound
<1>5. sock'[s] = "open" /\ \A r \in Socks : r # s => sock'[r] = sock[r]
  BY <1>2, <1>3
<1>6. Inside' = {s}
  BY <1>1, <1>4, <1>5 DEF Inside
<1>7. OneInside'
  BY <1>2, <1>4, <1>5, <1>6 DEF Safe, OneInside
<1>8. OnItsWay("open", toWorker')
  BY <1>2, <1>3, OnItsWayWritten
<1>9. RegistersNext'
  <2>1. /\ Once("open", toWorker) /\ Once("register", toSockets)
        /\ NoneBehind("open", "close", toWorker)
    BY <1>4, OnceAbsent, NoneBehindAbsent
  <2>2. Once("open", toWorker') /\ NoneBehind("open", "close", toWorker')
    BY <1>2, <1>3, <1>4, <2>1, OnceWritten, NoneBehindWritten
  <2>3. QED
    BY <1>1, <1>2, <1>4, <1>5, <2>1, <2>2 DEF RegistersNext
<1>10. BelievesConnected'
  <2>1. Confirms(toWorker', state["connected"])
    BY <1>2, <1>3, ConfirmsWritten DEF Safe, BelievesConnected
  <2>2. QED
    BY <1>2, <1>4, <1>8, <2>1 DEF BelievesConnected
<1>11. ClosesTheRightOne'
  BY <1>2, <1>4, <1>6 DEF Safe, ClosesTheRightOne
<1>12. QED
  BY <1>7, <1>9, <1>10, <1>11 DEF Safe

\* A socket closes while nothing is on its way by which it would be registered.
LEMMA ClosesSafely ==
    ASSUME Typed, TurnsFollow, Safe, Undisturbed, Undisturbed', NEW s \in Socks,
           Closed(s), sock[s] \in {"connecting", "open"},
           ~OnItsWay("open", toWorker), ~OnItsWay("register", toSockets)
    PROVE  Safe'
<1>1. s \notin disposed
  BY DEF TurnsFollow, Undisturbed
<1>2. /\ sock' = [sock EXCEPT ![s] = IF @ = "connecting" THEN "failed" ELSE "gone"]
      /\ toWorker' = Append(toWorker, "close") /\ cons' = 0
      /\ UNCHANGED <<state, toSockets, buffered, ended, ircd>>
  BY <1>1 DEF Closed
<1>3. /\ sock \in [Socks -> {"unused", "waiting", "connecting", "open", "gone", "failed"}]
      /\ toWorker \in Seq(Reports) /\ "close" \in Reports /\ state["connected"] \in BOOLEAN
  BY Kinded DEF Typed, TypeOK, Reports
<1>4. sock'[s] \in {"gone", "failed"} /\ \A r \in Socks : r # s => sock'[r] = sock[r]
  BY <1>2, <1>3
<1>5. Inside = {s}
  <2>1. s \in Inside
    BY DEF Inside
  <2>2. CASE cons # 0
    BY <2>1, <2>2 DEF Safe, OneInside
  <2>3. CASE cons = 0
    BY <2>1, <2>3 DEF Safe, OneInside
  <2>4. QED
    BY <2>2, <2>3
<1>6. Inside' = {}
  BY <1>4, <1>5 DEF Inside
<1>7. OneInside'
  BY <1>2, <1>4, <1>6 DEF Safe, OneInside
<1>8. ~OnItsWay("open", toWorker')
  BY <1>2, <1>3, OnItsWayWritten
<1>9. RegistersNext'
  BY <1>2, <1>8 DEF RegistersNext
<1>10. BelievesConnected'
  <2>1. Confirms(toWorker', state["connected"])
    BY <1>2, <1>3, ConfirmsWritten DEF Safe, BelievesConnected
  <2>2. QED
    BY <1>2, <1>8, <2>1 DEF Safe, BelievesConnected
<1>11. ClosesTheRightOne'
  BY <1>2, <1>6 DEF Safe, ClosesTheRightOne
<1>12. QED
  BY <1>7, <1>9, <1>10, <1>11 DEF Safe

\* The server welcomes a connection.
LEMMA WelcomesSafely ==
    ASSUME Typed, Safe, Undisturbed, Undisturbed', NEW s \in Socks, Welcome(s)
    PROVE  Safe'
<1>1. /\ sock[s] = "open" /\ ircd[s] = "registering"
      /\ ircd' = [ircd EXCEPT ![s] = "registered"] /\ toWorker' = Append(toWorker, "welcome")
      /\ UNCHANGED <<state, toSockets, sock, cons, buffered, ended>>
  BY DEF Welcome, listed
<1>2. /\ ircd \in [Socks -> {"new", "registering", "registered", "joined"}]
      /\ toWorker \in Seq(Reports) /\ "welcome" \in Reports /\ state["connected"] \in BOOLEAN
      /\ cons # 0 => cons \in Socks
  BY Kinded DEF Typed, TypeOK, Reports
<1>3. Inside' = Inside
  BY <1>1 DEF Inside
<1>4. \A r \in Socks : ircd[r] = "new" => ircd'[r] = "new"
  BY <1>1, <1>2
<1>5. \A m \in {"open", "close"} : OnItsWay(m, toWorker') <=> OnItsWay(m, toWorker)
  <2>1. \A m : OnItsWay(m, toWorker') <=> OnItsWay(m, toWorker) \/ m = "welcome"
    BY <1>1, <1>2, OnItsWayWritten
  <2>2. QED
    BY <2>1
<1>6. OneInside'
  BY <1>1, <1>3, <1>4 DEF Safe, OneInside
<1>7. RegistersNext'
  <2>1. /\ Once("open", toWorker) => Once("open", toWorker')
        /\ NoneBehind("open", "close", toWorker) => NoneBehind("open", "close", toWorker')
    BY <1>1, <1>2, OnceWritten, NoneBehindWritten
  <2>2. QED
    BY <1>1, <1>2, <1>4, <1>5, <2>1 DEF Safe, RegistersNext
<1>8. BelievesConnected'
  <2>1. Confirms(toWorker', state["connected"])
    BY <1>1, <1>2, ConfirmsWritten DEF Safe, BelievesConnected
  <2>2. QED
    BY <1>1, <1>5, <2>1 DEF Safe, BelievesConnected
<1>9. ClosesTheRightOne'
  BY <1>1, <1>3, <1>5 DEF Safe, ClosesTheRightOne
<1>10. QED
  BY <1>6, <1>7, <1>8, <1>9 DEF Safe

\* What the world did stays done.
LEMMA HistoryStays ==
    ASSUME Typed, [Next]_vars
    PROVE  happened \subseteq happened' /\ (repeated => repeated')
<1>1. CASE WorkerHandles
  BY <1>1, Handled
<1>2. CASE SocketsHandle
  BY <1>2 DEF SocketsHandle, SocketsOpen, SocketsClose, SocketsWrite, NewSocket, listed, world
<1>3. CASE TimerFires \/ Save \/ Crash \/ Stop \/ UserConnects \/ UserDisconnects
  BY <1>3 DEF TimerFires, Save, Crash, Stop, UserConnects, UserDisconnects, Happens, Restart, layer,
              listed, world
<1>4. ASSUME NEW s \in Socks,
             \/ Connect(s) \/ Connected(s) \/ ConnectFails(s) \/ Ends(s) \/ Welcome(s)
             \/ ServerDrops(s) \/ RegistrationTimeout(s)
      PROVE  happened \subseteq happened' /\ (repeated => repeated')
  BY <1>4 DEF Connect, Connected, ConnectFails, Ends, Welcome, ServerDrops, RegistrationTimeout,
              Closed, Happens, listed, world
<1>5. CASE UNCHANGED vars
  BY <1>5 DEF vars, layer, listed, world
<1>6. QED
  BY <1>1, <1>2, <1>3, <1>4, <1>5 DEF Next

\* The parts about commands to a worker that lives are kept by every step.
LEMMA SafeStep ==
    ASSUME Typed, TurnsFollow, Safe, [Next]_vars
    PROVE  Safe'
<1> SUFFICES ASSUME Undisturbed'
             PROVE  Safe'
  BY DEF Safe, OneInside, RegistersNext, BelievesConnected, ClosesTheRightOne
<1>1. Undisturbed
  BY HistoryStays DEF Undisturbed
<1>2. ASSUME UNCHANGED <<state, toSockets, toWorker, sock, cons, buffered, ended, ircd>>
      PROVE  Safe'
  <2>1. Inside' = Inside
    BY <1>2 DEF Inside
  <2>2. OneInside' /\ RegistersNext'
    BY <1>1, <1>2, <2>1 DEF Safe, OneInside, RegistersNext
  <2>3. BelievesConnected' /\ ClosesTheRightOne'
    BY <1>1, <1>2, <2>1 DEF Safe, BelievesConnected, ClosesTheRightOne
  <2>4. QED
    BY <2>2, <2>3 DEF Safe
<1>3. CASE WorkerHandles
  BY <1>1, <1>3, HandlesSafely
<1>4. CASE TimerFires
  <2>1. UNCHANGED <<state, toWorker, sock, cons, buffered, ended, ircd>>
    BY <1>4 DEF TimerFires, layer, listed
  <2>2. CASE state["connected"]
    BY <1>2, <1>4, <2>1, <2>2 DEF TimerFires
  <2>3. CASE ~state["connected"]
    BY <1>1, <1>4, <2>1, <2>3, AsksSafely DEF TimerFires
  <2>4. QED
    BY <2>2, <2>3
<1>5. CASE Save
  BY <1>2, <1>5 DEF Save, layer, listed
<1>6. CASE Crash \/ Stop
  BY <1>6 DEF Crash, Stop, Happens, Undisturbed
<1>7. CASE UserConnects
  <2>1. /\ UNCHANGED <<state, toWorker, sock, cons, buffered, ended, ircd>>
        /\ toSockets' = Append(toSockets, "open") /\ ~state["connected"]
    BY <1>7 DEF UserConnects, layer, listed
  <2>2. QED
    BY <1>1, <2>1, AsksSafely
<1>8. CASE UserDisconnects
  BY <1>1, <1>8, DisconnectsSafely
<1>9. CASE SocketsHandle
  BY <1>1, <1>9, ServesSafely
<1>10. ASSUME NEW s \in Socks, Connect(s)
       PROVE  Safe'
  BY <1>1, <1>10, ConnectsSafely
<1>11. ASSUME NEW s \in Socks, Connected(s)
       PROVE  Safe'
  BY <1>1, <1>11, IsConnectedSafely
<1>12. ASSUME NEW s \in Socks, ConnectFails(s)
       PROVE  Safe'
  <2>1. sock[s] = "connecting" /\ Closed(s)
    BY <1>12 DEF ConnectFails
  <2>2. ~OnItsWay("open", toWorker) /\ ~OnItsWay("register", toSockets)
    BY <1>1, <2>1, TheOneToBeFound
  <2>3. QED
    BY <1>1, <2>1, <2>2, ClosesSafely
<1>13. ASSUME NEW s \in Socks, Ends(s)
       PROVE  Safe'
  <2>1. sock[s] = "open" /\ Closed(s) /\ s \in Inside \intersect ended
    BY <1>13 DEF Ends, Inside
  <2>2. ~OnItsWay("open", toWorker) /\ ~OnItsWay("register", toSockets)
    BY <1>1, <2>1 DEF Safe, ClosesTheRightOne, RegistersNext
  <2>3. QED
    BY <1>1, <2>1, <2>2, ClosesSafely
<1>14. ASSUME NEW s \in Socks, Welcome(s)
       PROVE  Safe'
  BY <1>1, <1>14, WelcomesSafely
<1>15. ASSUME NEW s \in Socks, ServerDrops(s)
       PROVE  Safe'
  <2>1. sock[s] = "open" /\ Closed(s) /\ ircd[s] \in {"registered", "joined"} /\ s \in Inside
    BY <1>15 DEF ServerDrops, Happens, Undisturbed, Inside
  <2>2. cons # 0 => s = cons
    BY <1>1, <2>1 DEF Safe, OneInside
  <2>3. ~OnItsWay("open", toWorker) /\ ~OnItsWay("register", toSockets)
    BY <1>1, <2>1, <2>2 DEF Safe, RegistersNext
  <2>4. QED
    BY <1>1, <2>1, <2>3, ClosesSafely
<1>16. ASSUME NEW s \in Socks, RegistrationTimeout(s)
       PROVE  Safe'
  <2>1. /\ sock[s] = "open" /\ Closed(s)
        /\ ~OnItsWay("open", toWorker) /\ ~OnItsWay("register", toSockets)
    BY <1>16 DEF RegistrationTimeout, OnItsWay
  <2>2. QED
    BY <1>1, <2>1, ClosesSafely
<1>17. CASE UNCHANGED vars
  BY <1>2, <1>17 DEF vars, layer, listed
<1>18. QED
  BY <1>3, <1>4, <1>5, <1>6, <1>7, <1>8, <1>9, <1>10, <1>11, <1>12, <1>13, <1>14, <1>15, <1>16,
     <1>17 DEF Next

-----------------------------------------------------------------------------
(* Turns, and what holds without commands.                                 *)

\* Sockets wait for one turn and are disposed of once.
LEMMA TurnsStep ==
    ASSUME Typed, TurnsFollow, [Next]_vars
    PROVE  TurnsFollow'
<1> SUFFICES ASSUME ~repeated'
             PROVE  /\ \A s \in Socks : turns'[s] = IF sock'[s] = "waiting" THEN 1 ELSE 0
                    /\ disposed' = {s \in Socks : sock'[s] \in {"gone", "failed"}}
  BY DEF TurnsFollow
<1>1. /\ ~repeated
      /\ \A s \in Socks : turns[s] = IF sock[s] = "waiting" THEN 1 ELSE 0
      /\ disposed = {s \in Socks : sock[s] \in {"gone", "failed"}}
  BY HistoryStays DEF TurnsFollow
<1>2. /\ sock \in [Socks -> {"unused", "waiting", "connecting", "open", "gone", "failed"}]
      /\ turns \in [Socks -> Nat]
  BY DEF Typed, TypeOK
<1>3. CASE UNCHANGED <<sock, turns, disposed>>
  BY <1>1, <1>3
<1>4. CASE WorkerHandles
  BY <1>3, <1>4, Handled
<1>5. CASE TimerFires \/ Save \/ Crash \/ Stop \/ UserConnects \/ UserDisconnects
  BY <1>3, <1>5 DEF TimerFires, Save, Crash, Stop, UserConnects, UserDisconnects, Restart, layer,
                    listed
<1>6. CASE SocketsHandle
  <2>1. CASE NewSocket /\ UNCHANGED disposed
    <3>1. PICK s \in Socks : /\ sock[s] = "unused" /\ sock' = [sock EXCEPT ![s] = "waiting"]
                             /\ turns' = [turns EXCEPT ![s] = 1]
      BY <2>1 DEF NewSocket
    <3>2. QED
      BY <1>1, <1>2, <2>1, <3>1
  <2>2. CASE repeated' = TRUE
    BY <2>2
  <2>3. QED
    BY <1>3, <1>6, <2>1, <2>2 DEF SocketsHandle, SocketsOpen, listed
<1>7. ASSUME NEW s \in Socks, Connect(s)
      PROVE  /\ \A r \in Socks : turns'[r] = IF sock'[r] = "waiting" THEN 1 ELSE 0
             /\ disposed' = {r \in Socks : sock'[r] \in {"gone", "failed"}}
  <2>1. sock[s] = "waiting" /\ turns[s] = 1
    BY <1>1, <1>7 DEF Connect
  <2>2. /\ sock' = [sock EXCEPT ![s] = "connecting"] /\ turns' = [turns EXCEPT ![s] = turns[s] - 1]
        /\ disposed' = disposed
    BY <1>7, <2>1 DEF Connect
  <2>3. QED
    BY <1>1, <1>2, <2>1, <2>2
<1>8. ASSUME NEW s \in Socks, Connected(s)
      PROVE  /\ \A r \in Socks : turns'[r] = IF sock'[r] = "waiting" THEN 1 ELSE 0
             /\ disposed' = {r \in Socks : sock'[r] \in {"gone", "failed"}}
  BY <1>1, <1>2, <1>8 DEF Connected, listed
<1>9. ASSUME NEW s \in Socks, Welcome(s)
      PROVE  UNCHANGED <<sock, turns, disposed>>
  BY <1>9 DEF Welcome, listed
<1>10. ASSUME NEW s \in Socks,
              ConnectFails(s) \/ Ends(s) \/ ServerDrops(s) \/ RegistrationTimeout(s)
       PROVE  /\ \A r \in Socks : turns'[r] = IF sock'[r] = "waiting" THEN 1 ELSE 0
              /\ disposed' = {r \in Socks : sock'[r] \in {"gone", "failed"}}
  <2>1. /\ sock[s] \in {"connecting", "open"}
        /\ sock' = [sock EXCEPT ![s] = IF @ = "connecting" THEN "failed" ELSE "gone"]
        /\ disposed' = disposed \union {s} /\ turns' = turns
    BY <1>10 DEF ConnectFails, Ends, ServerDrops, RegistrationTimeout, Closed
  <2>2. QED
    BY <1>1, <1>2, <2>1
<1>11. CASE UNCHANGED vars
  BY <1>3, <1>11 DEF vars, layer, listed
<1>12. QED
  BY <1>3, <1>4, <1>5, <1>6, <1>7, <1>8, <1>9, <1>10, <1>11 DEF Next

\* Without commands the layer finds its socket after every step.
LEMMA CommandlessStep ==
    ASSUME Typed, TurnsFollow, Commandless, [Next]_vars
    PROVE  Commandless'
<1> SUFFICES ASSUME "command" \notin happened'
             PROVE  /\ ~OnItsWay("close", toSockets') /\ ended' = {}
                    /\ ~repeated' => Inside' = IF cons' = 0 THEN {} ELSE {cons'}
  BY DEF Commandless
<1>1. /\ ~OnItsWay("close", toSockets) /\ ended = {}
      /\ ~repeated => Inside = IF cons = 0 THEN {} ELSE {cons}
      /\ repeated => repeated'
  BY HistoryStays DEF Commandless
<1>2. /\ sock \in [Socks -> {"unused", "waiting", "connecting", "open", "gone", "failed"}]
      /\ toSockets \in Seq(Requests) /\ (cons # 0 => cons \in Socks) /\ 0 \notin Socks
  BY Kinded DEF Typed, TypeOK, Socks
<1>3. ASSUME NEW e \in Requests, e # "close"
      PROVE  ~OnItsWay("close", Append(toSockets, e))
  BY <1>1, <1>2, <1>3, OnItsWayWritten
<1>4. ASSUME UNCHANGED <<sock, cons>>
      PROVE  ~repeated' => Inside' = IF cons' = 0 THEN {} ELSE {cons'}
  BY <1>1, <1>4 DEF Inside
<1>5. CASE WorkerHandles
  <2>1. toSockets' \in {toSockets, Append(toSockets, "register"), Append(toSockets, "join")}
    BY <1>5, Handled DEF OnOpen, OnExisting, OnClose, OnWelcome
  <2>2. ~OnItsWay("close", toSockets')
    BY <1>1, <1>3, <2>1 DEF Requests
  <2>3. QED
    BY <1>1, <1>4, <1>5, <2>2, Handled
<1>6. CASE TimerFires
  <2>1. toSockets' \in {toSockets, Append(toSockets, "open")}
    BY <1>6 DEF TimerFires
  <2>2. ~OnItsWay("close", toSockets')
    BY <1>1, <1>3, <2>1 DEF Requests
  <2>3. QED
    BY <1>1, <1>4, <1>6, <2>2 DEF TimerFires, layer, listed
<1>7. CASE Save
  BY <1>1, <1>4, <1>7 DEF Save, layer, listed
<1>8. CASE Crash \/ Stop
  <2>1. toSockets' = Append(toSockets, "open")
    BY <1>8 DEF Crash, Stop, Restart
  <2>2. ~OnItsWay("close", toSockets')
    BY <1>3, <2>1 DEF Requests
  <2>3. QED
    BY <1>1, <1>4, <1>8, <2>2 DEF Crash, Stop, Restart, layer, listed
<1>9. CASE UserConnects \/ UserDisconnects
  BY <1>9 DEF UserConnects, UserDisconnects, Happens
<1>10. CASE SocketsHandle
  <2>1. /\ toSockets # <<>> /\ toSockets' = Tail(toSockets)
    BY <1>10 DEF SocketsHandle
  <2>2. ~OnItsWay("close", toSockets') /\ Head(toSockets) # "close"
    BY <1>1, <1>2, <2>1, OnItsWayRead
  <2>3. ended' = {}
    BY <1>1, <1>10, <2>2 DEF SocketsHandle
  <2>4. CASE UNCHANGED <<sock, cons>>
    BY <1>4, <2>2, <2>3, <2>4
  <2>5. CASE cons = 0 /\ NewSocket /\ UNCHANGED repeated
    <3>1. PICK s \in Socks : sock[s] = "unused" /\ sock' = [sock EXCEPT ![s] = "waiting"]
                             /\ cons' = s
      BY <2>5 DEF NewSocket
    <3>2. sock'[s] = "waiting" /\ \A r \in Socks : r # s => sock'[r] = sock[r]
      BY <1>2, <3>1
    <3>3. ~repeated' => Inside' = {s}
      BY <1>1, <2>5, <3>2 DEF Inside
    <3>4. QED
      BY <1>2, <2>2, <2>3, <3>1, <3>3
  <2>6. QED
    BY <1>10, <2>2, <2>4, <2>5 DEF SocketsHandle, SocketsOpen, listed
<1>11. ASSUME NEW s \in Socks, Connect(s)
       PROVE  /\ ~OnItsWay("close", toSockets') /\ ended' = {}
              /\ ~repeated' => Inside' = IF cons' = 0 THEN {} ELSE {cons'}
  <2>1. ended' = {} /\ UNCHANGED <<toSockets, cons, repeated>>
    BY <1>1, <1>11 DEF Connect
  <2>2. ASSUME ~repeated
        PROVE  Inside' = Inside
    <3>1. sock[s] = "waiting"
      BY <1>11, <2>2 DEF Connect, TurnsFollow
    <3>2. sock' = [sock EXCEPT ![s] = "connecting"]
      BY <1>11, <3>1 DEF Connect
    <3>3. QED
      BY <1>2, <3>1, <3>2 DEF Inside
  <2>3. QED
    BY <1>1, <2>1, <2>2
<1>12. ASSUME NEW s \in Socks, Connected(s)
       PROVE  /\ ~OnItsWay("close", toSockets') /\ ended' = {}
              /\ ~repeated' => Inside' = IF cons' = 0 THEN {} ELSE {cons'}
  <2>1. /\ UNCHANGED <<toSockets, cons, repeated, ended>>
        /\ sock[s] = "connecting" /\ sock' = [sock EXCEPT ![s] = "open"]
    BY <1>12 DEF Connected, listed
  <2>2. Inside' = Inside
    BY <1>2, <2>1 DEF Inside
  <2>3. QED
    BY <1>1, <2>1, <2>2
<1>13. ASSUME NEW s \in Socks, Welcome(s)
       PROVE  UNCHANGED <<toSockets, ended, sock, cons>>
  BY <1>13 DEF Welcome, listed
<1>14. ASSUME NEW s \in Socks,
              ConnectFails(s) \/ Ends(s) \/ ServerDrops(s) \/ RegistrationTimeout(s)
       PROVE  /\ ~OnItsWay("close", toSockets') /\ ended' = {}
              /\ ~repeated' => Inside' = IF cons' = 0 THEN {} ELSE {cons'}
  <2>1. /\ UNCHANGED <<toSockets, repeated, ended>>
        /\ sock[s] \in {"connecting", "open"}
        /\ sock' = [sock EXCEPT ![s] = IF @ = "connecting" THEN "failed" ELSE "gone"]
        /\ cons' = IF s \in disposed THEN cons ELSE 0
    BY <1>14 DEF ConnectFails, Ends, ServerDrops, RegistrationTimeout, Closed
  <2>2. ASSUME ~repeated
        PROVE  cons' = 0 /\ Inside' = {}
    <3>1. s \notin disposed
      BY <2>1, <2>2 DEF TurnsFollow
    <3>2. s \in Inside
      BY <2>1 DEF Inside
    <3>3. Inside = {s}
      BY <1>1, <2>2, <3>2
    <3>4. sock'[s] \in {"gone", "failed"} /\ \A r \in Socks : r # s => sock'[r] = sock[r]
      BY <1>2, <2>1
    <3>5. QED
      BY <2>1, <3>1, <3>3, <3>4 DEF Inside
  <2>3. QED
    BY <1>1, <2>1, <2>2
<1>15. CASE UNCHANGED vars
  BY <1>1, <1>4, <1>15 DEF vars, layer, listed
<1>16. QED
  BY <1>1, <1>4, <1>5, <1>6, <1>7, <1>8, <1>9, <1>10, <1>11, <1>12, <1>13, <1>14, <1>15 DEF Next

-----------------------------------------------------------------------------
(* A connection that is left alone.                                        *)

Attended == OneAttempt /\ RegisteredOrClosed

\* The worker handles a line of a connection that is left alone.
LEMMA HandledAlone ==
    ASSUME Typed, Commandless, Attended, LeftAlone, LeftAlone', WorkerHandles
    PROVE  Attended'
<1>1. /\ toWorker # <<>> /\ toWorker' = Tail(toWorker)
      /\ UNCHANGED <<sock, cons, repeated, ircd>>
      /\ toSockets \in Seq(Requests) /\ toWorker \in Seq(Reports)
      /\ state \in [Flags -> BOOLEAN]
  BY Handled, Kinded
<1> DEFINE h == Head(toWorker)
<1>2. \A m : OnItsWay(m, toWorker) <=> h = m \/ OnItsWay(m, toWorker')
  BY <1>1, OnItsWayRead
<1>3. /\ Once("close", toWorker') /\ (h = "close" => ~OnItsWay("close", toWorker'))
      /\ ~OnItsWay("existing", toWorker') /\ h # "existing"
  BY <1>1, <1>2, OnceRead DEF Attended, OneAttempt
<1>4. Followed("welcome", "close", toWorker) =>
         /\ Followed("welcome", "close", toWorker')
         /\ h = "welcome" => OnItsWay("close", toWorker')
  BY <1>1, FollowedRead
<1>5. /\ Registered' <=> Registered
      /\ Registered \/ Followed("welcome", "close", toWorker')
  BY <1>1, <1>4 DEF Registered, Attended, RegisteredOrClosed
<1>6. ASSUME toSockets' \in {toSockets, Append(toSockets, "register"), Append(toSockets, "join")}
      PROVE  /\ Once("open", toSockets')
             /\ OnItsWay("open", toSockets') <=> OnItsWay("open", toSockets)
  <2>1. Once("open", toSockets)
    BY DEF Attended, OneAttempt
  <2>2. ASSUME NEW e \in {"register", "join"}
        PROVE  /\ Once("open", Append(toSockets, e))
               /\ OnItsWay("open", Append(toSockets, e)) <=> OnItsWay("open", toSockets)
    <3>1. e \in Requests /\ e # "open"
      BY DEF Requests
    <3>2. QED
      BY <1>1, <2>1, <3>1, OnceWritten, OnItsWayWritten
  <2>3. QED
    BY <1>6, <2>1, <2>2
<1>7. ASSUME h # "close", timers' = timers,
             toSockets' \in {toSockets, Append(toSockets, "register"), Append(toSockets, "join")}
      PROVE  OneAttempt'
  BY <1>1, <1>2, <1>3, <1>6, <1>7 DEF Attended, OneAttempt
<1>8. CASE h = "open" /\ OnOpen
  <2>1. /\ state'["netRegistered"] = FALSE /\ state'["reconnecting"] = FALSE
        /\ timers' = timers /\ toSockets' = Append(toSockets, "register")
    BY <1>1, <1>8 DEF OnOpen, Set, Flags
  <2>2. RegisteredOrClosed'
    BY <1>5, <2>1 DEF RegisteredOrClosed
  <2>3. QED
    BY <1>7, <1>8, <2>1, <2>2 DEF Attended
<1>9. CASE h = "welcome" /\ OnWelcome
  <2>1. /\ state'["connected"] = state["connected"]
        /\ state'["reconnecting"] = state["reconnecting"]
        /\ timers' = timers /\ toSockets' \in {toSockets, Append(toSockets, "join")}
    BY <1>1, <1>9 DEF OnWelcome, Set, Flags
  <2>2. Registered \/ OnItsWay("close", toWorker')
    BY <1>4, <1>9 DEF Attended, RegisteredOrClosed
  <2>3. RegisteredOrClosed'
    BY <1>5, <2>1, <2>2 DEF Attended, RegisteredOrClosed
  <2>4. QED
    BY <1>7, <1>9, <2>1, <2>3 DEF Attended
<1>10. CASE h = "close" /\ OnClose
  <2>1. /\ timers = 0 /\ cons = 0 /\ ~OnItsWay("open", toSockets)
    BY <1>2, <1>10 DEF Attended, OneAttempt
  <2>2. state["connected"] => ~state["reconnecting"]
    BY DEF Attended, RegisteredOrClosed
  <2>3. state'["connected"] = FALSE /\ timers' \in {0, 1} /\ toSockets' = toSockets
    <3>1. toSockets' = toSockets
      BY <1>10 DEF OnClose
    <3>2. CASE state["reconnecting"] /\ Reconnect(state)
      BY <1>1, <2>1, <2>2, <3>1, <3>2 DEF Reconnect, Set, Flags
    <3>3. CASE Reconnect([f \in Flags |-> f = "reconnecting" /\ state[f]])
      <4> DEFINE closed == [f \in Flags |-> f = "reconnecting" /\ state[f]]
      <4>1. closed["connected"] = FALSE /\ DOMAIN closed = Flags
        BY DEF Flags
      <4>2. state' = [closed EXCEPT !["reconnecting"] = TRUE] /\ timers' = timers + 1
        BY <3>3 DEF Reconnect, Set
      <4> HIDE DEF closed
      <4>3. state'["connected"] = closed["connected"]
        BY <4>1, <4>2 DEF Flags
      <4>4. QED
        BY <2>1, <3>1, <4>1, <4>2, <4>3
    <3>4. CASE Set([f \in Flags |-> f = "reconnecting" /\ state[f]]) /\ timers' = timers
      BY <2>1, <3>1, <3>4 DEF Set, Flags
    <3>5. QED
      BY <1>10, <3>2, <3>3, <3>4 DEF OnClose
  <2>4. OneAttempt'
    BY <1>1, <1>3, <1>6, <1>10, <2>1, <2>3 DEF Attended, OneAttempt
  <2>5. RegisteredOrClosed'
    BY <1>5, <2>3 DEF RegisteredOrClosed
  <2>6. QED
    BY <2>4, <2>5 DEF Attended
<1>11. QED
  BY <1>3, <1>8, <1>9, <1>10, Handled

\* The sockets layer handles a request for one.
LEMMA ServedAlone ==
    ASSUME Typed, Commandless, Attended, LeftAlone, LeftAlone', SocketsHandle
    PROVE  Attended'
<1>1. /\ toSockets # <<>> /\ toSockets' = Tail(toSockets) /\ UNCHANGED <<state, timers>>
      /\ toSockets \in Seq(Requests)
  BY Kinded DEF SocketsHandle
<1> DEFINE h == Head(toSockets)
<1>2. \A m : OnItsWay(m, toSockets) <=> h = m \/ OnItsWay(m, toSockets')
  BY <1>1, OnItsWayRead
<1>3. Once("open", toSockets') /\ (h = "open" => ~OnItsWay("open", toSockets'))
  BY <1>1, OnceRead DEF Attended, OneAttempt
<1>4. h # "close"
  BY <1>2 DEF Commandless, LeftAlone
<1>5. CASE h = "open" /\ SocketsOpen
  <2>1. timers = 0 /\ cons = 0 /\ ~OnItsWay("close", toWorker)
    BY <1>2, <1>5 DEF Attended, OneAttempt
  <2>2. UNCHANGED <<toWorker, repeated>>
    BY <1>5, <2>1 DEF SocketsOpen
  <2>3. OneAttempt'
    BY <1>1, <1>3, <1>5, <2>1, <2>2 DEF Attended, OneAttempt
  <2>4. ~Registered
    BY <2>1 DEF Registered
  <2>5. RegisteredOrClosed'
    BY <1>1, <2>2, <2>4 DEF Attended, RegisteredOrClosed
  <2>6. QED
    BY <2>3, <2>5 DEF Attended
<1>6. CASE SocketsWrite(h) /\ UNCHANGED <<sock, listed, ended, toWorker>>
  <2>1. OneAttempt'
    BY <1>1, <1>2, <1>3, <1>6 DEF listed, Attended, OneAttempt
  <2>2. Registered => Registered'
    <3> SUFFICES ASSUME Registered
                 PROVE  ircd'[cons] \in {"registered", "joined"}
      BY <1>6 DEF listed, Registered
    <3>1. CASE ircd' = ircd
      BY <3>1 DEF Registered
    <3>2. CASE ServerGets(cons, h)
      <4>1. cons \in Socks /\ ircd \in [Socks -> {"new", "registering", "registered", "joined"}]
        BY Kinded DEF Registered, Typed, TypeOK
      <4>2. QED
        BY <3>2, <4>1 DEF ServerGets, Registered
    <3>3. QED
      BY <1>6, <3>1, <3>2 DEF SocketsWrite
  <2>3. RegisteredOrClosed'
    BY <1>1, <1>6, <2>2 DEF Attended, RegisteredOrClosed
  <2>4. QED
    BY <2>1, <2>3 DEF Attended
<1>7. QED
  BY <1>4, <1>5, <1>6 DEF SocketsHandle

\* A socket that waits, connects or is open is the one of the attempt.
LEMMA TheAttempt ==
    ASSUME Typed, Commandless, Attended, LeftAlone, NEW s \in Socks,
           sock[s] \in {"waiting", "connecting", "open"}
    PROVE  /\ cons = s /\ s # 0 /\ timers = 0
           /\ ~OnItsWay("open", toSockets) /\ ~OnItsWay("close", toWorker)
<1>1. s \in Inside /\ s # 0
  BY DEF Inside, Socks
<1>2. ~repeated
  BY DEF Attended, OneAttempt
<1>3. Inside = IF cons = 0 THEN {} ELSE {cons}
  BY <1>2 DEF Commandless, LeftAlone
<1>4. cons = s
  BY <1>1, <1>3
<1>5. timers \in Nat
  BY DEF Typed, TypeOK
<1>6. QED
  BY <1>1, <1>4, <1>5 DEF Attended, OneAttempt

\* The socket of one closes, for whatever reason.
LEMMA ClosesAlone ==
    ASSUME Typed, TurnsFollow, Commandless, Attended, LeftAlone, LeftAlone', NEW s \in Socks,
           Closed(s), sock[s] \in {"connecting", "open"}
    PROVE  Attended'
<1>1. /\ cons = s /\ s # 0 /\ timers = 0 /\ ~repeated
      /\ ~OnItsWay("open", toSockets) /\ ~OnItsWay("close", toWorker)
  BY TheAttempt DEF Attended, OneAttempt
<1>2. s \notin disposed
  BY <1>1 DEF TurnsFollow
<1>3. /\ toWorker' = Append(toWorker, "close") /\ cons' = 0
      /\ UNCHANGED <<state, timers, toSockets, repeated>>
  BY <1>2 DEF Closed
<1>4. toWorker \in Seq(Reports) /\ "close" \in Reports
  BY Kinded DEF Reports
<1>5. \A m : OnItsWay(m, toWorker') <=> OnItsWay(m, toWorker) \/ m = "close"
  BY <1>3, <1>4, OnItsWayWritten
<1>6. Once("close", toWorker')
  BY <1>1, <1>3, <1>4, OnceWritten DEF Attended, OneAttempt
<1>7. OneAttempt'
  BY <1>1, <1>3, <1>5, <1>6 DEF Attended, OneAttempt
<1>8. Followed("welcome", "close", toWorker')
  BY <1>3, <1>4, FollowedWritten
<1>9. RegisteredOrClosed'
  BY <1>3, <1>5, <1>8 DEF Attended, RegisteredOrClosed
<1>10. QED
  BY <1>7, <1>9 DEF Attended

\* The parts about a connection that is left alone are kept by every step.
LEMMA AttendedStep ==
    ASSUME Typed, TurnsFollow, Commandless, Attended, [Next]_vars
    PROVE  Attended'
<1> SUFFICES ASSUME LeftAlone'
             PROVE  Attended'
  BY DEF Attended, OneAttempt, RegisteredOrClosed
<1>1. LeftAlone
  BY HistoryStays DEF LeftAlone
<1>2. toSockets \in Seq(Requests) /\ toWorker \in Seq(Reports)
  BY Kinded
<1>3. ASSUME NEW e \in {"open", "welcome"}, toWorker' = Append(toWorker, e)
      PROVE  /\ \A m \in {"existing", "close"} : OnItsWay(m, toWorker') <=> OnItsWay(m, toWorker)
             /\ Once("close", toWorker')
  <2>1. e \in Reports
    BY DEF Reports
  <2>2. \A m : OnItsWay(m, toWorker') <=> OnItsWay(m, toWorker) \/ m = e
    BY <1>2, <1>3, <2>1, OnItsWayWritten
  <2>3. Once("close", toWorker')
    BY <1>1, <1>2, <1>3, <2>1, OnceWritten DEF Attended, OneAttempt
  <2>4. QED
    BY <2>2, <2>3
<1>4. ASSUME UNCHANGED <<state, timers, toSockets, toWorker, cons, repeated>>,
             Registered => Registered'
      PROVE  Attended'
  <2>1. OneAttempt'
    BY <1>1, <1>4 DEF Attended, OneAttempt
  <2>2. RegisteredOrClosed'
    BY <1>1, <1>4 DEF Attended, RegisteredOrClosed
  <2>3. QED
    BY <2>1, <2>2 DEF Attended
<1>5. CASE WorkerHandles
  BY <1>1, <1>5, HandledAlone
<1>6. CASE TimerFires
  <2>1. /\ timers = 1 /\ timers' = 0 /\ cons = 0 /\ ~OnItsWay("open", toSockets)
        /\ ~OnItsWay("close", toWorker)
    BY <1>1, <1>6 DEF TimerFires, Attended, OneAttempt
  <2>2. /\ toSockets' \in {toSockets, Append(toSockets, "open")}
        /\ UNCHANGED <<state, toWorker, cons, sock, ircd, repeated>>
    BY <1>6 DEF TimerFires, layer, listed
  <2>3. Once("open", toSockets')
    <3>1. Once("open", toSockets) /\ "open" \in Requests
      BY <1>1 DEF Attended, OneAttempt, Requests
    <3>2. QED
      BY <1>2, <2>1, <2>2, <3>1, OnceWritten
  <2>4. OneAttempt'
    BY <1>1, <2>1, <2>2, <2>3 DEF Attended, OneAttempt
  <2>5. Registered' <=> Registered
    BY <2>2 DEF Registered
  <2>6. RegisteredOrClosed'
    BY <1>1, <2>2, <2>5 DEF Attended, RegisteredOrClosed
  <2>7. QED
    BY <2>4, <2>6 DEF Attended
<1>7. CASE Save
  BY <1>4, <1>7 DEF Save, layer, listed, Registered
<1>8. CASE Crash \/ Stop \/ UserConnects \/ UserDisconnects
  BY <1>8 DEF Crash, Stop, UserConnects, UserDisconnects, Happens, LeftAlone
<1>9. CASE SocketsHandle
  BY <1>1, <1>9, ServedAlone
<1>10. ASSUME NEW s \in Socks, Connect(s)
       PROVE  Attended'
  <2>1. sock[s] = "waiting"
    BY <1>1, <1>10 DEF Connect, TurnsFollow, Attended, OneAttempt
  <2>2. cons = s
    BY <1>1, <2>1, TheAttempt
  <2>3. ~Registered
    BY <2>1, <2>2 DEF Registered
  <2>4. QED
    BY <1>4, <1>10, <2>3 DEF Connect
<1>11. ASSUME NEW s \in Socks, Connected(s)
       PROVE  Attended'
  <2>1. /\ sock[s] = "connecting" /\ toWorker' = Append(toWorker, "open")
        /\ UNCHANGED <<state, timers, toSockets, cons, repeated>>
    BY <1>11 DEF Connected, listed
  <2>2. cons = s
    BY <1>1, <2>1, TheAttempt
  <2>3. ~Registered
    BY <2>1, <2>2 DEF Registered
  <2>4. OneAttempt'
    BY <1>1, <1>3, <2>1 DEF Attended, OneAttempt
  <2>5. Followed("welcome", "close", toWorker')
    <3>1. Followed("welcome", "close", toWorker) /\ "open" \in Reports
      BY <1>1, <2>3 DEF Attended, RegisteredOrClosed, Reports
    <3>2. QED
      BY <1>2, <2>1, <3>1, FollowedWritten
  <2>6. RegisteredOrClosed'
    BY <1>1, <1>3, <2>1, <2>3, <2>5 DEF Attended, RegisteredOrClosed
  <2>7. QED
    BY <2>4, <2>6 DEF Attended
<1>12. ASSUME NEW s \in Socks, Welcome(s)
       PROVE  Attended'
  <2>1. /\ sock[s] = "open" /\ ircd' = [ircd EXCEPT ![s] = "registered"]
        /\ toWorker' = Append(toWorker, "welcome")
        /\ UNCHANGED <<state, timers, toSockets, sock, cons, repeated>>
    BY <1>12 DEF Welcome, listed
  <2>2. cons = s /\ s # 0
    BY <1>1, <2>1, TheAttempt
  <2>3. ircd'[s] = "registered"
    BY <2>1 DEF Typed, TypeOK
  <2>4. Registered'
    BY <2>1, <2>2, <2>3 DEF Registered
  <2>5. OneAttempt'
    BY <1>1, <1>3, <2>1 DEF Attended, OneAttempt
  <2>6. RegisteredOrClosed'
    BY <1>1, <2>1, <2>4 DEF Attended, RegisteredOrClosed
  <2>7. QED
    BY <2>5, <2>6 DEF Attended
<1>13. ASSUME NEW s \in Socks,
              ConnectFails(s) \/ Ends(s) \/ ServerDrops(s) \/ RegistrationTimeout(s)
       PROVE  Attended'
  <2>1. Closed(s) /\ sock[s] \in {"connecting", "open"}
    BY <1>13 DEF ConnectFails, Ends, ServerDrops, RegistrationTimeout
  <2>2. QED
    BY <1>1, <2>1, ClosesAlone
<1>14. CASE UNCHANGED vars
  BY <1>4, <1>14 DEF vars, layer, listed, Registered
<1>15. QED
  BY <1>5, <1>6, <1>7, <1>8, <1>9, <1>10, <1>11, <1>12, <1>13, <1>14 DEF Next

-----------------------------------------------------------------------------
(* The theorems.                                                           *)

\* The invariant holds when the worker has asked for the first connection.
LEMMA InitIInv ==
    ASSUME Init
    PROVE  IInv
<1>1. /\ toSockets = <<"open">> /\ toWorker = <<>> /\ sock = [s \in Socks |-> "unused"]
      /\ cons = 0 /\ turns = [s \in Socks |-> 0] /\ ~repeated /\ timers = 0
      /\ disposed = {} /\ buffered = {} /\ ended = {} /\ ircd = [s \in Socks |-> "new"]
  BY DEF Init
<1>2. /\ toSockets \in Seq(Requests) /\ Len(toSockets) = 1 /\ toSockets[1] = "open"
      /\ toWorker \in Seq(Reports)
  BY <1>1, EmptySeq DEF Requests
<1>3. /\ \A m : ~OnItsWay(m, toWorker)
      /\ \A m : OnItsWay(m, toSockets) => m = "open"
  BY <1>1, <1>2, NothingOnItsWay DEF OnItsWay
<1>4. /\ state["connected"] = FALSE /\ state \in [Flags -> BOOLEAN]
      /\ row \in [Flags -> BOOLEAN] /\ dirty \in BOOLEAN
  BY DEF Init, Flags
<1>5. Inside = {}
  BY <1>1 DEF Inside
<1>6. Typed
  <2>1. turns \in [Socks -> Nat] /\ cons \in 0..MaxSocks /\ timers \in Nat
    BY <1>1, LinkBounds
  <2>2. sock \in [Socks -> {"unused", "waiting", "connecting", "open", "gone", "failed"}]
    BY <1>1
  <2>3. ircd \in [Socks -> {"new", "registering", "registered", "joined"}]
    BY <1>1
  <2>4. disposed \subseteq Socks /\ buffered \subseteq Socks
    BY <1>1
  <2>5. ended \subseteq Socks /\ ended \subseteq {s \in Socks : sock[s] # "unused"}
    BY <1>1
  <2>6. repeated \in BOOLEAN
    BY DEF Init
  <2>7. TypeOK
    BY <1>2, <1>4, <2>1, <2>2, <2>3, <2>4, <2>5, <2>6 DEF TypeOK, Requests, Reports
  <2>8. QED
    BY <1>1, <2>5, <2>7 DEF Typed
<1>7. TurnsFollow /\ Commandless
  BY <1>1, <1>3, <1>5 DEF TurnsFollow, Commandless
<1>8. OneInside /\ RegistersNext
  BY <1>1, <1>3, <1>5 DEF OneInside, RegistersNext
<1>9. Confirms(toWorker, state["connected"])
  BY <1>3 DEF Confirms, OnItsWay
<1>10. BelievesConnected
  BY <1>1, <1>4, <1>9 DEF BelievesConnected
<1>11. Separated(toSockets)
  BY <1>2 DEF Separated
<1>12. ClosesTheRightOne
  BY <1>1, <1>5, <1>11 DEF ClosesTheRightOne
<1>13. OneAttempt
  BY <1>1, <1>2, <1>3 DEF OneAttempt, Once, OnItsWay
<1>14. RegisteredOrClosed
  BY <1>3, <1>4, FollowedAbsent DEF RegisteredOrClosed
<1>15. QED
  BY <1>6, <1>7, <1>8, <1>10, <1>12, <1>13, <1>14 DEF IInv

\* The parts of the invariant hold in every reachable state.
THEOREM Invariance == Spec => []IInv
<1>1. IInv /\ [Next]_vars => IInv'
  <2> SUFFICES ASSUME IInv, [Next]_vars
               PROVE  IInv'
    OBVIOUS
  <2>1. Typed /\ TurnsFollow /\ Commandless /\ Safe /\ Attended
    BY DEF IInv, Safe, Attended
  <2>2. Typed' /\ TurnsFollow' /\ Commandless'
    BY <2>1, TypedStep, TurnsStep, CommandlessStep
  <2>3. Safe' /\ Attended'
    BY <2>1, SafeStep, AttendedStep
  <2>4. QED
    BY <2>2, <2>3 DEF IInv, Safe, Attended
<1>2. QED
  BY <1>1, InitIInv, PTL DEF Spec

\* Every variable keeps its type.
THEOREM TypeCorrect == Spec => []TypeOK
<1>1. IInv => TypeOK
  BY DEF IInv, Typed
<1>2. QED
  BY <1>1, Invariance, PTL

\* The sockets layer always knows the only connection to the network, as long as no socket is
\* given a second turn (sockets.js:85), when workers restart, and when the user gives commands to
\* a worker that lives over connections that get registered.
THEOREM OneConnection == Spec => []OneSocketPerTurn
<1>1. IInv => OneSocketPerTurn
  <2> SUFFICES ASSUME IInv, ~repeated,
                      \/ "command" \notin happened
                      \/ happened \intersect {"abort", "crash", "stop"} = {}
               PROVE  OneLiveSocket
    BY DEF OneSocketPerTurn, OneSocketUnlessRepeated
  <2>1. Live = Inside \ ended
    BY DEF Live, Inside
  <2>2. CASE "command" \notin happened
    BY <2>1, <2>2 DEF IInv, Commandless, OneLiveSocket
  <2>3. CASE happened \intersect {"abort", "crash", "stop"} = {}
    BY <2>1, <2>3 DEF IInv, Undisturbed, OneInside, OneLiveSocket
  <2>4. QED
    BY <2>2, <2>3
<1>2. QED
  BY <1>1, Invariance, PTL

\* A connection that the user and the operator leave alone is not taken for registered when it is
\* not (connectionstate.js:171), however it is lost and made again.
THEOREM NotRegisteredTooEarly == Spec => []RegisteredWhenLeftAlone
<1>1. IInv => RegisteredWhenLeftAlone
  <2> SUFFICES ASSUME IInv, LeftAlone, state["netRegistered"], state["connected"], toWorker = <<>>
               PROVE  \E s \in Socks : sock[s] = "open" /\ ircd[s] \in {"registered", "joined"}
    BY DEF RegisteredWhenLeftAlone, RegisteredWhenWelcomed, LeftAlone
  <2>1. ~OnItsWay("close", toWorker)
    BY NothingOnItsWay
  <2>2. Registered
    BY <2>1 DEF IInv, RegisteredOrClosed
  <2>3. cons \in Socks
    BY <2>2, Kinded DEF IInv, Registered
  <2>4. QED
    BY <2>2, <2>3 DEF Registered
<1>2. QED
  BY <1>1, Invariance, PTL

=============================================================================
