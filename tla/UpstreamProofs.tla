--------------------------- MODULE UpstreamProofs ---------------------------
(***************************************************************************)
(* Proofs about the two models of upstreamcommands.js.                     *)
(*                                                                         *)
(* CapNegotiation, for every set of capabilities, every wish list and      *)
(* every bound: what the worker believes to be enabled is what the server  *)
(* has enabled, and a registration that has to log in does not go on       *)
(* before it has.                                                          *)
(*                                                                         *)
(* ChannelView, for every set of channels and nicks and every bound: the   *)
(* channels that are joined survive a worker that is stopped, and a        *)
(* channel is known exactly once a NAMES list of it was seen from start to *)
(* end by a worker that met no list in its middle before.                  *)
(***************************************************************************)
EXTENDS CapNegotiation, ChannelView, FiniteSetTheorems, SequenceTheorems, TLAPS

Questions == {"LS", "REQ", "LIST", "END", "PLAIN", "LOGIN", "CLOSE"}
Answers == Replies \union {"NAK", "NEW", "DEL", "+", "903", "904", "376", "close"}
Written == [cmd : Questions, caps : SUBSET Caps, more : BOOLEAN]
Lined == [cmd : Answers, caps : SUBSET Caps, more : BOOLEAN]

Typed ==
    /\ TypeOK
    /\ toServer \in Seq(Written) /\ toWorker \in Seq(Lined)
    /\ {closed, lateAck, cut, earlyNew} \subseteq BOOLEAN
    /\ \A i \in 1..Len(toWorker) : toWorker[i].more => toWorker[i].cmd \in Replies

\* A close is the last of a connection, and nothing is on its way from one that is closed.
LastIsClose ==
    /\ closed => toWorker = <<>> /\ ~alive /\ ~registered
    /\ \A i \in 1..Len(toWorker) :
          toWorker[i].cmd = "close" => i = Len(toWorker) /\ ~alive

\* The lines of one reply are neighbours.
Paired(lines) ==
    \A i \in 1..Len(lines) :
        lines[i].more => /\ i < Len(lines) /\ ~lines[i + 1].more
                         /\ lines[i + 1].cmd = lines[i].cmd

Pairs == alive => Paired(toWorker)

\* What tempData holds of a LIST reply is of the one whose last line comes next.
PartialIsNext ==
    ~cut => /\ closed => partial["LIST"] = {}
            /\ alive /\ partial["LIST"] # {} => /\ toWorker # <<>>
                                                /\ Head(toWorker).cmd = "LIST"
                                                /\ ~Head(toWorker).more

Completes(lines) == \E i \in 1..Len(lines) : lines[i].cmd = "376"

\* The end of the MOTD follows the END that the server waited for.
HeldUntilEnd == alive => (held <=> ~registered /\ ~Completes(toWorker))

EndAfterList ==
    \A i \in 1..Len(toServer) :
        toServer[i].cmd = "END" => i = 1 \/ toServer[i - 1].cmd = "LIST"

\* The last line of a reply that replaces the set of capabilities.
Replaces(msg) == msg.cmd \in {"ACK", "LIST"} /\ ~msg.more

\* The capabilities that the reply with the i-th line as its last names.
Named(lines, parts, i) ==
    lines[i].caps \union
    (IF i = 1 THEN parts[lines[i].cmd]
     ELSE IF lines[i - 1].more THEN lines[i - 1].caps ELSE {})

\* What a DEL behind the i-th line takes away.
Withdrawn(lines, i) ==
    {c \in Caps : \E j \in 1..Len(lines) : /\ j > i /\ lines[j].cmd = "DEL"
                                           /\ c \in lines[j].caps}

\* Who knows `known` will know `on` when he has handled the lines: the last that replaces what is
\* known is the i-th of them, of a LIST reply, or there is none (i = 0).
SyncedBy(lines, parts, known, on, i) ==
    /\ i > 0 => lines[i].cmd = "LIST" /\ ~lines[i].more
    /\ \A j \in 1..Len(lines) : j > i => ~Replaces(lines[j])
    /\ (IF i = 0 THEN known ELSE Named(lines, parts, i)) \ Withdrawn(lines, i) = on

Synced(lines, parts, known, on) ==
    \E i \in 0..Len(lines) : SyncedBy(lines, parts, known, on, i)

\* An ACK will be handled after the MOTD.
AckIsLate(lines, ended) ==
    \E i \in 1..Len(lines) :
        /\ lines[i].cmd = "ACK" /\ ~lines[i].more
        /\ ended \/ \E j \in 1..Len(lines) : j < i /\ lines[j].cmd = "376"

EndsNext == toServer # <<>> /\ Head(toServer).cmd = "END"

StaysInSync ==
    alive /\ ~lateAck /\ ~cut /\ (held => EndsNext) =>
        Synced(toWorker, partial, caps, enabled) \/ AckIsLate(toWorker, registered)

\* The last line of a reply that the worker answers, or that ends the negotiation.
Asks(msg) == msg.cmd \in {"LS", "ACK", "NAK", "+", "903", "904"} /\ ~msg.more

\* Until the server is told to go on, only one thing is under way.
OneAtATime ==
    alive /\ held /\ ~earlyNew =>
        /\ \/ toServer \in {<<>>, EndNegotiation}
           \/ \E m \in Written : toServer = <<m>>
        /\ toServer # <<>> => \A i \in 1..Len(toWorker) : ~Asks(toWorker[i])
        /\ \A i, j \in 1..Len(toWorker) : Asks(toWorker[i]) /\ Asks(toWorker[j]) => i = j

\* When the server has enabled SASL, its ACK is still to be handled, or a login under way or done.
LoginIsDue ==
    alive /\ held /\ ~earlyNew /\ HasLogin /\ "sasl" \in enabled =>
        /\ \A i \in 1..Len(toServer) :
              /\ toServer[i].cmd \notin {"LS", "REQ"}
              /\ toServer[i].cmd \in {"LIST", "END"} => loggedIn
        /\ \A i \in 1..Len(toWorker) : Asks(toWorker[i]) =>
              /\ toWorker[i].cmd \notin {"LS", "NAK"}
              /\ toWorker[i].cmd = "ACK" => "sasl" \in Named(toWorker, partial, i)
              /\ toWorker[i].cmd = "903" => loggedIn

IInv ==
    /\ Typed /\ LastIsClose /\ Pairs /\ PartialIsNext /\ HeldUntilEnd /\ EndAfterList
    /\ StaysInSync /\ OneAtATime /\ LoginIsDue
-----------------------------------------------------------------------------
(* Lemmas about lines.                                                     *)

\* The lines without their first one.
LEMMA TailLines ==
    ASSUME NEW q \in Seq(Lined), q # <<>>
    PROVE  /\ Tail(q) \in Seq(Lined) /\ Len(q) \in Nat /\ Len(Tail(q)) \in Nat
           /\ Len(q) = Len(Tail(q)) + 1
           /\ \A i \in 1..Len(Tail(q)) : Tail(q)[i] = q[i + 1]
           /\ q[1] = Head(q) /\ q[1] \in Lined
<1>1. Len(q) \in Nat /\ Len(q) # 0
  BY EmptySeq, LenProperties
<1>2. QED
  BY <1>1, HeadTailProperties, LenProperties

\* The lines with others behind them.
LEMMA JoinLines ==
    ASSUME NEW S, NEW q \in Seq(S), NEW ls \in Seq(S)
    PROVE  /\ (q \o ls) \in Seq(S) /\ Len(q) \in Nat /\ Len(ls) \in Nat
           /\ Len(q \o ls) = Len(q) + Len(ls)
           /\ \A i \in 1..Len(q) : (q \o ls)[i] = q[i]
           /\ \A i \in 1..Len(ls) : (q \o ls)[Len(q) + i] = ls[i]
<1>1. Len(q) \in Nat /\ Len(ls) \in Nat
  BY LenProperties
<1>2. QED
  BY <1>1, ConcatProperties

LEMMA PairedTail ==
    ASSUME NEW q \in Seq(Lined), q # <<>>, Paired(q)
    PROVE  Paired(Tail(q))
<1> DEFINE t == Tail(q)
<1>1. /\ Len(q) \in Nat /\ Len(t) \in Nat /\ Len(q) = Len(t) + 1
      /\ \A i \in 1..Len(t) : t[i] = q[i + 1]
  BY TailLines
<1> HIDE DEF t
<1> SUFFICES ASSUME NEW i \in 1..Len(t), t[i].more
             PROVE  i < Len(t) /\ ~t[i + 1].more /\ t[i + 1].cmd = t[i].cmd
  BY DEF Paired, t
<1>2. q[i + 1].more /\ i + 1 \in 1..Len(q)
  BY <1>1
<1>3. i + 1 < Len(q) /\ ~q[(i + 1) + 1].more /\ q[(i + 1) + 1].cmd = q[i + 1].cmd
  BY <1>2 DEF Paired
<1>4. i < Len(t) /\ i + 1 \in 1..Len(t)
  BY <1>1, <1>3
<1>5. QED
  BY <1>1, <1>3, <1>4

LEMMA PairedJoin ==
    ASSUME NEW q \in Seq(Lined), NEW ls \in Seq(Lined), Paired(q), Paired(ls)
    PROVE  Paired(q \o ls)
<1> DEFINE r == q \o ls
<1>1. /\ Len(q) \in Nat /\ Len(ls) \in Nat /\ Len(r) = Len(q) + Len(ls)
      /\ \A i \in 1..Len(q) : r[i] = q[i]
      /\ \A i \in 1..Len(ls) : r[Len(q) + i] = ls[i]
  BY JoinLines
<1> HIDE DEF r
<1> SUFFICES ASSUME NEW i \in 1..Len(r), r[i].more
             PROVE  i < Len(r) /\ ~r[i + 1].more /\ r[i + 1].cmd = r[i].cmd
  BY DEF Paired, r
<1>2. CASE i <= Len(q)
  <2>1. i \in 1..Len(q) /\ q[i].more
    BY <1>1, <1>2
  <2>2. i < Len(q) /\ ~q[i + 1].more /\ q[i + 1].cmd = q[i].cmd
    BY <2>1 DEF Paired
  <2>3. i + 1 \in 1..Len(q) /\ i < Len(r)
    BY <1>1, <2>1, <2>2
  <2>4. QED
    BY <1>1, <2>1, <2>2, <2>3
<1>3. CASE ~(i <= Len(q))
  <2>1. PICK k \in 1..Len(ls) : i = Len(q) + k
    <3>1. i - Len(q) \in 1..Len(ls) /\ i = Len(q) + (i - Len(q))
      BY <1>1, <1>3
    <3>2. QED
      BY <3>1
  <2>2. ls[k].more
    BY <1>1, <2>1
  <2>3. k < Len(ls) /\ ~ls[k + 1].more /\ ls[k + 1].cmd = ls[k].cmd
    BY <2>2 DEF Paired
  <2>4. k + 1 \in 1..Len(ls) /\ i < Len(r) /\ i + 1 = Len(q) + (k + 1)
    BY <1>1, <2>1, <2>3
  <2>5. QED
    BY <1>1, <2>1, <2>3, <2>4
<1>4. QED
  BY <1>2, <1>3

\* A line alone.
LEMMA OneLine ==
    ASSUME NEW m \in Lined, ~m.more
    PROVE  /\ <<m>> \in Seq(Lined) /\ Len(<<m>>) = 1 /\ <<m>>[1] = m /\ Paired(<<m>>)
BY DEF Paired

\* The lines of a reply: they are one or two, and name together what the reply does.
LEMMA ReplyLines ==
    ASSUME NEW cmd \in Replies, NEW cs \in SUBSET Caps, NEW ls \in Lines(cmd, cs)
    PROVE  /\ ls \in Seq(Lined) /\ Paired(ls) /\ Len(ls) \in {1, 2}
           /\ \A i \in 1..Len(ls) : ls[i].cmd = cmd
           /\ ~ls[Len(ls)].more
           /\ Len(ls) = 1 => ls[1].caps = cs
           /\ Len(ls) = 2 => ls[1].more /\ ls[1].caps \union ls[2].caps = cs
<1>1. CASE ls = <<Msg(cmd, cs)>>
  <2>1. Msg(cmd, cs) \in Lined /\ ~Msg(cmd, cs).more
    BY DEF Msg, Lined, Answers
  <2>2. ls \in Seq(Lined) /\ Len(ls) = 1 /\ ls[1] = Msg(cmd, cs) /\ Paired(ls)
    BY <1>1, <2>1, OneLine
  <2>3. QED
    BY <2>2 DEF Msg
<1>2. CASE ls # <<Msg(cmd, cs)>>
  <2>1. PICK c \in cs : ls = <<[cmd |-> cmd, caps |-> {c}, more |-> TRUE], Msg(cmd, cs \ {c})>>
    BY <1>2 DEF Lines
  <2> DEFINE a == [cmd |-> cmd, caps |-> {c}, more |-> TRUE]
             b == Msg(cmd, cs \ {c})
  <2>2. a \in Lined /\ b \in Lined /\ a.more /\ ~b.more /\ a.cmd = cmd /\ b.cmd = cmd
        /\ a.caps = {c} /\ b.caps = cs \ {c}
    BY DEF Msg, Lined, Answers
  <2>3. ls = <<a, b>>
    BY <2>1
  <2> HIDE DEF a, b
  <2>4. ls \in Seq(Lined) /\ Len(ls) = 2 /\ ls[1] = a /\ ls[2] = b
    BY <2>2, <2>3
  <2>5. Paired(ls)
    BY <2>2, <2>4 DEF Paired
  <2>6. a.caps \union b.caps = cs
    BY <2>2
  <2>7. QED
    BY <2>2, <2>4, <2>5, <2>6
<1>3. QED
  BY <1>1, <1>2

\* A reply with its last line further up than the first names the same when one line was handled:
\* what the line said is in tempData.
LEMMA NamedTail ==
    ASSUME NEW q \in Seq(Lined), q # <<>>, Paired(q),
           \A j \in 1..Len(q) : q[j].more => q[j].cmd \in Replies,
           NEW parts \in [Replies -> SUBSET Caps], NEW parts2 \in [Replies -> SUBSET Caps],
           Head(q).more => Head(q).caps \subseteq parts2[Head(q).cmd],
           NEW i \in 1..Len(Tail(q))
    PROVE  Named(q, parts, i + 1) \subseteq Named(Tail(q), parts2, i)
<1> DEFINE t == Tail(q)
<1>1. /\ Len(q) \in Nat /\ Len(t) \in Nat /\ Len(q) = Len(t) + 1
      /\ \A j \in 1..Len(t) : t[j] = q[j + 1]
      /\ q[1] = Head(q)
  BY TailLines
<1> HIDE DEF t
<1>2. i \in 1..Len(t) /\ i \in Nat
  BY <1>1 DEF t
<1>3. t[i] = q[i + 1] /\ i + 1 # 1 /\ (i + 1) - 1 = i
  BY <1>1, <1>2
<1>4. Named(q, parts, i + 1) = q[i + 1].caps \union (IF q[i].more THEN q[i].caps ELSE {})
  BY <1>3 DEF Named
<1>5. CASE i = 1
  <2>1. Named(t, parts2, i) = t[i].caps \union parts2[t[i].cmd]
    BY <1>5 DEF Named
  <2>2. q[1].more => q[1 + 1].cmd = q[1].cmd
    BY <1>1, <1>2, <1>5 DEF Paired
  <2>3. CASE q[1].more
    BY <1>1, <1>3, <1>4, <1>5, <2>1, <2>2, <2>3 DEF t
  <2>4. CASE ~q[1].more
    BY <1>3, <1>4, <1>5, <2>1, <2>4 DEF t
  <2>5. QED
    BY <2>3, <2>4
<1>6. CASE i # 1
  <2>1. i - 1 \in 1..Len(t) /\ (i - 1) + 1 = i
    BY <1>1, <1>2, <1>6
  <2>2. t[i - 1] = q[i]
    BY <1>1, <2>1
  <2>3. Named(t, parts2, i) = t[i].caps \union (IF t[i - 1].more THEN t[i - 1].caps ELSE {})
    BY <1>6 DEF Named
  <2>4. QED
    BY <1>3, <1>4, <2>2, <2>3 DEF t
<1>7. QED
  BY <1>5, <1>6

\* The same of a LIST reply, which names no more either, if tempData had nothing of another one.
LEMMA NamedListTail ==
    ASSUME NEW q \in Seq(Lined), q # <<>>, Paired(q),
           NEW parts \in [Replies -> SUBSET Caps], NEW parts2 \in [Replies -> SUBSET Caps],
           parts["LIST"] # {} => Head(q).cmd = "LIST" /\ ~Head(q).more,
           parts2["LIST"] = IF Head(q).cmd # "LIST" THEN parts["LIST"]
                            ELSE IF Head(q).more THEN parts["LIST"] \union Head(q).caps ELSE {},
           NEW i \in 1..Len(Tail(q)), q[i + 1].cmd = "LIST"
    PROVE  Named(q, parts, i + 1) = Named(Tail(q), parts2, i)
<1> DEFINE t == Tail(q)
<1>1. /\ Len(q) \in Nat /\ Len(t) \in Nat /\ Len(q) = Len(t) + 1
      /\ \A j \in 1..Len(t) : t[j] = q[j + 1]
      /\ q[1] = Head(q)
  BY TailLines
<1> HIDE DEF t
<1>2. i \in 1..Len(t) /\ i \in Nat
  BY <1>1 DEF t
<1>3. t[i] = q[i + 1] /\ i + 1 # 1 /\ (i + 1) - 1 = i
  BY <1>1, <1>2
<1>4. Named(q, parts, i + 1) = q[i + 1].caps \union (IF q[i].more THEN q[i].caps ELSE {})
  BY <1>3 DEF Named
<1>5. CASE i = 1
  <2>1. Named(t, parts2, i) = t[i].caps \union parts2["LIST"]
    BY <1>3, <1>5 DEF Named
  <2>2. q[1].more => q[1 + 1].cmd = q[1].cmd
    BY <1>1, <1>2, <1>5 DEF Paired
  <2>3. parts2["LIST"] = IF q[1].more THEN q[1].caps ELSE {}
    <3>1. CASE q[1].more
      <4>1. q[1].cmd = "LIST"
        BY <1>5, <2>2, <3>1
      <4>2. parts["LIST"] = {}
        BY <1>1, <3>1
      <4>3. QED
        BY <1>1, <3>1, <4>1, <4>2
    <3>2. CASE ~q[1].more
      BY <1>1, <3>2
    <3>3. QED
      BY <3>1, <3>2
  <2>4. QED
    BY <1>3, <1>4, <1>5, <2>1, <2>3 DEF t
<1>6. CASE i # 1
  <2>1. i - 1 \in 1..Len(t) /\ (i - 1) + 1 = i
    BY <1>1, <1>2, <1>6
  <2>2. t[i - 1] = q[i]
    BY <1>1, <2>1
  <2>3. Named(t, parts2, i) = t[i].caps \union (IF t[i - 1].more THEN t[i - 1].caps ELSE {})
    BY <1>6 DEF Named
  <2>4. QED
    BY <1>3, <1>4, <2>2, <2>3 DEF t
<1>7. QED
  BY <1>5, <1>6

\* What is taken away behind a line is the same when the lines before it were handled.
LEMMA WithdrawnTail ==
    ASSUME NEW q \in Seq(Lined), q # <<>>, NEW i \in 0..Len(Tail(q))
    PROVE  Withdrawn(q, i + 1) = Withdrawn(Tail(q), i)
<1> DEFINE t == Tail(q)
<1>1. /\ Len(q) \in Nat /\ Len(t) \in Nat /\ Len(q) = Len(t) + 1
      /\ \A j \in 1..Len(t) : t[j] = q[j + 1]
  BY TailLines
<1> HIDE DEF t
<1>2. i \in 0..Len(t)
  BY DEF t
<1>3. ASSUME NEW c \in Withdrawn(q, i + 1)
      PROVE  c \in Withdrawn(t, i)
  <2>1. c \in Caps /\ \E j \in 1..Len(q) : j > i + 1 /\ q[j].cmd = "DEL" /\ c \in q[j].caps
    BY <1>3 DEF Withdrawn
  <2>2. PICK j \in 1..Len(q) : j > i + 1 /\ q[j].cmd = "DEL" /\ c \in q[j].caps
    BY <2>1
  <2>3. j - 1 \in 1..Len(t) /\ j - 1 > i /\ (j - 1) + 1 = j
    BY <1>1, <1>2, <2>2
  <2>4. t[j - 1] = q[j]
    BY <1>1, <2>3
  <2>5. QED
    BY <2>1, <2>2, <2>3, <2>4 DEF Withdrawn
<1>4. ASSUME NEW c \in Withdrawn(t, i)
      PROVE  c \in Withdrawn(q, i + 1)
  <2>1. c \in Caps /\ \E j \in 1..Len(t) : j > i /\ t[j].cmd = "DEL" /\ c \in t[j].caps
    BY <1>4 DEF Withdrawn
  <2>2. PICK j \in 1..Len(t) : j > i /\ t[j].cmd = "DEL" /\ c \in t[j].caps
    BY <2>1
  <2>3. j + 1 \in 1..Len(q) /\ j + 1 > i + 1
    BY <1>1, <1>2, <2>2
  <2>4. t[j] = q[j + 1]
    BY <1>1
  <2>5. QED
    BY <2>1, <2>2, <2>3, <2>4 DEF Withdrawn
<1>5. QED
  BY <1>3, <1>4 DEF t

\* What is taken away behind a line when others are added.
LEMMA WithdrawnJoin ==
    ASSUME NEW q \in Seq(Lined), NEW ls \in Seq(Lined), NEW i \in 0..Len(q)
    PROVE  Withdrawn(q \o ls, i) = Withdrawn(q, i) \union Withdrawn(ls, 0)
<1> DEFINE r == q \o ls
<1>1. /\ Len(q) \in Nat /\ Len(ls) \in Nat /\ Len(r) = Len(q) + Len(ls)
      /\ \A j \in 1..Len(q) : r[j] = q[j]
      /\ \A j \in 1..Len(ls) : r[Len(q) + j] = ls[j]
  BY JoinLines
<1> HIDE DEF r
<1>2. ASSUME NEW c \in Withdrawn(r, i)
      PROVE  c \in Withdrawn(q, i) \union Withdrawn(ls, 0)
  <2>1. c \in Caps /\ \E j \in 1..Len(r) : j > i /\ r[j].cmd = "DEL" /\ c \in r[j].caps
    BY <1>2 DEF Withdrawn
  <2>2. PICK j \in 1..Len(r) : j > i /\ r[j].cmd = "DEL" /\ c \in r[j].caps
    BY <2>1
  <2>3. CASE j <= Len(q)
    <3>1. j \in 1..Len(q) /\ r[j] = q[j]
      BY <1>1, <2>3
    <3>2. QED
      BY <2>1, <2>2, <3>1 DEF Withdrawn
  <2>4. CASE ~(j <= Len(q))
    <3>1. j - Len(q) \in 1..Len(ls) /\ j = Len(q) + (j - Len(q)) /\ j - Len(q) > 0
      BY <1>1, <2>4
    <3>2. r[j] = ls[j - Len(q)]
      BY <1>1, <3>1
    <3>3. QED
      BY <2>1, <2>2, <3>1, <3>2 DEF Withdrawn
  <2>5. QED
    BY <2>3, <2>4
<1>3. ASSUME NEW c \in Withdrawn(q, i)
      PROVE  c \in Withdrawn(r, i)
  <2>1. c \in Caps /\ \E j \in 1..Len(q) : j > i /\ q[j].cmd = "DEL" /\ c \in q[j].caps
    BY <1>3 DEF Withdrawn
  <2>2. PICK j \in 1..Len(q) : j > i /\ q[j].cmd = "DEL" /\ c \in q[j].caps
    BY <2>1
  <2>3. j \in 1..Len(r) /\ r[j] = q[j]
    BY <1>1
  <2>4. QED
    BY <2>1, <2>2, <2>3 DEF Withdrawn
<1>4. ASSUME NEW c \in Withdrawn(ls, 0)
      PROVE  c \in Withdrawn(r, i)
  <2>1. c \in Caps /\ \E j \in 1..Len(ls) : ls[j].cmd = "DEL" /\ c \in ls[j].caps
    BY <1>4 DEF Withdrawn
  <2>2. PICK j \in 1..Len(ls) : ls[j].cmd = "DEL" /\ c \in ls[j].caps
    BY <2>1
  <2>3. Len(q) + j \in 1..Len(r) /\ r[Len(q) + j] = ls[j] /\ Len(q) + j > i
    BY <1>1
  <2>4. QED
    BY <2>1, <2>2, <2>3 DEF Withdrawn
<1>5. QED
  BY <1>2, <1>3, <1>4 DEF r

\* A reply is still the same when lines are added.
LEMMA NamedJoin ==
    ASSUME NEW q \in Seq(Lined), NEW ls \in Seq(Lined), NEW parts, NEW i \in 1..Len(q)
    PROVE  Named(q \o ls, parts, i) = Named(q, parts, i)
<1> DEFINE r == q \o ls
<1>1. Len(q) \in Nat /\ \A j \in 1..Len(q) : r[j] = q[j]
  BY JoinLines
<1> HIDE DEF r
<1>2. i \in Nat /\ r[i] = q[i]
  BY <1>1
<1>3. CASE i = 1
  BY <1>2, <1>3 DEF Named, r
<1>4. CASE i # 1
  <2>1. i - 1 \in 1..Len(q)
    BY <1>1, <1>2, <1>4
  <2>2. r[i - 1] = q[i - 1]
    BY <1>1, <2>1
  <2>3. QED
    BY <1>2, <1>4, <2>2 DEF Named, r
<1>5. QED
  BY <1>3, <1>4

\* Lines that replace nothing leave the belief right if they take away what is disabled.
LEMMA SyncedJoin ==
    ASSUME NEW q \in Seq(Lined), NEW ls \in Seq(Lined), NEW parts, NEW known, NEW on,
           \A i \in 1..Len(ls) : ~Replaces(ls[i]), Synced(q, parts, known, on)
    PROVE  Synced(q \o ls, parts, known, on \ Withdrawn(ls, 0))
<1> DEFINE r == q \o ls
<1>1. /\ Len(q) \in Nat /\ Len(ls) \in Nat /\ Len(r) = Len(q) + Len(ls)
      /\ \A j \in 1..Len(q) : r[j] = q[j]
      /\ \A j \in 1..Len(ls) : r[Len(q) + j] = ls[j]
  BY JoinLines
<1>2. PICK i \in 0..Len(q) : SyncedBy(q, parts, known, on, i)
  BY DEF Synced
<1>3. Withdrawn(r, i) = Withdrawn(q, i) \union Withdrawn(ls, 0)
  BY WithdrawnJoin
<1>4. i > 0 => r[i] = q[i] /\ Named(r, parts, i) = Named(q, parts, i)
  <2>1. i > 0 => i \in 1..Len(q)
    BY <1>1
  <2>2. QED
    BY <1>1, <2>1, NamedJoin
<1> HIDE DEF r
<1>5. \A j \in 1..Len(r) : j > i => ~Replaces(r[j])
  <2> SUFFICES ASSUME NEW j \in 1..Len(r), j > i
               PROVE  ~Replaces(r[j])
    OBVIOUS
  <2>1. CASE j <= Len(q)
    <3>1. j \in 1..Len(q) /\ r[j] = q[j]
      BY <1>1, <2>1
    <3>2. QED
      BY <1>2, <3>1 DEF SyncedBy
  <2>2. CASE ~(j <= Len(q))
    <3>1. j - Len(q) \in 1..Len(ls) /\ j = Len(q) + (j - Len(q))
      BY <1>1, <2>2
    <3>2. r[j] = ls[j - Len(q)]
      BY <1>1, <3>1
    <3>3. QED
      BY <3>1, <3>2
  <2>3. QED
    BY <2>1, <2>2
<1> DEFINE base == IF i = 0 THEN known ELSE Named(q, parts, i)
<1>6. base = IF i = 0 THEN known ELSE Named(r, parts, i)
  BY <1>1, <1>4
<1>7. base \ Withdrawn(r, i) = on \ Withdrawn(ls, 0)
  <2>1. base \ Withdrawn(q, i) = on
    BY <1>2 DEF SyncedBy
  <2> HIDE DEF base
  <2>2. QED
    BY <1>3, <2>1
<1>8. SyncedBy(r, parts, known, on \ Withdrawn(ls, 0), i)
  <2>1. (IF i = 0 THEN known ELSE Named(r, parts, i)) \ Withdrawn(r, i) = on \ Withdrawn(ls, 0)
    BY <1>6, <1>7
  <2>2. i > 0 => r[i].cmd = "LIST" /\ ~r[i].more
    BY <1>2, <1>4 DEF SyncedBy
  <2>3. QED
    BY <1>5, <2>1, <2>2 DEF SyncedBy
<1>9. i \in 0..Len(r)
  BY <1>1
<1>10. QED
  BY <1>8, <1>9 DEF Synced, r

\* A LIST reply sets it right.
LEMMA SyncedList ==
    ASSUME NEW q \in Seq(Lined), Paired(q), NEW on \in SUBSET Caps,
           NEW parts \in [Replies -> SUBSET Caps], NEW known,
           parts["LIST"] # {} => q # <<>>,
           NEW ls \in Lines("LIST", on)
    PROVE  Synced(q \o ls, parts, known, on)
<1> DEFINE r == q \o ls
           n == Len(q)
           k == Len(ls)
<1>1. /\ ls \in Seq(Lined) /\ Paired(ls) /\ k \in {1, 2}
      /\ \A i \in 1..k : ls[i].cmd = "LIST"
      /\ ~ls[k].more
      /\ k = 1 => ls[1].caps = on
      /\ k = 2 => ls[1].more /\ ls[1].caps \union ls[2].caps = on
  BY ReplyLines DEF Replies
<1>2. /\ n \in Nat /\ k \in Nat /\ Len(r) = n + k
      /\ \A j \in 1..n : r[j] = q[j]
      /\ \A j \in 1..k : r[n + j] = ls[j]
  BY <1>1, JoinLines
<1>3. n = 0 => q = <<>>
  BY EmptySeq
<1>4. n > 0 => ~q[n].more
  BY <1>2 DEF Paired
<1>5. Withdrawn(r, n + k) = {}
  BY <1>2 DEF Withdrawn
<1> HIDE DEF r, n, k
<1>6. r[n + k].cmd = "LIST" /\ ~r[n + k].more
  BY <1>1, <1>2
<1>7. Named(r, parts, n + k) = on
  <2>1. CASE k = 1
    <3>1. r[n + 1] = ls[1] /\ ls[1].cmd = "LIST" /\ ls[1].caps = on
      BY <1>1, <1>2, <2>1
    <3>2. CASE n = 0
      <4>1. parts["LIST"] = {}
        BY <1>3, <3>2
      <4>2. QED
        BY <2>1, <3>1, <3>2, <4>1 DEF Named
    <3>3. CASE n # 0
      <4>1. n > 0 /\ n \in 1..n /\ (n + 1) - 1 = n /\ n + 1 # 1
        BY <1>2, <3>3
      <4>2. r[n] = q[n] /\ ~q[n].more
        BY <1>2, <1>4, <4>1
      <4>3. Named(r, parts, n + 1) = r[n + 1].caps \union (IF r[n].more THEN r[n].caps ELSE {})
        BY <4>1 DEF Named
      <4>4. QED
        BY <2>1, <3>1, <4>2, <4>3
    <3>4. QED
      BY <3>2, <3>3
  <2>2. CASE k = 2
    <3>1. r[n + 1] = ls[1] /\ r[n + 2] = ls[2] /\ ls[1].more
          /\ ls[1].caps \union ls[2].caps = on
      BY <1>1, <1>2, <2>2
    <3>2. (n + 2) - 1 = n + 1 /\ n + 2 # 1
      BY <1>2
    <3>3. Named(r, parts, n + 2)
            = r[n + 2].caps \union (IF r[n + 1].more THEN r[n + 1].caps ELSE {})
      BY <3>2 DEF Named
    <3>4. QED
      BY <2>2, <3>1, <3>3
  <2>3. QED
    BY <1>1, <2>1, <2>2
<1>8. on \ Withdrawn(r, n + k) = on
  BY <1>5
<1>9. n + k \in 0..Len(r) /\ n + k # 0
  BY <1>1, <1>2
<1>10. \A j \in 1..Len(r) : ~(j > n + k)
  BY <1>2
<1>11. SyncedBy(r, parts, known, on, n + k)
  BY <1>6, <1>7, <1>8, <1>9, <1>10 DEF SyncedBy
<1>12. QED
  BY <1>9, <1>11 DEF Synced, r

\* Handling the first line takes the worker a step towards what it will know in the end.
LEMMA SyncedTail ==
    ASSUME NEW q \in Seq(Lined), q # <<>>, Paired(q),
           NEW parts \in [Replies -> SUBSET Caps], NEW parts2 \in [Replies -> SUBSET Caps],
           parts["LIST"] # {} => Head(q).cmd = "LIST" /\ ~Head(q).more,
           parts2["LIST"] = IF Head(q).cmd # "LIST" THEN parts["LIST"]
                            ELSE IF Head(q).more THEN parts["LIST"] \union Head(q).caps ELSE {},
           NEW known \in SUBSET Caps, NEW known2 \in SUBSET Caps, NEW on,
           Head(q).cmd = "LIST" /\ ~Head(q).more => known2 = parts["LIST"] \union Head(q).caps,
           Head(q).cmd = "DEL" => known2 = known \ Head(q).caps,
           Head(q).cmd # "DEL" /\ ~Replaces(Head(q)) => known2 = known,
           Synced(q, parts, known, on)
    PROVE  Synced(Tail(q), parts2, known2, on)
<1> DEFINE t == Tail(q)
           h == Head(q)
<1>1. /\ t \in Seq(Lined) /\ Len(q) \in Nat /\ Len(t) \in Nat /\ Len(q) = Len(t) + 1
      /\ \A j \in 1..Len(t) : t[j] = q[j + 1]
      /\ q[1] = h /\ h \in Lined
  BY TailLines
<1>2. PICK i \in 0..Len(q) : SyncedBy(q, parts, known, on, i)
  BY DEF Synced
<1>3. \A k \in 0..Len(t) : Withdrawn(q, k + 1) = Withdrawn(t, k)
  BY WithdrawnTail
<1>4. \A k \in 1..Len(t) : q[k + 1].cmd = "LIST" =>
                             Named(q, parts, k + 1) = Named(t, parts2, k)
  BY NamedListTail
<1> HIDE DEF t, h
<1>5. CASE i > 1
  <2>1. i - 1 \in 1..Len(t) /\ (i - 1) + 1 = i /\ i # 0 /\ i - 1 # 0 /\ i > 0
        /\ i - 1 \in 0..Len(t)
    BY <1>1, <1>5
  <2>2. t[i - 1] = q[i] /\ Withdrawn(t, i - 1) = Withdrawn(q, i)
    BY <1>1, <1>3, <2>1
  <2>3. q[i].cmd = "LIST" /\ ~q[i].more /\ Named(q, parts, i) \ Withdrawn(q, i) = on
    BY <1>2, <2>1 DEF SyncedBy
  <2>4. Named(t, parts2, i - 1) = Named(q, parts, i)
    BY <1>4, <2>1, <2>3
  <2>5. \A j \in 1..Len(t) : j > i - 1 => ~Replaces(t[j])
    <3> SUFFICES ASSUME NEW j \in 1..Len(t), j > i - 1
                 PROVE  ~Replaces(t[j])
      OBVIOUS
    <3>1. j + 1 \in 1..Len(q) /\ j + 1 > i /\ t[j] = q[j + 1]
      BY <1>1
    <3>2. QED
      BY <1>2, <3>1 DEF SyncedBy
  <2>6. SyncedBy(t, parts2, known2, on, i - 1)
    BY <2>1, <2>2, <2>3, <2>4, <2>5 DEF SyncedBy
  <2>7. QED
    BY <2>1, <2>6 DEF Synced, t
<1>6. CASE i <= 1
  <2>1. \A j \in 1..Len(t) : ~Replaces(t[j])
    <3> SUFFICES ASSUME NEW j \in 1..Len(t)
                 PROVE  ~Replaces(t[j])
      OBVIOUS
    <3>1. j + 1 \in 1..Len(q) /\ j + 1 > i /\ t[j] = q[j + 1]
      BY <1>1, <1>6
    <3>2. QED
      BY <1>2, <3>1 DEF SyncedBy
  <2>2. known2 \ Withdrawn(t, 0) = on
    <3>0. Withdrawn(q, 1) = Withdrawn(t, 0)
      BY <1>1, <1>3
    <3>1. CASE i = 1
      <4>1. h.cmd = "LIST" /\ ~h.more /\ Named(q, parts, 1) \ Withdrawn(q, 1) = on
        BY <1>1, <1>2, <3>1 DEF SyncedBy
      <4>2. Named(q, parts, 1) = h.caps \union parts["LIST"]
        BY <1>1, <4>1 DEF Named
      <4>3. known2 = parts["LIST"] \union h.caps
        BY <4>1 DEF h
      <4>4. known2 = Named(q, parts, 1)
        BY <4>2, <4>3
      <4>5. QED
        BY <3>0, <4>1, <4>4
    <3>2. CASE i = 0
      <4>1. known \ Withdrawn(q, 0) = on
        BY <1>2, <3>2 DEF SyncedBy
      <4>2. ~Replaces(h)
        <5>1. 1 \in 1..Len(q)
          BY <1>1
        <5>2. QED
          BY <1>1, <1>2, <3>2, <5>1 DEF SyncedBy
      <4>3. Withdrawn(q, 0) = Withdrawn(q, 1)
                               \union {c \in Caps : h.cmd = "DEL" /\ c \in h.caps}
        <5>1. 1 \in 1..Len(q)
          BY <1>1
        <5>2. ASSUME NEW c \in Withdrawn(q, 0), c \notin Withdrawn(q, 1)
              PROVE  h.cmd = "DEL" /\ c \in h.caps
          <6>1. PICK j \in 1..Len(q) : q[j].cmd = "DEL" /\ c \in q[j].caps
            BY <5>2 DEF Withdrawn
          <6>2. c \in Caps
            BY <5>2 DEF Withdrawn
          <6>3. ~(j > 1)
            BY <5>2, <6>1, <6>2 DEF Withdrawn
          <6>4. j = 1
            BY <6>3
          <6>5. QED
            BY <1>1, <6>1, <6>4
        <5>3. Withdrawn(q, 1) \subseteq Withdrawn(q, 0)
          BY <1>1 DEF Withdrawn
        <5>4. ASSUME NEW c \in Caps, h.cmd = "DEL", c \in h.caps
              PROVE  c \in Withdrawn(q, 0)
          BY <1>1, <5>1, <5>4 DEF Withdrawn
        <5>5. Withdrawn(q, 0) \subseteq Caps
          BY DEF Withdrawn
        <5>6. QED
          BY <5>2, <5>3, <5>4, <5>5
      <4>4. CASE h.cmd = "DEL"
        <5>1. known2 = known \ h.caps /\ h.caps \subseteq Caps
          BY <1>1, <4>4 DEF h, Lined
        <5>2. Withdrawn(q, 0) = Withdrawn(t, 0) \union h.caps
          BY <3>0, <4>3, <4>4, <5>1
        <5>3. QED
          BY <4>1, <5>1, <5>2
      <4>5. CASE h.cmd # "DEL"
        <5>1. known2 = known
          BY <4>2, <4>5 DEF h
        <5>2. Withdrawn(q, 0) = Withdrawn(t, 0)
          BY <3>0, <4>3, <4>5
        <5>3. QED
          BY <4>1, <5>1, <5>2
      <4>6. QED
        BY <4>4, <4>5
    <3>3. QED
      BY <1>6, <3>1, <3>2
  <2>3. SyncedBy(t, parts2, known2, on, 0)
    BY <2>1, <2>2 DEF SyncedBy
  <2>4. 0 \in 0..Len(t)
    BY <1>1
  <2>5. QED
    BY <2>3, <2>4 DEF Synced, t
<1>7. QED
  BY <1>1, <1>5, <1>6

\* A late ACK stays late until it is handled.
LEMMA LateTail ==
    ASSUME NEW q \in Seq(Lined), q # <<>>, NEW ended \in BOOLEAN, NEW ended2 \in BOOLEAN,
           AckIsLate(q, ended), ended => ended2, Head(q).cmd = "376" => ended2,
           ~(ended /\ Head(q).cmd = "ACK" /\ ~Head(q).more)
    PROVE  AckIsLate(Tail(q), ended2)
<1> DEFINE t == Tail(q)
           h == Head(q)
<1>1. /\ Len(q) \in Nat /\ Len(t) \in Nat /\ Len(q) = Len(t) + 1
      /\ \A j \in 1..Len(t) : t[j] = q[j + 1]
      /\ q[1] = h
  BY TailLines
<1>2. PICK i \in 1..Len(q) : /\ q[i].cmd = "ACK" /\ ~q[i].more
                             /\ ended \/ \E j \in 1..Len(q) : j < i /\ q[j].cmd = "376"
  BY DEF AckIsLate
<1> HIDE DEF t, h
<1>3. i # 1
  BY <1>1, <1>2 DEF h
<1>4. i - 1 \in 1..Len(t) /\ (i - 1) + 1 = i
  BY <1>1, <1>3
<1>5. t[i - 1] = q[i]
  BY <1>1, <1>4
<1>6. ended2 \/ \E j \in 1..Len(t) : j < i - 1 /\ t[j].cmd = "376"
  <2>1. CASE ended
    BY <2>1
  <2>2. CASE \E j \in 1..Len(q) : j < i /\ q[j].cmd = "376"
    <3>1. PICK j \in 1..Len(q) : j < i /\ q[j].cmd = "376"
      BY <2>2
    <3>2. CASE j = 1
      BY <1>1, <3>1, <3>2 DEF h
    <3>3. CASE j # 1
      <4>1. j - 1 \in 1..Len(t) /\ (j - 1) + 1 = j /\ j - 1 < i - 1
        BY <1>1, <3>1, <3>3
      <4>2. t[j - 1] = q[j]
        BY <1>1, <4>1
      <4>3. QED
        BY <3>1, <4>1, <4>2
    <3>4. QED
      BY <3>2, <3>3
  <2>3. QED
    BY <1>2, <2>1, <2>2
<1>7. QED
  BY <1>2, <1>4, <1>5, <1>6 DEF AckIsLate, t

LEMMA LateJoin ==
    ASSUME NEW q \in Seq(Lined), NEW ls \in Seq(Lined), NEW ended,
           \/ AckIsLate(q, ended)
           \/ /\ \E k \in 1..Len(ls) : ls[k].cmd = "ACK" /\ ~ls[k].more
              /\ ended \/ Completes(q)
    PROVE  AckIsLate(q \o ls, ended)
<1> DEFINE r == q \o ls
<1>1. /\ Len(q) \in Nat /\ Len(ls) \in Nat /\ Len(r) = Len(q) + Len(ls)
      /\ \A j \in 1..Len(q) : r[j] = q[j]
      /\ \A j \in 1..Len(ls) : r[Len(q) + j] = ls[j]
  BY JoinLines
<1> HIDE DEF r
<1>2. CASE AckIsLate(q, ended)
  <2>1. PICK i \in 1..Len(q) : /\ q[i].cmd = "ACK" /\ ~q[i].more
                               /\ ended \/ \E j \in 1..Len(q) : j < i /\ q[j].cmd = "376"
    BY <1>2 DEF AckIsLate
  <2>2. i \in 1..Len(r) /\ r[i] = q[i]
    BY <1>1
  <2>3. ended \/ \E j \in 1..Len(r) : j < i /\ r[j].cmd = "376"
    <3>1. \A j \in 1..Len(q) : j \in 1..Len(r) /\ r[j] = q[j]
      BY <1>1
    <3>2. QED
      BY <2>1, <3>1
  <2>4. QED
    BY <2>1, <2>2, <2>3 DEF AckIsLate, r
<1>3. CASE /\ \E k \in 1..Len(ls) : ls[k].cmd = "ACK" /\ ~ls[k].more
           /\ ended \/ Completes(q)
  <2>1. PICK k \in 1..Len(ls) : ls[k].cmd = "ACK" /\ ~ls[k].more
    BY <1>3
  <2>2. Len(q) + k \in 1..Len(r) /\ r[Len(q) + k] = ls[k]
    BY <1>1
  <2>3. ended \/ \E j \in 1..Len(r) : j < Len(q) + k /\ r[j].cmd = "376"
    <3>1. \A j \in 1..Len(q) : j \in 1..Len(r) /\ r[j] = q[j] /\ j < Len(q) + k
      BY <1>1
    <3>2. QED
      BY <1>3, <3>1 DEF Completes
  <2>4. QED
    BY <2>1, <2>2, <2>3 DEF AckIsLate, r
<1>4. QED
  BY <1>2, <1>3

-----------------------------------------------------------------------------
(* What the steps do.                                                      *)

LEMMA NoneWritten == <<>> \in Seq(Written) /\ Len(<<>>) = 0
BY EmptySeq

LEMMA EndWritten ==
    /\ EndNegotiation \in Seq(Written) /\ Len(EndNegotiation) = 2
    /\ EndNegotiation[1].cmd = "LIST" /\ EndNegotiation[2].cmd = "END"
    /\ \A i \in 1..Len(EndNegotiation) : EndNegotiation[i].cmd \notin {"LS", "REQ"}
BY DEF EndNegotiation, Msg, Written, Questions

LEMMA OneWritten ==
    ASSUME NEW m \in Written
    PROVE  /\ <<m>> \in Seq(Written) /\ Len(<<m>>) = 1 /\ <<m>>[1] = m
OBVIOUS

\* What the worker may write when it handles msg.
Reaction(msg, parts, ls) ==
    /\ \/ ls \in {<<>>, EndNegotiation}
       \/ \E m \in Written : m.cmd # "END" /\ ls = <<m>>
    /\ ~Asks(msg) /\ msg.cmd # "NEW" => ls = <<>>
    /\ msg.cmd \notin {"LS", "NEW"} => \A i \in 1..Len(ls) : ls[i].cmd \notin {"LS", "REQ"}
    /\ \A i \in 1..Len(ls) : ls[i].cmd \in {"LIST", "END"} =>
          \/ msg.cmd \in {"LS", "903"}
          \/ msg.cmd = "ACK" /\ ~(HasLogin /\ "sasl" \in parts["ACK"] \union msg.caps)

LEMMA QuietReaction ==
    ASSUME Typed, NEW msg, NEW parts, toServer' = toServer
    PROVE  \E ls : Reaction(msg, parts, ls)
                    /\ toServer' = IF alive THEN toServer \o ls ELSE toServer
<1>1. toServer \o <<>> = toServer
  BY ConcatEmptySeq DEF Typed
<1>2. Reaction(msg, parts, <<>>)
  BY NoneWritten DEF Reaction
<1>3. QED
  BY <1>1, <1>2

LEMMA WrittenReaction ==
    ASSUME NEW msg, NEW parts, NEW m \in Written, m.cmd \notin {"LIST", "END"},
           Asks(msg) \/ msg.cmd = "NEW",
           msg.cmd \notin {"LS", "NEW"} => m.cmd \notin {"LS", "REQ"}
    PROVE  Reaction(msg, parts, <<m>>)
<1>1. Len(<<m>>) = 1 /\ <<m>>[1] = m
  BY OneWritten
<1>2. \A i \in 1..Len(<<m>>) : <<m>>[i] = m
  BY <1>1
<1>3. QED
  BY <1>2 DEF Reaction

LEMMA EndReaction ==
    ASSUME NEW msg, NEW parts, Asks(msg),
           \/ msg.cmd \in {"LS", "903"}
           \/ msg.cmd = "ACK" /\ ~(HasLogin /\ "sasl" \in parts["ACK"] \union msg.caps)
    PROVE  Reaction(msg, parts, EndNegotiation)
BY EndWritten DEF Reaction

\* What the worker does with one line.
LEMMA Handled ==
    ASSUME Typed, WorkerHandles
    PROVE  LET h == Head(toWorker)
           IN  /\ toWorker # <<>> /\ h \in Lined /\ toWorker' = Tail(toWorker)
               /\ UNCHANGED <<alive, offered, enabled, held, loggedIn>>
               /\ partial' \in [Replies -> SUBSET Caps]
               /\ \A r \in Replies :
                     partial'[r] = IF h.cmd # r THEN partial[r]
                                   ELSE IF h.more THEN partial[r] \union h.caps ELSE {}
               /\ h.cmd = "376" => registered'
               /\ h.cmd = "close" => closed' /\ ~registered'
               /\ h.cmd \notin {"376", "close"} => registered' = registered
               /\ h.cmd # "close" => closed' = closed /\ cut' = cut
               /\ h.cmd = "close" => cut' = (cut \/ partial["LIST"] # {})
               /\ caps' \in SUBSET Caps
               /\ h.cmd = "LIST" /\ ~h.more => caps' = partial["LIST"] \union h.caps
               /\ h.cmd = "DEL" => caps' = caps \ h.caps
               /\ h.cmd # "DEL" /\ ~Replaces(h) => caps' = caps
               /\ lateAck => lateAck'
               /\ h.cmd = "ACK" /\ ~h.more /\ registered => lateAck'
               /\ earlyNew => earlyNew'
               /\ h.cmd = "NEW" /\ ~registered => earlyNew'
               /\ {registered', closing', closed', lateAck', earlyNew', cut'} \subseteq BOOLEAN
               /\ h.cmd = "close" => toServer' = <<>>
               /\ h.cmd # "close" => \E ls : /\ Reaction(h, partial, ls)
                                             /\ toServer' = IF alive THEN toServer \o ls
                                                            ELSE toServer
<1> DEFINE h == Head(toWorker)
<1>1. toWorker # <<>> /\ toWorker' = Tail(toWorker) /\ toWorker \in Seq(Lined)
  BY DEF WorkerHandles, Typed
<1>2. h \in Lined
  BY <1>1, TailLines
<1>3. UNCHANGED <<alive, offered, enabled, held, loggedIn>>
  BY DEF WorkerHandles, server
<1>4. h.more => h.cmd \in Replies
  <2>1. 1 \in 1..Len(toWorker) /\ toWorker[1] = h
    BY <1>1, TailLines
  <2>2. QED
    BY <2>1 DEF Typed
<1>5. h.caps \subseteq Caps /\ h.more \in BOOLEAN /\ h.cmd \in Answers
  BY <1>2 DEF Lined
<1>6. /\ caps \subseteq Caps /\ partial \in [Replies -> SUBSET Caps]
      /\ {registered, closing, closed, lateAck, earlyNew, cut} \subseteq BOOLEAN
  BY DEF Typed, TypeOK
<1>7. \/ h.cmd = "LS" /\ OnLs(h)
      \/ h.cmd = "LIST" /\ OnList(h)
      \/ h.cmd = "ACK" /\ OnAck(h)
      \/ h.cmd = "NEW" /\ OnNew(h)
      \/ h.cmd = "DEL" /\ OnDel(h)
      \/ h.cmd = "+" /\ OnAuthenticate
      \/ h.cmd = "903" /\ On903
      \/ h.cmd = "904" /\ On904
      \/ h.cmd = "376" /\ OnWelcome
      \/ h.cmd = "close" /\ OnClose
      \/ h.cmd = "NAK" /\ UNCHANGED <<worker, toServer, lateAck, earlyNew>>
  BY DEF WorkerHandles
<1>8. h.cmd # "close" => cut' = cut
  BY DEF WorkerHandles
<1> HIDE DEF h
<1>9. /\ partial' \in [Replies -> SUBSET Caps]
      /\ \A r \in Replies :
            partial'[r] = IF h.cmd # r THEN partial[r]
                          ELSE IF h.more THEN partial[r] \union h.caps ELSE {}
  <2>1. CASE h.cmd \in Replies
    <3>1. partial' = [partial EXCEPT ![h.cmd] = IF h.more THEN @ \union h.caps ELSE {}]
      BY <1>7, <2>1 DEF OnLs, OnList, OnAck, Accumulate, Replies
    <3>2. QED
      BY <1>5, <1>6, <2>1, <3>1
  <2>2. CASE h.cmd \notin Replies
    <3>1. partial' = partial
      BY <1>7, <2>2 DEF OnNew, OnDel, OnAuthenticate, On903, On904, OnWelcome, OnClose, worker,
                        Replies
    <3>2. QED
      BY <1>6, <2>2, <3>1
  <2>3. QED
    BY <2>1, <2>2
<1>10. /\ h.cmd = "376" => registered'
       /\ h.cmd = "close" => closed' /\ ~registered'
       /\ h.cmd \notin {"376", "close"} => registered' = registered
       /\ h.cmd # "close" => closed' = closed
  BY <1>7 DEF OnLs, OnList, OnAck, OnNew, OnDel, OnAuthenticate, On903, On904, OnWelcome,
              OnClose, worker
<1>11. h.cmd = "close" => /\ cut' = (cut \/ partial["LIST"] # {})
                          /\ toServer' = <<>>
  BY <1>7 DEF OnClose
<1>12. /\ caps' \in SUBSET Caps
       /\ h.cmd = "LIST" /\ ~h.more => caps' = partial["LIST"] \union h.caps
       /\ h.cmd = "DEL" => caps' = caps \ h.caps
       /\ h.cmd # "DEL" /\ ~Replaces(h) => caps' = caps
  <2>1. \A r \in Replies : partial[r] \subseteq Caps
    BY <1>6
  <2>2. CASE h.cmd = "LIST"
    <3>1. caps' = IF h.more THEN caps ELSE partial["LIST"] \union h.caps
      BY <1>7, <2>2 DEF OnList, Tokens
    <3>2. QED
      BY <1>5, <1>6, <2>1, <2>2, <3>1 DEF Replaces, Replies
  <2>3. CASE h.cmd = "ACK"
    <3>1. caps' = IF h.more THEN caps ELSE partial["ACK"] \union h.caps
      BY <1>7, <2>3 DEF OnAck, Tokens
    <3>2. QED
      BY <1>5, <1>6, <2>1, <2>3, <3>1 DEF Replaces, Replies
  <2>4. CASE h.cmd = "DEL"
    <3>1. caps' = caps \ h.caps
      BY <1>7, <2>4 DEF OnDel
    <3>2. QED
      BY <1>6, <2>4, <3>1
  <2>5. CASE h.cmd \notin {"LIST", "ACK", "DEL"}
    <3>1. caps' = caps
      BY <1>7, <2>5 DEF OnLs, OnNew, OnAuthenticate, On903, On904, OnWelcome, OnClose, worker
    <3>2. QED
      BY <1>6, <2>5, <3>1
  <2>6. QED
    BY <2>2, <2>3, <2>4, <2>5
<1>13. /\ lateAck => lateAck'
       /\ h.cmd = "ACK" /\ ~h.more /\ registered => lateAck'
       /\ earlyNew => earlyNew'
       /\ h.cmd = "NEW" /\ ~registered => earlyNew'
  <2>1. CASE h.cmd = "ACK"
    <3>1. OnAck(h)
      BY <1>7, <2>1
    <3>2. /\ earlyNew' = earlyNew
          /\ h.more => lateAck' = lateAck
          /\ ~h.more => lateAck' = (lateAck \/ registered)
      BY <3>1 DEF OnAck
    <3>3. QED
      BY <1>5, <1>6, <2>1, <3>2
  <2>2. CASE h.cmd = "NEW"
    <3>1. earlyNew' = (earlyNew \/ ~registered) /\ lateAck' = lateAck
      BY <1>7, <2>2 DEF OnNew
    <3>2. QED
      BY <1>6, <2>2, <3>1
  <2>3. CASE h.cmd \notin {"ACK", "NEW"}
    BY <1>7, <2>3 DEF OnLs, OnList, OnDel, OnAuthenticate, On903, On904, OnWelcome, OnClose
  <2>4. QED
    BY <2>1, <2>2, <2>3
<1>14. {registered', closing', closed', lateAck', earlyNew', cut'} \subseteq BOOLEAN
  <2>1. registered' \in BOOLEAN /\ closed' \in BOOLEAN /\ closing' \in BOOLEAN
    BY <1>6, <1>7 DEF OnLs, OnList, OnAck, OnNew, OnDel, OnAuthenticate, On903, On904,
                      OnWelcome, OnClose, worker
  <2>2. lateAck' \in BOOLEAN /\ earlyNew' \in BOOLEAN
    BY <1>6, <1>7 DEF OnLs, OnList, OnAck, OnNew, OnDel, OnAuthenticate, On903, On904,
                      OnWelcome, OnClose, worker
  <2>3. cut' \in BOOLEAN
    BY <1>6, <1>8, <1>11
  <2>4. QED
    BY <2>1, <2>2, <2>3
<1>15. ASSUME h.cmd # "close"
       PROVE  \E ls : /\ Reaction(h, partial, ls)
                      /\ toServer' = IF alive THEN toServer \o ls ELSE toServer
  <2>1. CASE h.cmd = "LS"
    <3>1. CASE h.more
      <4>1. toServer' = IF alive THEN toServer \o <<>> ELSE toServer
        BY <1>7, <2>1, <3>1 DEF OnLs, Write
      <4>2. toServer' = toServer
        BY <4>1, ConcatEmptySeq DEF Typed
      <4>3. QED
        BY <4>2, QuietReaction
    <3>2. CASE ~h.more
      <4> DEFINE request == Tokens(h) \intersect Wanted
      <4>1. Asks(h)
        BY <2>1, <3>2 DEF Asks
      <4>2. CASE request = {}
        <5>1. toServer' = IF alive THEN toServer \o EndNegotiation ELSE toServer
          BY <1>7, <2>1, <3>2, <4>2 DEF OnLs, Write
        <5>2. Reaction(h, partial, EndNegotiation)
          BY <2>1, <4>1, EndReaction
        <5>3. QED
          BY <5>1, <5>2
      <4>3. CASE request # {}
        <5>1. toServer' = IF alive THEN toServer \o <<Msg("REQ", request)>> ELSE toServer
          BY <1>7, <2>1, <3>2, <4>3 DEF OnLs, Write
        <5>2. request \subseteq Caps
          BY CapAssumption
        <5> HIDE DEF request
        <5>3. Msg("REQ", request) \in Written /\ Msg("REQ", request).cmd = "REQ"
          BY <5>2 DEF Msg, Written, Questions
        <5>4. Reaction(h, partial, <<Msg("REQ", request)>>)
          BY <2>1, <4>1, <5>3, WrittenReaction
        <5>5. QED
          BY <5>1, <5>4
      <4>4. QED
        BY <4>2, <4>3
    <3>3. QED
      BY <3>1, <3>2
  <2>2. CASE h.cmd = "ACK"
    <3>1. CASE h.more
      <4>1. toServer' = toServer
        BY <1>7, <2>2, <3>1 DEF OnAck
      <4>2. QED
        BY <4>1, QuietReaction
    <3>2. CASE ~h.more
      <4> DEFINE sasl == "sasl" \in partial["ACK"] \union h.caps /\ HasLogin
      <4>1. Asks(h)
        BY <2>2, <3>2 DEF Asks
      <4>2. toServer' = IF alive THEN toServer \o (IF sasl THEN <<Msg("PLAIN", {})>>
                                         ELSE IF ~registered THEN EndNegotiation ELSE <<>>)
                        ELSE toServer
        BY <1>7, <2>2, <3>2 DEF OnAck, Write, Tokens
      <4>3. CASE sasl
        <5>1. Msg("PLAIN", {}) \in Written /\ Msg("PLAIN", {}).cmd = "PLAIN"
          BY DEF Msg, Written, Questions
        <5>2. Reaction(h, partial, <<Msg("PLAIN", {})>>)
          BY <4>1, <5>1, WrittenReaction
        <5>3. QED
          BY <4>2, <4>3, <5>2
      <4>4. CASE ~sasl /\ ~registered
        <5>1. Reaction(h, partial, EndNegotiation)
          BY <2>2, <4>1, <4>4, EndReaction
        <5>2. QED
          BY <4>2, <4>4, <5>1
      <4>5. CASE ~sasl /\ registered
        <5>1. toServer' = IF alive THEN toServer \o <<>> ELSE toServer
          BY <4>2, <4>5
        <5>2. toServer' = toServer
          BY <5>1, ConcatEmptySeq DEF Typed
        <5>3. QED
          BY <5>2, QuietReaction
      <4>6. QED
        BY <4>3, <4>4, <4>5
    <3>3. QED
      BY <3>1, <3>2
  <2>3. CASE h.cmd = "NEW"
    <3> DEFINE request == h.caps \intersect Wanted
    <3>1. CASE request = {}
      <4>1. toServer' = IF alive THEN toServer \o <<>> ELSE toServer
        BY <1>7, <2>3, <3>1 DEF OnNew, Write
      <4>2. toServer' = toServer
        BY <4>1, ConcatEmptySeq DEF Typed
      <4>3. QED
        BY <4>2, QuietReaction
    <3>2. CASE request # {}
      <4>1. toServer' = IF alive THEN toServer \o <<Msg("REQ", request)>> ELSE toServer
        BY <1>7, <2>3, <3>2 DEF OnNew, Write
      <4>2. request \subseteq Caps
        BY CapAssumption
      <4> HIDE DEF request
      <4>3. Msg("REQ", request) \in Written /\ Msg("REQ", request).cmd = "REQ"
        BY <4>2 DEF Msg, Written, Questions
      <4>4. Reaction(h, partial, <<Msg("REQ", request)>>)
        BY <2>3, <4>3, WrittenReaction
      <4>5. QED
        BY <4>1, <4>4
    <3>3. QED
      BY <3>1, <3>2
  <2>4. CASE h.cmd = "+"
    <3>1. toServer' = IF alive THEN toServer \o <<Msg("LOGIN", {})>> ELSE toServer
      BY <1>7, <2>4 DEF OnAuthenticate, Write
    <3>2. Msg("LOGIN", {}) \in Written /\ Msg("LOGIN", {}).cmd = "LOGIN"
      BY DEF Msg, Written, Questions
    <3>3. Asks(h)
      BY <1>4, <2>4 DEF Asks, Replies
    <3>4. Reaction(h, partial, <<Msg("LOGIN", {})>>)
      BY <2>4, <3>2, <3>3, WrittenReaction
    <3>5. QED
      BY <3>1, <3>4
  <2>5. CASE h.cmd = "903"
    <3>1. toServer' = IF alive THEN toServer \o (IF registered THEN <<>> ELSE EndNegotiation)
                      ELSE toServer
      BY <1>7, <2>5 DEF On903, Write
    <3>2. CASE registered
      <4>1. toServer' = toServer
        BY <3>1, <3>2, ConcatEmptySeq DEF Typed
      <4>2. QED
        BY <4>1, QuietReaction
    <3>3. CASE ~registered
      <4>1. Asks(h)
        BY <1>4, <2>5 DEF Asks, Replies
      <4>2. Reaction(h, partial, EndNegotiation)
        BY <2>5, <4>1, EndReaction
      <4>3. QED
        BY <3>1, <3>3, <4>2
    <3>4. QED
      BY <3>2, <3>3
  <2>6. CASE h.cmd = "904"
    <3>1. CASE registered
      <4>1. toServer' = toServer
        BY <1>7, <2>6, <3>1 DEF On904
      <4>2. QED
        BY <4>1, QuietReaction
    <3>2. CASE ~registered
      <4>1. toServer' = IF alive THEN toServer \o <<Msg("CLOSE", {})>> ELSE toServer
        BY <1>7, <2>6, <3>2 DEF On904, Write
      <4>2. Msg("CLOSE", {}) \in Written /\ Msg("CLOSE", {}).cmd = "CLOSE"
        BY DEF Msg, Written, Questions
      <4>3. Asks(h)
        BY <1>4, <2>6 DEF Asks, Replies
      <4>4. Reaction(h, partial, <<Msg("CLOSE", {})>>)
        BY <2>6, <4>2, <4>3, WrittenReaction
      <4>5. QED
        BY <4>1, <4>4
    <3>3. QED
      BY <3>1, <3>2
  <2>7. CASE h.cmd \in {"LIST", "DEL", "376", "NAK"}
    <3>1. toServer' = toServer
      BY <1>7, <2>7 DEF OnList, OnDel, OnWelcome
    <3>2. QED
      BY <3>1, QuietReaction
  <2>8. QED
    BY <1>5, <1>15, <2>1, <2>2, <2>3, <2>4, <2>5, <2>6, <2>7 DEF Answers, Replies
<1>16. QED
  BY <1>1, <1>2, <1>3, <1>8, <1>9, <1>10, <1>11, <1>12, <1>13, <1>14, <1>15 DEF h

\* The server adds the lines ls; the capabilities that are enabled change as the worker will learn.
Sends(ls) ==
    /\ alive /\ ls \in Seq(Lined) /\ Paired(ls) /\ toWorker' = toWorker \o ls
    /\ UNCHANGED <<caps, partial, registered, closing, closed, lateAck, cut, earlyNew>>
    /\ {alive', held', loggedIn'} \subseteq BOOLEAN
    /\ enabled' \subseteq offered' /\ offered' \subseteq Caps
    /\ \A i \in 1..Len(ls) : ls[i].more => ls[i].cmd \in Replies
    /\ \A i \in 1..Len(ls) : ls[i].cmd = "close" => ~alive' /\ i = Len(ls) /\ i = 1
    /\ alive' => (held' => held) /\ (Completes(ls) <=> held /\ ~held')
    /\ held' # held => toServer # <<>> /\ Head(toServer).cmd = "END"
    /\ \/ ls \in Lines("LIST", enabled) /\ enabled' = enabled
       \/ (\A i \in 1..Len(ls) : ~Replaces(ls[i])) /\ enabled' = enabled \ Withdrawn(ls, 0)
       \/ /\ toServer # <<>> /\ Head(toServer).cmd = "REQ"
          /\ \E i \in 1..Len(ls) : ls[i].cmd = "ACK" /\ ~ls[i].more

\* The server's answer to what it was written, as far as the login is concerned.
Serves(ls) ==
    /\ loggedIn => loggedIn'
    /\ Head(toServer).cmd = "LIST" => ls \in Lines("LIST", enabled)
    /\ Head(toServer).cmd # "REQ" => enabled' = enabled
    /\ \A i \in 1..Len(ls) : Asks(ls[i]) =>
          /\ i = Len(ls) /\ Head(toServer).cmd \in {"LS", "REQ", "PLAIN", "LOGIN"}
          /\ ls[i].cmd = "LS" => Head(toServer).cmd = "LS"
          /\ ls[i].cmd = "NAK" => Head(toServer).cmd = "REQ" /\ enabled' = enabled
          /\ ls[i].cmd = "903" => loggedIn'
          /\ ls[i].cmd = "ACK" =>
                /\ Head(toServer).cmd = "REQ"
                /\ enabled' = enabled \union
                     (ls[i].caps \union (IF i # 1 /\ ls[i - 1].more THEN ls[i - 1].caps ELSE {}))

LEMMA OneSent ==
    ASSUME NEW cmd \in Answers, NEW cs \in SUBSET Caps
    PROVE  LET ls == <<Msg(cmd, cs)>>
           IN  /\ ls \in Seq(Lined) /\ Paired(ls) /\ Len(ls) = 1
               /\ \A i \in 1..Len(ls) : i = 1 /\ ls[i].cmd = cmd /\ ls[i].caps = cs /\ ~ls[i].more
               /\ cmd # "DEL" => Withdrawn(ls, 0) = {}
               /\ cmd = "DEL" => Withdrawn(ls, 0) = cs
<1> DEFINE m == Msg(cmd, cs)
           ls == <<m>>
<1>1. m \in Lined /\ ~m.more /\ m.cmd = cmd /\ m.caps = cs
  BY DEF Msg, Lined
<1> HIDE DEF m
<1>2. ls \in Seq(Lined) /\ Len(ls) = 1 /\ ls[1] = m /\ Paired(ls)
  BY <1>1, OneLine
<1> HIDE DEF ls
<1>3. \A i \in 1..Len(ls) : i = 1 /\ ls[i] = m
  BY <1>2
<1>4. 1 \in 1..Len(ls) /\ 1 > 0
  BY <1>2
<1>5. Withdrawn(ls, 0) = {c \in Caps : m.cmd = "DEL" /\ c \in m.caps}
  BY <1>3, <1>4 DEF Withdrawn
<1>6. QED
  BY <1>1, <1>2, <1>3, <1>5 DEF ls, m

LEMMA Announces ==
    ASSUME Typed, ServerAnnounces
    PROVE  toServer' = toServer /\ loggedIn' = loggedIn /\ enabled' \subseteq enabled
           /\ \E ls : Sends(ls) /\ held' = held /\ \A i \in 1..Len(ls) : ~Asks(ls[i])
<1>1. /\ alive /\ alive' = alive /\ held' = held /\ loggedIn' = loggedIn /\ toServer' = toServer
      /\ UNCHANGED <<caps, partial, registered, closing, closed, lateAck, cut, earlyNew>>
  BY DEF ServerAnnounces, worker
<1>2. {alive', held', loggedIn'} \subseteq BOOLEAN
  BY <1>1 DEF Typed, TypeOK
<1>3. enabled \subseteq offered /\ offered \subseteq Caps
  BY DEF Typed, TypeOK
<1>4. PICK c \in Caps :
          \/ /\ c \notin offered
             /\ offered' = offered \union {c}
             /\ toWorker' = toWorker \o <<Msg("NEW", {c})>>
             /\ UNCHANGED enabled
          \/ /\ c \in offered
             /\ offered' = offered \ {c}
             /\ enabled' = enabled \ {c}
             /\ toWorker' = toWorker \o <<Msg("DEL", {c})>>
  BY DEF ServerAnnounces, Send
<1>5. {"NEW", "DEL"} \subseteq Answers /\ {c} \in SUBSET Caps
  BY DEF Answers
<1>6. CASE /\ c \notin offered
           /\ offered' = offered \union {c}
           /\ toWorker' = toWorker \o <<Msg("NEW", {c})>>
           /\ UNCHANGED enabled
  <2> DEFINE ls == <<Msg("NEW", {c})>>
  <2>1. /\ ls \in Seq(Lined) /\ Paired(ls) /\ Len(ls) = 1
        /\ \A i \in 1..Len(ls) : i = 1 /\ ls[i].cmd = "NEW" /\ ~ls[i].more
        /\ Withdrawn(ls, 0) = {}
    BY <1>5, OneSent
  <2>2. toWorker' = toWorker \o ls /\ enabled' = enabled /\ offered' = offered \union {c}
    BY <1>6
  <2> HIDE DEF ls
  <2>3. ~Completes(ls) /\ \A i \in 1..Len(ls) : ~Replaces(ls[i]) /\ ~Asks(ls[i])
    BY <2>1 DEF Completes, Replaces, Asks
  <2>4. enabled' = enabled \ Withdrawn(ls, 0)
    BY <2>1, <2>2
  <2>5. enabled' \subseteq offered' /\ offered' \subseteq Caps
    BY <1>3, <2>2
  <2>6. Sends(ls)
    BY <1>1, <1>2, <2>1, <2>2, <2>3, <2>4, <2>5 DEF Sends
  <2>7. QED
    BY <1>1, <2>2, <2>3, <2>6
<1>7. CASE /\ c \in offered
           /\ offered' = offered \ {c}
           /\ enabled' = enabled \ {c}
           /\ toWorker' = toWorker \o <<Msg("DEL", {c})>>
  <2> DEFINE ls == <<Msg("DEL", {c})>>
  <2>1. /\ ls \in Seq(Lined) /\ Paired(ls) /\ Len(ls) = 1
        /\ \A i \in 1..Len(ls) : i = 1 /\ ls[i].cmd = "DEL" /\ ~ls[i].more
        /\ Withdrawn(ls, 0) = {c}
    BY <1>5, OneSent
  <2>2. toWorker' = toWorker \o ls /\ enabled' = enabled \ {c} /\ offered' = offered \ {c}
    BY <1>7
  <2> HIDE DEF ls
  <2>3. ~Completes(ls) /\ \A i \in 1..Len(ls) : ~Replaces(ls[i]) /\ ~Asks(ls[i])
    BY <2>1 DEF Completes, Replaces, Asks
  <2>4. enabled' = enabled \ Withdrawn(ls, 0)
    BY <2>1, <2>2
  <2>5. enabled' \subseteq offered' /\ offered' \subseteq Caps /\ enabled' \subseteq enabled
    BY <1>3, <2>2
  <2>6. Sends(ls)
    BY <1>1, <1>2, <2>1, <2>2, <2>3, <2>4, <2>5 DEF Sends
  <2>7. QED
    BY <1>1, <2>3, <2>5, <2>6
<1>8. QED
  BY <1>4, <1>6, <1>7

LEMMA Served ==
    ASSUME Typed, ServerHandles
    PROVE  /\ alive /\ toServer # <<>> /\ toServer' = Tail(toServer) /\ Head(toServer) \in Written
           /\ \E ls : Sends(ls) /\ Serves(ls)
<1> DEFINE m == Head(toServer)
<1>1. /\ alive /\ toServer # <<>> /\ toServer' = Tail(toServer) /\ toServer \in Seq(Written)
      /\ offered' = offered
      /\ UNCHANGED <<caps, partial, registered, closing, closed, lateAck, cut, earlyNew>>
  BY DEF ServerHandles, worker, Typed
<1>2. m \in Written
  BY <1>1, HeadTailProperties
<1>3. m.caps \subseteq Caps /\ m.cmd \in Questions
  BY <1>2 DEF Written
<1>4. /\ enabled \subseteq offered /\ offered \subseteq Caps
      /\ {alive, held, loggedIn} \subseteq BOOLEAN
  BY DEF Typed, TypeOK
<1>5. \/ /\ m.cmd = "LS"
         /\ \E ls \in Lines("LS", offered) : toWorker' = toWorker \o ls
         /\ UNCHANGED <<alive, enabled, held, loggedIn>>
      \/ /\ m.cmd = "LIST"
         /\ \E ls \in Lines("LIST", enabled) : toWorker' = toWorker \o ls
         /\ UNCHANGED <<alive, enabled, held, loggedIn>>
      \/ /\ m.cmd = "REQ"
         /\ m.caps \subseteq offered
         /\ enabled' = enabled \union m.caps
         /\ \E ls \in Lines("ACK", m.caps) : toWorker' = toWorker \o ls
         /\ UNCHANGED <<alive, held, loggedIn>>
      \/ /\ m.cmd = "REQ"
         /\ toWorker' = toWorker \o <<Msg("NAK", m.caps)>>
         /\ UNCHANGED <<alive, enabled, held, loggedIn>>
      \/ /\ m.cmd = "PLAIN"
         /\ toWorker' = toWorker \o <<Msg("+", {})>>
         /\ UNCHANGED <<alive, enabled, held, loggedIn>>
      \/ /\ m.cmd = "LOGIN"
         /\ loggedIn' = TRUE /\ toWorker' = toWorker \o <<Msg("903", {})>>
         /\ UNCHANGED <<alive, enabled, held>>
      \/ /\ m.cmd = "LOGIN"
         /\ toWorker' = toWorker \o <<Msg("904", {})>>
         /\ UNCHANGED <<alive, enabled, held, loggedIn>>
      \/ /\ m.cmd = "END" /\ held' = FALSE
         /\ toWorker' = toWorker \o (IF held THEN <<Msg("376", {})>> ELSE <<>>)
         /\ UNCHANGED <<alive, enabled, loggedIn>>
      \/ /\ m.cmd = "CLOSE" /\ alive' = FALSE
         /\ toWorker' = toWorker \o <<Msg("close", {})>>
         /\ UNCHANGED <<enabled, held, loggedIn>>
  BY DEF ServerHandles, Answer, Send
<1> SUFFICES \E ls : Sends(ls) /\ Serves(ls)
  BY <1>1, <1>2
<1> HIDE DEF m
\* An answer of one line that is no ACK or LIST.
<1>6. ASSUME NEW cmd \in Answers \ {"ACK", "LIST", "DEL", "LS", "376"}, NEW cs \in SUBSET Caps,
             toWorker' = toWorker \o <<Msg(cmd, cs)>>, enabled' = enabled, held' = held,
             loggedIn' \in BOOLEAN, loggedIn => loggedIn',
             cmd = "close" => alive' = FALSE, cmd # "close" => alive' = alive,
             cmd \in {"NAK", "+", "903", "904"} => m.cmd \in {"REQ", "PLAIN", "LOGIN"},
             cmd = "NAK" => m.cmd = "REQ", cmd = "903" => loggedIn', m.cmd # "LIST"
      PROVE  \E ls : Sends(ls) /\ Serves(ls)
  <2> DEFINE ls == <<Msg(cmd, cs)>>
  <2>1. /\ ls \in Seq(Lined) /\ Paired(ls) /\ Len(ls) = 1
        /\ \A i \in 1..Len(ls) : i = 1 /\ ls[i].cmd = cmd /\ ~ls[i].more
        /\ Withdrawn(ls, 0) = {}
    BY <1>6, OneSent
  <2>2. toWorker' = toWorker \o ls
    BY <1>6
  <2> HIDE DEF ls
  <2>3. ~Completes(ls) /\ \A i \in 1..Len(ls) : ~Replaces(ls[i])
    BY <1>6, <2>1 DEF Completes, Replaces
  <2>4. enabled' = enabled \ Withdrawn(ls, 0)
    BY <1>6, <2>1
  <2>5. \A i \in 1..Len(ls) : ls[i].cmd = "close" => ~alive' /\ i = Len(ls) /\ i = 1
    BY <1>6, <2>1
  <2>6. {alive', held', loggedIn'} \subseteq BOOLEAN
    BY <1>4, <1>6
  <2>7. Sends(ls)
    BY <1>1, <1>4, <1>6, <2>1, <2>2, <2>3, <2>4, <2>5, <2>6 DEF Sends
  <2>8. \A i \in 1..Len(ls) : Asks(ls[i]) => i = Len(ls) /\ cmd \in {"NAK", "+", "903", "904"}
    BY <1>6, <2>1 DEF Asks
  <2>9. Serves(ls)
    BY <1>6, <2>1, <2>8 DEF Serves, m
  <2>10. QED
    BY <2>7, <2>9
<1>7. {"NAK", "+", "903", "904", "close"} \subseteq Answers \ {"ACK", "LIST", "DEL", "LS", "376"}
  BY DEF Answers, Replies
<1>8. {} \in SUBSET Caps
  OBVIOUS
<1>9. CASE /\ m.cmd = "LS"
           /\ \E ls \in Lines("LS", offered) : toWorker' = toWorker \o ls
           /\ UNCHANGED <<alive, enabled, held, loggedIn>>
  <2>1. PICK ls \in Lines("LS", offered) : toWorker' = toWorker \o ls
    BY <1>9
  <2>2. /\ ls \in Seq(Lined) /\ Paired(ls) /\ Len(ls) \in {1, 2}
        /\ \A i \in 1..Len(ls) : ls[i].cmd = "LS"
        /\ ~ls[Len(ls)].more /\ (Len(ls) = 2 => ls[1].more)
    BY <1>4, ReplyLines DEF Replies
  <2>3. ~Completes(ls) /\ (\A i \in 1..Len(ls) : ~Replaces(ls[i])) /\ Withdrawn(ls, 0) = {}
    BY <2>2 DEF Completes, Replaces, Withdrawn
  <2>4. enabled' = enabled \ Withdrawn(ls, 0)
    BY <1>9, <2>3
  <2>5. {alive', held', loggedIn'} \subseteq BOOLEAN /\ "LS" \in Replies
    BY <1>4, <1>9 DEF Replies
  <2>6. Sends(ls)
    BY <1>1, <1>4, <1>9, <2>1, <2>2, <2>3, <2>4, <2>5 DEF Sends
  <2>7. ASSUME NEW i \in 1..Len(ls), Asks(ls[i])
        PROVE  i = Len(ls)
    <3>1. ~ls[i].more
      BY <2>7 DEF Asks
    <3>2. i = 1 \/ i = Len(ls)
      BY <2>2
    <3>3. QED
      BY <2>2, <3>1, <3>2
  <2>8. Serves(ls)
    BY <1>9, <2>2, <2>7 DEF Serves, m
  <2>9. QED
    BY <2>6, <2>8
<1>10. CASE /\ m.cmd = "LIST"
            /\ \E ls \in Lines("LIST", enabled) : toWorker' = toWorker \o ls
            /\ UNCHANGED <<alive, enabled, held, loggedIn>>
  <2>1. PICK ls \in Lines("LIST", enabled) : toWorker' = toWorker \o ls
    BY <1>10
  <2>2. /\ ls \in Seq(Lined) /\ Paired(ls)
        /\ \A i \in 1..Len(ls) : ls[i].cmd = "LIST"
    BY <1>4, ReplyLines DEF Replies
  <2>3. ~Completes(ls) /\ \A i \in 1..Len(ls) : ~Asks(ls[i])
    BY <2>2 DEF Completes, Asks
  <2>4. {alive', held', loggedIn'} \subseteq BOOLEAN /\ "LIST" \in Replies
    BY <1>4, <1>10 DEF Replies
  <2>5. Sends(ls)
    BY <1>1, <1>4, <1>10, <2>1, <2>2, <2>3, <2>4 DEF Sends
  <2>6. Serves(ls)
    BY <1>10, <2>3 DEF Serves, m
  <2>7. QED
    BY <2>5, <2>6
<1>11. CASE /\ m.cmd = "REQ"
            /\ m.caps \subseteq offered
            /\ enabled' = enabled \union m.caps
            /\ \E ls \in Lines("ACK", m.caps) : toWorker' = toWorker \o ls
            /\ UNCHANGED <<alive, held, loggedIn>>
  <2>1. PICK ls \in Lines("ACK", m.caps) : toWorker' = toWorker \o ls
    BY <1>11
  <2>2. /\ ls \in Seq(Lined) /\ Paired(ls) /\ Len(ls) \in {1, 2}
        /\ \A i \in 1..Len(ls) : ls[i].cmd = "ACK"
        /\ ~ls[Len(ls)].more
        /\ Len(ls) = 1 => ls[1].caps = m.caps
        /\ Len(ls) = 2 => ls[1].more /\ ls[1].caps \union ls[2].caps = m.caps
    BY <1>3, ReplyLines DEF Replies
  <2>3. ~Completes(ls) /\ Len(ls) \in 1..Len(ls)
    BY <2>2 DEF Completes
  <2>4. {alive', held', loggedIn'} \subseteq BOOLEAN /\ "ACK" \in Replies
    BY <1>4, <1>11 DEF Replies
  <2>5. enabled' \subseteq offered'
    BY <1>1, <1>4, <1>11
  <2>6. \E i \in 1..Len(ls) : ls[i].cmd = "ACK" /\ ~ls[i].more
    BY <2>2, <2>3
  <2>7. Sends(ls)
    BY <1>1, <1>4, <1>11, <2>1, <2>2, <2>3, <2>4, <2>5, <2>6 DEF Sends, m
  <2>8. ASSUME NEW i \in 1..Len(ls), Asks(ls[i])
        PROVE  /\ i = Len(ls) /\ ls[i].cmd = "ACK"
               /\ m.caps = ls[i].caps \union (IF i # 1 /\ ls[i - 1].more THEN ls[i - 1].caps
                                              ELSE {})
    <3>1. ls[i].cmd = "ACK" /\ ~ls[i].more
      BY <2>2, <2>8 DEF Asks
    <3>2. CASE Len(ls) = 1
      <4>1. i = 1
        BY <3>2
      <4>2. QED
        BY <2>2, <3>1, <3>2, <4>1
    <3>3. CASE Len(ls) = 2
      <4>1. i = 2 /\ i - 1 = 1
        BY <2>2, <3>1, <3>3
      <4>2. QED
        BY <2>2, <3>1, <3>3, <4>1
    <3>4. QED
      BY <2>2, <3>2, <3>3
  <2>9. Serves(ls)
    BY <1>11, <2>8 DEF Serves, m
  <2>10. QED
    BY <2>7, <2>9
<1>12. CASE /\ m.cmd = "REQ"
            /\ toWorker' = toWorker \o <<Msg("NAK", m.caps)>>
            /\ UNCHANGED <<alive, enabled, held, loggedIn>>
  BY <1>3, <1>4, <1>6, <1>7, <1>12
<1>13. CASE /\ m.cmd = "PLAIN"
            /\ toWorker' = toWorker \o <<Msg("+", {})>>
            /\ UNCHANGED <<alive, enabled, held, loggedIn>>
  BY <1>4, <1>6, <1>7, <1>8, <1>13
<1>14. CASE /\ m.cmd = "LOGIN"
            /\ loggedIn' = TRUE /\ toWorker' = toWorker \o <<Msg("903", {})>>
            /\ UNCHANGED <<alive, enabled, held>>
  BY <1>4, <1>6, <1>7, <1>8, <1>14
<1>15. CASE /\ m.cmd = "LOGIN"
            /\ toWorker' = toWorker \o <<Msg("904", {})>>
            /\ UNCHANGED <<alive, enabled, held, loggedIn>>
  BY <1>4, <1>6, <1>7, <1>8, <1>15
<1>16. CASE /\ m.cmd = "END" /\ held' = FALSE
            /\ toWorker' = toWorker \o (IF held THEN <<Msg("376", {})>> ELSE <<>>)
            /\ UNCHANGED <<alive, enabled, loggedIn>>
  <2>1. {alive', held', loggedIn'} \subseteq BOOLEAN
    BY <1>4, <1>16
  <2>2. CASE held
    <3> DEFINE ls == <<Msg("376", {})>>
    <3>1. /\ ls \in Seq(Lined) /\ Paired(ls) /\ Len(ls) = 1
          /\ \A i \in 1..Len(ls) : i = 1 /\ ls[i].cmd = "376" /\ ~ls[i].more
          /\ Withdrawn(ls, 0) = {}
      BY <1>8, OneSent DEF Answers
    <3>2. toWorker' = toWorker \o ls
      BY <1>16, <2>2
    <3> HIDE DEF ls
    <3>3. Completes(ls) /\ \A i \in 1..Len(ls) : ~Replaces(ls[i]) /\ ~Asks(ls[i])
      <4>1. 1 \in 1..Len(ls)
        BY <3>1
      <4>2. QED
        BY <3>1, <4>1 DEF Completes, Replaces, Asks
    <3>4. enabled' = enabled \ Withdrawn(ls, 0)
      BY <1>16, <3>1
    <3>5. Sends(ls)
      BY <1>1, <1>4, <1>16, <2>1, <2>2, <3>1, <3>2, <3>3, <3>4 DEF Sends, m
    <3>6. Serves(ls)
      BY <1>16, <3>3 DEF Serves, m
    <3>7. QED
      BY <3>5, <3>6
  <2>3. CASE ~held
    <3> DEFINE ls == <<>>
    <3>1. ls \in Seq(Lined) /\ Len(ls) = 0 /\ \A i \in 1..Len(ls) : FALSE
      BY EmptySeq
    <3>2. toWorker' = toWorker \o ls
      BY <1>16, <2>3
    <3> HIDE DEF ls
    <3>3. Paired(ls) /\ ~Completes(ls) /\ Withdrawn(ls, 0) = {}
      BY <3>1 DEF Paired, Completes, Withdrawn
    <3>4. enabled' = enabled \ Withdrawn(ls, 0)
      BY <1>16, <3>3
    <3>5. Sends(ls)
      BY <1>1, <1>4, <1>16, <2>1, <2>3, <3>1, <3>2, <3>3, <3>4 DEF Sends, m
    <3>6. Serves(ls)
      BY <1>16, <3>1 DEF Serves, m
    <3>7. QED
      BY <3>5, <3>6
  <2>4. QED
    BY <1>4, <2>2, <2>3
<1>17. CASE /\ m.cmd = "CLOSE" /\ alive' = FALSE
            /\ toWorker' = toWorker \o <<Msg("close", {})>>
            /\ UNCHANGED <<enabled, held, loggedIn>>
  BY <1>4, <1>6, <1>7, <1>8, <1>17
<1>18. QED
  BY <1>5, <1>9, <1>10, <1>11, <1>12, <1>13, <1>14, <1>15, <1>16, <1>17

-----------------------------------------------------------------------------
(* The invariant.                                                          *)

LEMMA ServerSends ==
    ASSUME Typed, ServerHandles \/ ServerAnnounces
    PROVE  alive /\ \E ls : Sends(ls)
<1>1. CASE ServerHandles
  BY <1>1, Served
<1>2. CASE ServerAnnounces
  <2>1. \E ls : Sends(ls)
    BY <1>2, Announces
  <2>2. QED
    BY <2>1 DEF Sends
<1>3. QED
  BY <1>1, <1>2

LEMMA Dropped ==
    ASSUME Typed, Drop
    PROVE  /\ alive /\ alive' = FALSE
           /\ UNCHANGED <<worker, toServer, offered, enabled, held, loggedIn,
                           lateAck, cut, earlyNew>>
           /\ toWorker' \in Seq(Lined)
           /\ \E k \in 0..Len(toWorker) :
                 /\ Len(toWorker') = k + 1 /\ toWorker'[k + 1] = Msg("close", {})
                 /\ \A i \in 1..k : toWorker'[i] = toWorker[i]
<1>1. /\ alive /\ alive' = FALSE
      /\ UNCHANGED <<worker, toServer, offered, enabled, held, loggedIn, lateAck, cut, earlyNew>>
  BY DEF Drop
<1>2. PICK k \in 0..Len(toWorker) : toWorker' = Append(SubSeq(toWorker, 1, k), Msg("close", {}))
  BY DEF Drop
<1>3. toWorker \in Seq(Lined) /\ Len(toWorker) \in Nat
  BY LenProperties DEF Typed
<1>4. \A i \in 1..k : toWorker[i] \in Lined
  BY <1>3, ElementOfSeq
<1> DEFINE s == SubSeq(toWorker, 1, k)
<1>5. s \in Seq(Lined) /\ Len(s) = k /\ \A i \in 1..k : s[i] = toWorker[i]
  <2>1. k \in Int /\ 1 \in Int
    BY <1>3
  <2>2. /\ s \in Seq(Lined)
        /\ Len(s) = IF 1 <= k THEN k - 1 + 1 ELSE 0
        /\ \A i \in 1..(k - 1 + 1) : s[i] = toWorker[1 + i - 1]
    BY <1>4, <2>1, SubSeqProperties
  <2>3. QED
    BY <1>3, <2>2
<1>6. Msg("close", {}) \in Lined
  BY DEF Msg, Lined, Answers
<1> HIDE DEF s
<1>7. toWorker' = Append(s, Msg("close", {}))
  BY <1>2 DEF s
<1>8. /\ toWorker' \in Seq(Lined) /\ Len(toWorker') = k + 1
      /\ toWorker'[k + 1] = Msg("close", {})
      /\ \A i \in 1..k : toWorker'[i] = s[i]
  BY <1>3, <1>5, <1>6, <1>7, AppendProperties
<1>9. QED
  BY <1>1, <1>5, <1>8

\* What is written comes to the line in some order that puts no END first.
LEMMA ReactionLines ==
    ASSUME NEW msg, NEW parts, NEW ls, Reaction(msg, parts, ls)
    PROVE  /\ ls \in Seq(Written) /\ Len(ls) \in Nat
           /\ \A i \in 1..Len(ls) : ls[i].cmd = "END" => i # 1 /\ ls[i - 1].cmd = "LIST"
<1>1. CASE ls = <<>>
  BY <1>1, NoneWritten
<1>2. CASE ls = EndNegotiation
  <2>1. \A i \in 1..Len(ls) : i = 1 \/ i = 2
    BY <1>2, EndWritten
  <2>2. QED
    BY <1>2, <2>1, EndWritten
<1>3. CASE \E m \in Written : m.cmd # "END" /\ ls = <<m>>
  <2>1. PICK m \in Written : m.cmd # "END" /\ ls = <<m>>
    BY <1>3
  <2>2. ls \in Seq(Written) /\ Len(ls) = 1 /\ ls[1] = m
    BY <2>1, OneWritten
  <2>3. QED
    BY <2>1, <2>2
<1>4. QED
  BY <1>1, <1>2, <1>3 DEF Reaction

LEMMA TypedStep ==
    ASSUME IInv, [Next]_vars
    PROVE  Typed'
<1> USE DEF IInv
<1>1. /\ toServer \in Seq(Written) /\ toWorker \in Seq(Lined) /\ TypeOK
      /\ \A i \in 1..Len(toWorker) : toWorker[i].more => toWorker[i].cmd \in Replies
      /\ {closed, lateAck, cut, earlyNew} \subseteq BOOLEAN
  BY DEF Typed
<1>2. CASE WorkerHandles
  <2> DEFINE h == Head(toWorker)
  <2>1. /\ toWorker # <<>> /\ toWorker' = Tail(toWorker)
        /\ UNCHANGED <<alive, offered, enabled, held, loggedIn>>
        /\ partial' \in [Replies -> SUBSET Caps] /\ caps' \in SUBSET Caps
        /\ {registered', closing', closed', lateAck', earlyNew', cut'} \subseteq BOOLEAN
        /\ h.cmd = "close" => toServer' = <<>>
        /\ h.cmd # "close" => \E ls : /\ Reaction(h, partial, ls)
                                      /\ toServer' = IF alive THEN toServer \o ls ELSE toServer
    BY <1>2, Handled
  <2> HIDE DEF h
  <2>2. TypeOK'
    BY <1>1, <2>1 DEF TypeOK
  <2>3. toServer' \in Seq(Written)
    <3>1. CASE h.cmd = "close"
      BY <2>1, <3>1, NoneWritten
    <3>2. CASE h.cmd # "close"
      <4>1. PICK ls : Reaction(h, partial, ls)
                      /\ toServer' = IF alive THEN toServer \o ls ELSE toServer
        BY <2>1, <3>2
      <4>2. ls \in Seq(Written)
        BY <4>1, ReactionLines
      <4>3. toServer \o ls \in Seq(Written)
        BY <1>1, <4>2, JoinLines
      <4>4. QED
        BY <1>1, <4>1, <4>3
    <3>3. QED
      BY <3>1, <3>2
  <2>4. /\ toWorker' \in Seq(Lined)
        /\ \A i \in 1..Len(toWorker') : toWorker'[i].more => toWorker'[i].cmd \in Replies
    <3>1. /\ Tail(toWorker) \in Seq(Lined) /\ Len(toWorker) \in Nat
          /\ Len(Tail(toWorker)) \in Nat /\ Len(toWorker) = Len(Tail(toWorker)) + 1
          /\ \A i \in 1..Len(Tail(toWorker)) : Tail(toWorker)[i] = toWorker[i + 1]
      BY <1>1, <2>1, TailLines
    <3>2. \A i \in 1..Len(Tail(toWorker)) : i + 1 \in 1..Len(toWorker)
      BY <3>1
    <3>3. QED
      BY <1>1, <2>1, <3>1, <3>2
  <2>5. QED
    BY <2>1, <2>2, <2>3, <2>4 DEF Typed
<1>3. CASE Reopen
  <2>1. TypeOK'
    BY <1>1, <1>3 DEF Reopen, TypeOK, world
  <2>2. Msg("LS", {}) \in Written
    BY DEF Msg, Written, Questions
  <2>3. toServer' \in Seq(Written)
    BY <1>3, <2>2, OneWritten DEF Reopen
  <2>4. QED
    BY <1>1, <1>3, <2>1, <2>3 DEF Reopen, Typed, world
<1>4. CASE ServerHandles \/ ServerAnnounces
  <2>1. PICK ls : Sends(ls)
    BY <1>4, ServerSends
  <2>2. /\ UNCHANGED <<caps, partial, registered, closing, closed, lateAck, cut, earlyNew>>
        /\ {alive', held', loggedIn'} \subseteq BOOLEAN
        /\ enabled' \subseteq offered' /\ offered' \subseteq Caps
        /\ toWorker' = toWorker \o ls /\ ls \in Seq(Lined)
        /\ \A i \in 1..Len(ls) : ls[i].more => ls[i].cmd \in Replies
    BY <2>1 DEF Sends
  <2>3. TypeOK'
    BY <1>1, <2>2 DEF TypeOK
  <2>4. toServer' \in Seq(Written)
    <3>1. CASE ServerHandles
      <4>1. toServer # <<>> /\ toServer' = Tail(toServer)
        BY <3>1, Served
      <4>2. QED
        BY <1>1, <4>1, HeadTailProperties
    <3>2. CASE ServerAnnounces
      <4>1. toServer' = toServer
        BY <3>2, Announces
      <4>2. QED
        BY <1>1, <4>1
    <3>3. QED
      BY <1>4, <3>1, <3>2
  <2>5. /\ toWorker' \in Seq(Lined)
        /\ \A i \in 1..Len(toWorker') : toWorker'[i].more => toWorker'[i].cmd \in Replies
    <3> DEFINE r == toWorker \o ls
    <3>1. /\ r \in Seq(Lined) /\ Len(toWorker) \in Nat /\ Len(ls) \in Nat
          /\ Len(r) = Len(toWorker) + Len(ls)
          /\ \A i \in 1..Len(toWorker) : r[i] = toWorker[i]
          /\ \A i \in 1..Len(ls) : r[Len(toWorker) + i] = ls[i]
      BY <1>1, <2>2, JoinLines
    <3> HIDE DEF r
    <3>2. ASSUME NEW i \in 1..Len(r), r[i].more
          PROVE  r[i].cmd \in Replies
      <4>1. CASE i <= Len(toWorker)
        <5>1. i \in 1..Len(toWorker) /\ r[i] = toWorker[i]
          BY <3>1, <4>1
        <5>2. QED
          BY <1>1, <3>2, <5>1
      <4>2. CASE ~(i <= Len(toWorker))
        <5>1. i - Len(toWorker) \in 1..Len(ls) /\ i = Len(toWorker) + (i - Len(toWorker))
          BY <3>1, <4>2
        <5>2. r[i] = ls[i - Len(toWorker)]
          BY <3>1, <5>1
        <5>3. QED
          BY <2>2, <3>2, <5>1, <5>2
      <4>3. QED
        BY <4>1, <4>2
    <3>3. toWorker' = r
      BY <2>2 DEF r
    <3>4. QED
      BY <3>1, <3>2, <3>3
  <2>6. QED
    BY <1>1, <2>2, <2>3, <2>4, <2>5 DEF Typed
<1>5. CASE Drop
  <2>1. /\ alive' = FALSE
        /\ UNCHANGED <<worker, toServer, offered, enabled, held, loggedIn, lateAck, cut, earlyNew>>
        /\ toWorker' \in Seq(Lined)
    BY <1>5, Dropped
  <2>2. PICK k \in 0..Len(toWorker) :
            /\ Len(toWorker') = k + 1 /\ toWorker'[k + 1] = Msg("close", {})
            /\ \A i \in 1..k : toWorker'[i] = toWorker[i]
    BY <1>5, Dropped
  <2>3. Len(toWorker) \in Nat
    BY <1>1, LenProperties
  <2>4. ASSUME NEW i \in 1..Len(toWorker'), toWorker'[i].more
        PROVE  toWorker'[i].cmd \in Replies
    <3>1. CASE i = k + 1
      BY <2>2, <2>4, <3>1 DEF Msg
    <3>2. CASE i # k + 1
      <4>1. i \in 1..k /\ i \in 1..Len(toWorker)
        BY <2>2, <2>3, <3>2
      <4>2. QED
        BY <1>1, <2>2, <2>4, <4>1
    <3>3. QED
      BY <3>1, <3>2
  <2>5. TypeOK'
    BY <1>1, <2>1 DEF TypeOK, worker
  <2>6. QED
    BY <1>1, <2>1, <2>4, <2>5 DEF Typed, worker
<1>6. CASE UNCHANGED vars
  BY <1>1, <1>6 DEF vars, worker, server, world, Typed, TypeOK
<1>7. QED
  BY <1>2, <1>3, <1>4, <1>5, <1>6 DEF Next

LEMMA LastIsCloseStep ==
    ASSUME IInv, [Next]_vars
    PROVE  LastIsClose'
<1>1. /\ Typed /\ LastIsClose /\ toWorker \in Seq(Lined)
  BY DEF IInv, Typed
<1>2. CASE WorkerHandles
  <2> DEFINE h == Head(toWorker)
             t == Tail(toWorker)
  <2>1. /\ toWorker # <<>> /\ toWorker' = t /\ alive' = alive
        /\ h.cmd = "close" => closed' /\ ~registered'
        /\ h.cmd # "close" => closed' = closed
    BY <1>1, <1>2, Handled
  <2>2. /\ t \in Seq(Lined) /\ Len(toWorker) \in Nat /\ Len(t) \in Nat
        /\ Len(toWorker) = Len(t) + 1 /\ toWorker[1] = h
        /\ \A i \in 1..Len(t) : t[i] = toWorker[i + 1]
    BY <1>1, <2>1, TailLines
  <2> HIDE DEF h, t
  <2>3. closed' => toWorker' = <<>> /\ ~alive' /\ ~registered'
    <3>1. CASE h.cmd = "close"
      <4>1. 1 \in 1..Len(toWorker)
        BY <2>2
      <4>2. 1 = Len(toWorker) /\ ~alive
        BY <1>1, <2>2, <3>1, <4>1 DEF LastIsClose
      <4>3. Len(t) = 0
        BY <2>2, <4>2
      <4>4. t = <<>>
        BY <2>2, <4>3, EmptySeq
      <4>5. QED
        BY <2>1, <3>1, <4>2, <4>4
    <3>2. CASE h.cmd # "close"
      BY <1>1, <2>1, <3>2 DEF LastIsClose
    <3>3. QED
      BY <3>1, <3>2
  <2>4. ASSUME NEW i \in 1..Len(t), t[i].cmd = "close"
        PROVE  i = Len(t) /\ ~alive
    <3>1. i + 1 \in 1..Len(toWorker) /\ toWorker[i + 1].cmd = "close"
      BY <2>2, <2>4
    <3>2. i + 1 = Len(toWorker) /\ ~alive
      BY <1>1, <3>1 DEF LastIsClose
    <3>3. QED
      BY <2>2, <3>2
  <2>5. QED
    BY <2>1, <2>3, <2>4 DEF LastIsClose
<1>3. CASE Reopen
  <2>1. toWorker' = <<>> /\ closed' = FALSE
    BY <1>1, <1>3 DEF Reopen, LastIsClose
  <2>2. Len(<<>>) = 0
    BY EmptySeq
  <2>3. QED
    BY <2>1, <2>2 DEF LastIsClose
<1>4. CASE ServerHandles \/ ServerAnnounces
  <2>1. alive
    BY <1>1, <1>4, ServerSends
  <2>2. PICK ls : Sends(ls)
    BY <1>1, <1>4, ServerSends
  <2>3. /\ closed' = closed /\ toWorker' = toWorker \o ls /\ ls \in Seq(Lined)
        /\ \A i \in 1..Len(ls) : ls[i].cmd = "close" => ~alive' /\ i = Len(ls)
    BY <2>2 DEF Sends
  <2>4. ~closed /\ \A i \in 1..Len(toWorker) : toWorker[i].cmd # "close"
    BY <1>1, <2>1 DEF LastIsClose
  <2> DEFINE r == toWorker \o ls
  <2>5. /\ Len(toWorker) \in Nat /\ Len(ls) \in Nat
        /\ Len(r) = Len(toWorker) + Len(ls)
        /\ \A i \in 1..Len(toWorker) : r[i] = toWorker[i]
        /\ \A i \in 1..Len(ls) : r[Len(toWorker) + i] = ls[i]
    BY <1>1, <2>3, JoinLines
  <2> HIDE DEF r
  <2>6. ASSUME NEW i \in 1..Len(r), r[i].cmd = "close"
        PROVE  i = Len(r) /\ ~alive'
    <3>1. ~(i <= Len(toWorker))
      <4>1. i <= Len(toWorker) => i \in 1..Len(toWorker)
        BY <2>5
      <4>2. QED
        BY <2>4, <2>5, <2>6, <4>1
    <3>2. i - Len(toWorker) \in 1..Len(ls) /\ i = Len(toWorker) + (i - Len(toWorker))
      BY <2>5, <3>1
    <3>3. ls[i - Len(toWorker)].cmd = "close"
      BY <2>5, <2>6, <3>2
    <3>4. ~alive' /\ i - Len(toWorker) = Len(ls)
      BY <2>3, <3>2, <3>3
    <3>5. QED
      BY <2>5, <3>4
  <2>7. toWorker' = r
    BY <2>3 DEF r
  <2>8. QED
    BY <2>3, <2>4, <2>6, <2>7 DEF LastIsClose
<1>5. CASE Drop
  <2>1. alive /\ alive' = FALSE /\ closed' = closed
    BY <1>1, <1>5, Dropped DEF worker
  <2>2. PICK k \in 0..Len(toWorker) :
            /\ Len(toWorker') = k + 1 /\ toWorker'[k + 1] = Msg("close", {})
            /\ \A i \in 1..k : toWorker'[i] = toWorker[i]
    BY <1>1, <1>5, Dropped
  <2>3. Len(toWorker) \in Nat
    BY <1>1, LenProperties
  <2>4. ~closed /\ \A i \in 1..Len(toWorker) : toWorker[i].cmd # "close"
    BY <1>1, <2>1 DEF LastIsClose
  <2>5. ASSUME NEW i \in 1..Len(toWorker'), toWorker'[i].cmd = "close"
        PROVE  i = Len(toWorker')
    <3>1. i # k + 1 => i \in 1..k /\ i \in 1..Len(toWorker)
      BY <2>2, <2>3
    <3>2. QED
      BY <2>2, <2>4, <2>5, <3>1
  <2>6. QED
    BY <2>1, <2>4, <2>5 DEF LastIsClose
<1>6. CASE UNCHANGED vars
  BY <1>1, <1>6 DEF vars, worker, server, LastIsClose
<1>7. QED
  BY <1>2, <1>3, <1>4, <1>5, <1>6 DEF Next

LEMMA PairsStep ==
    ASSUME IInv, [Next]_vars
    PROVE  Pairs'
<1>1. Typed /\ LastIsClose /\ Pairs /\ toWorker \in Seq(Lined)
  BY DEF IInv, Typed
<1>2. CASE WorkerHandles
  <2>1. toWorker # <<>> /\ toWorker' = Tail(toWorker) /\ alive' = alive
    BY <1>1, <1>2, Handled
  <2>2. QED
    BY <1>1, <2>1, PairedTail DEF Pairs
<1>3. CASE Reopen
  <2>1. toWorker' = <<>> /\ Len(<<>>) = 0
    BY <1>1, <1>3, EmptySeq DEF Reopen, LastIsClose
  <2>2. QED
    BY <2>1 DEF Pairs, Paired
<1>4. CASE ServerHandles \/ ServerAnnounces
  <2>1. alive
    BY <1>1, <1>4, ServerSends
  <2>2. PICK ls : Sends(ls)
    BY <1>1, <1>4, ServerSends
  <2>3. toWorker' = toWorker \o ls /\ ls \in Seq(Lined) /\ Paired(ls)
    BY <2>2 DEF Sends
  <2>4. QED
    BY <1>1, <2>1, <2>3, PairedJoin DEF Pairs
<1>5. CASE Drop
  BY <1>1, <1>5, Dropped DEF Pairs
<1>6. CASE UNCHANGED vars
  BY <1>1, <1>6 DEF vars, server, Pairs
<1>7. QED
  BY <1>2, <1>3, <1>4, <1>5, <1>6 DEF Next

LEMMA PartialIsNextStep ==
    ASSUME IInv, [Next]_vars
    PROVE  PartialIsNext'
<1>1. /\ Typed /\ LastIsClose /\ Pairs /\ PartialIsNext /\ toWorker \in Seq(Lined)
      /\ {cut, closed} \subseteq BOOLEAN
  BY DEF IInv, Typed
<1>2. CASE WorkerHandles
  <2> DEFINE h == Head(toWorker)
             t == Tail(toWorker)
  <2>1. /\ toWorker # <<>> /\ toWorker' = t /\ alive' = alive
        /\ h.cmd # "close" => closed' = closed /\ cut' = cut
        /\ h.cmd = "close" => cut' = (cut \/ partial["LIST"] # {})
        /\ \A r \in Replies :
              partial'[r] = IF h.cmd # r THEN partial[r]
                            ELSE IF h.more THEN partial[r] \union h.caps ELSE {}
    BY <1>1, <1>2, Handled
  <2>2. /\ t \in Seq(Lined) /\ Len(toWorker) \in Nat /\ Len(t) \in Nat
        /\ Len(toWorker) = Len(t) + 1 /\ toWorker[1] = h
        /\ \A i \in 1..Len(t) : t[i] = toWorker[i + 1]
    BY <1>1, <2>1, TailLines
  <2> HIDE DEF h, t
  <2>3. partial'["LIST"] = IF h.cmd # "LIST" THEN partial["LIST"]
                           ELSE IF h.more THEN partial["LIST"] \union h.caps ELSE {}
    BY <2>1 DEF Replies
  <2>4. ASSUME ~cut', closed'
        PROVE  partial'["LIST"] = {}
    <3>1. CASE h.cmd = "close"
      BY <1>1, <2>1, <2>3, <2>4, <3>1
    <3>2. CASE h.cmd # "close"
      BY <1>1, <2>1, <2>4, <3>2 DEF LastIsClose
    <3>3. QED
      BY <3>1, <3>2
  <2>5. ASSUME ~cut', alive', partial'["LIST"] # {}
        PROVE  t # <<>> /\ Head(t).cmd = "LIST" /\ ~Head(t).more
    <3>1. ~cut
      <4>1. CASE h.cmd = "close"
        BY <1>1, <2>1, <2>5, <4>1
      <4>2. CASE h.cmd # "close"
        BY <2>1, <2>5, <4>2
      <4>3. QED
        BY <4>1, <4>2
    <3>2. h.cmd = "LIST" /\ h.more
      <4>1. partial["LIST"] # {} => h.cmd = "LIST" /\ ~h.more
        BY <1>1, <2>1, <2>5, <3>1 DEF PartialIsNext, h
      <4>2. QED
        BY <2>3, <2>5, <4>1
    <3>3. 1 \in 1..Len(toWorker) /\ alive
      BY <2>1, <2>2, <2>5
    <3>4. 1 < Len(toWorker) /\ ~toWorker[1 + 1].more /\ toWorker[1 + 1].cmd = "LIST"
      BY <1>1, <2>2, <3>2, <3>3 DEF Pairs, Paired
    <3>5. Len(t) # 0 /\ 1 \in 1..Len(t)
      BY <2>2, <3>4
    <3>6. t # <<>>
      BY <3>5, EmptySeq
    <3>7. Head(t) = t[1]
      BY <2>2, <3>6
    <3>8. QED
      BY <2>2, <3>4, <3>5, <3>6, <3>7
  <2>6. QED
    BY <2>1, <2>4, <2>5 DEF PartialIsNext
<1>3. CASE Reopen
  BY <1>1, <1>3 DEF Reopen, PartialIsNext, world
<1>4. CASE ServerHandles \/ ServerAnnounces
  <2>1. alive
    BY <1>1, <1>4, ServerSends
  <2>2. PICK ls : Sends(ls)
    BY <1>1, <1>4, ServerSends
  <2>3. toWorker' = toWorker \o ls /\ ls \in Seq(Lined) /\ UNCHANGED <<closed, cut, partial>>
    BY <2>2 DEF Sends
  <2>4. ASSUME toWorker # <<>>
        PROVE  toWorker' # <<>> /\ Head(toWorker') = Head(toWorker)
    <3> DEFINE r == toWorker \o ls
    <3>1. /\ r \in Seq(Lined) /\ Len(toWorker) \in Nat /\ Len(ls) \in Nat
          /\ Len(r) = Len(toWorker) + Len(ls)
          /\ \A i \in 1..Len(toWorker) : r[i] = toWorker[i]
      BY <1>1, <2>3, JoinLines
    <3> HIDE DEF r
    <3>2. Len(toWorker) # 0
      BY <1>1, <2>4, EmptySeq
    <3>3. Len(r) # 0 /\ r[1] = toWorker[1]
      BY <3>1, <3>2
    <3>4. r # <<>>
      BY <3>3, EmptySeq
    <3>5. Head(r) = r[1] /\ Head(toWorker) = toWorker[1]
      BY <1>1, <2>4, <3>1, <3>4
    <3>6. QED
      BY <2>3, <3>3, <3>4, <3>5 DEF r
  <2>5. QED
    BY <1>1, <2>1, <2>3, <2>4 DEF PartialIsNext
<1>5. CASE Drop
  BY <1>1, <1>5, Dropped DEF PartialIsNext, worker
<1>6. CASE UNCHANGED vars
  BY <1>1, <1>6 DEF vars, worker, server, world, PartialIsNext
<1>7. QED
  BY <1>2, <1>3, <1>4, <1>5, <1>6 DEF Next

\* A line stays on its way when another one is handled or when more are added.
LEMMA CompletesTail ==
    ASSUME NEW q \in Seq(Lined), q # <<>>
    PROVE  Completes(q) <=> Head(q).cmd = "376" \/ Completes(Tail(q))
<1> DEFINE t == Tail(q)
<1>1. /\ Len(q) \in Nat /\ Len(t) \in Nat /\ Len(q) = Len(t) + 1 /\ q[1] = Head(q)
      /\ \A i \in 1..Len(t) : t[i] = q[i + 1]
  BY TailLines
<1> HIDE DEF t
<1>2. ASSUME NEW i \in 1..Len(q), q[i].cmd = "376", Head(q).cmd # "376"
      PROVE  Completes(t)
  <2>1. i - 1 \in 1..Len(t) /\ (i - 1) + 1 = i
    BY <1>1, <1>2
  <2>2. t[i - 1] = q[i]
    BY <1>1, <2>1
  <2>3. QED
    BY <1>2, <2>1, <2>2 DEF Completes
<1>3. ASSUME NEW i \in 1..Len(t), t[i].cmd = "376"
      PROVE  Completes(q)
  <2>1. i + 1 \in 1..Len(q) /\ q[i + 1].cmd = "376"
    BY <1>1, <1>3
  <2>2. QED
    BY <2>1 DEF Completes
<1>4. 1 \in 1..Len(q)
  BY <1>1
<1>5. Head(q).cmd = "376" => Completes(q)
  BY <1>1, <1>4 DEF Completes
<1>6. Completes(q) => Head(q).cmd = "376" \/ Completes(t)
  BY <1>2 DEF Completes
<1>7. Completes(t) => Completes(q)
  BY <1>3 DEF Completes
<1>8. QED
  BY <1>5, <1>6, <1>7 DEF t

LEMMA CompletesJoin ==
    ASSUME NEW q \in Seq(Lined), NEW ls \in Seq(Lined)
    PROVE  Completes(q \o ls) <=> Completes(q) \/ Completes(ls)
<1> DEFINE r == q \o ls
<1>1. /\ Len(q) \in Nat /\ Len(ls) \in Nat /\ Len(r) = Len(q) + Len(ls)
      /\ \A i \in 1..Len(q) : r[i] = q[i]
      /\ \A i \in 1..Len(ls) : r[Len(q) + i] = ls[i]
  BY JoinLines
<1> HIDE DEF r
<1>2. ASSUME NEW i \in 1..Len(r), r[i].cmd = "376"
      PROVE  Completes(q) \/ Completes(ls)
  <2>1. CASE i <= Len(q)
    <3>1. i \in 1..Len(q) /\ q[i].cmd = "376"
      BY <1>1, <1>2, <2>1
    <3>2. QED
      BY <3>1 DEF Completes
  <2>2. CASE ~(i <= Len(q))
    <3>1. i - Len(q) \in 1..Len(ls) /\ i = Len(q) + (i - Len(q))
      BY <1>1, <2>2
    <3>2. ls[i - Len(q)].cmd = "376"
      BY <1>1, <1>2, <3>1
    <3>3. QED
      BY <3>1, <3>2 DEF Completes
  <2>3. QED
    BY <2>1, <2>2
<1>3. ASSUME NEW i \in 1..Len(q), q[i].cmd = "376"
      PROVE  Completes(r)
  <2>1. i \in 1..Len(r) /\ r[i].cmd = "376"
    BY <1>1, <1>3
  <2>2. QED
    BY <2>1 DEF Completes
<1>4. ASSUME NEW i \in 1..Len(ls), ls[i].cmd = "376"
      PROVE  Completes(r)
  <2>1. Len(q) + i \in 1..Len(r) /\ r[Len(q) + i].cmd = "376"
    BY <1>1, <1>4
  <2>2. QED
    BY <2>1 DEF Completes
<1>5. Completes(r) => Completes(q) \/ Completes(ls)
  BY <1>2 DEF Completes
<1>6. Completes(q) => Completes(r)
  BY <1>3 DEF Completes
<1>7. Completes(ls) => Completes(r)
  BY <1>4 DEF Completes
<1>8. QED
  BY <1>5, <1>6, <1>7 DEF r

LEMMA HeldUntilEndStep ==
    ASSUME IInv, [Next]_vars
    PROVE  HeldUntilEnd'
<1>1. /\ Typed /\ LastIsClose /\ HeldUntilEnd /\ toWorker \in Seq(Lined)
      /\ {registered, alive, held} \subseteq BOOLEAN
  BY DEF IInv, Typed, TypeOK
<1>2. CASE WorkerHandles
  <2> DEFINE h == Head(toWorker)
  <2>1. /\ toWorker # <<>> /\ toWorker' = Tail(toWorker) /\ alive' = alive /\ held' = held
        /\ h.cmd = "376" => registered'
        /\ h.cmd \notin {"376", "close"} => registered' = registered
    BY <1>1, <1>2, Handled
  <2>2. Completes(toWorker) <=> h.cmd = "376" \/ Completes(Tail(toWorker))
    BY <1>1, <2>1, CompletesTail
  <2>3. 1 \in 1..Len(toWorker) /\ toWorker[1] = h
    <3>1. /\ Len(Tail(toWorker)) \in Nat /\ Len(toWorker) = Len(Tail(toWorker)) + 1
          /\ toWorker[1] = h
      BY <1>1, <2>1, TailLines
    <3>2. QED
      BY <3>1
  <2>4. alive => h.cmd # "close"
    BY <1>1, <2>3 DEF LastIsClose
  <2> HIDE DEF h
  <2>5. CASE h.cmd = "376"
    BY <1>1, <2>1, <2>2, <2>5 DEF HeldUntilEnd
  <2>6. CASE h.cmd # "376"
    BY <1>1, <2>1, <2>2, <2>4, <2>6 DEF HeldUntilEnd
  <2>7. QED
    BY <2>5, <2>6
<1>3. CASE Reopen
  <2>1. toWorker' = <<>> /\ Len(<<>>) = 0 /\ held' = TRUE /\ registered' = registered /\ ~registered
    BY <1>1, <1>3, EmptySeq DEF Reopen, LastIsClose
  <2>2. QED
    BY <2>1 DEF HeldUntilEnd, Completes
<1>4. CASE ServerHandles \/ ServerAnnounces
  <2>1. alive
    BY <1>1, <1>4, ServerSends
  <2>2. PICK ls : Sends(ls)
    BY <1>1, <1>4, ServerSends
  <2>3. /\ toWorker' = toWorker \o ls /\ ls \in Seq(Lined) /\ registered' = registered
        /\ alive' => (held' => held) /\ (Completes(ls) <=> held /\ ~held')
        /\ held' \in BOOLEAN
    BY <2>2 DEF Sends
  <2>4. Completes(toWorker') <=> Completes(toWorker) \/ Completes(ls)
    BY <1>1, <2>3, CompletesJoin
  <2>5. QED
    BY <1>1, <2>1, <2>3, <2>4 DEF HeldUntilEnd
<1>5. CASE Drop
  BY <1>1, <1>5, Dropped DEF HeldUntilEnd
<1>6. CASE UNCHANGED vars
  BY <1>1, <1>6 DEF vars, worker, server, HeldUntilEnd
<1>7. QED
  BY <1>2, <1>3, <1>4, <1>5, <1>6 DEF Next

LEMMA EndAfterListStep ==
    ASSUME IInv, [Next]_vars
    PROVE  EndAfterList'
<1>1. Typed /\ EndAfterList /\ toServer \in Seq(Written)
  BY DEF IInv, Typed
<1>2. CASE WorkerHandles
  <2>1. \/ toServer' = <<>> \/ toServer' = toServer
        \/ \E ls : Reaction(Head(toWorker), partial, ls) /\ toServer' = toServer \o ls
    BY <1>1, <1>2, Handled
  <2>2. CASE toServer' = <<>>
    BY <2>2, NoneWritten DEF EndAfterList
  <2>3. CASE toServer' = toServer
    BY <1>1, <2>3 DEF EndAfterList
  <2>4. CASE \E ls : Reaction(Head(toWorker), partial, ls) /\ toServer' = toServer \o ls
    <3>1. PICK ls : Reaction(Head(toWorker), partial, ls) /\ toServer' = toServer \o ls
      BY <2>4
    <3>2. /\ ls \in Seq(Written)
          /\ \A i \in 1..Len(ls) : ls[i].cmd = "END" => i # 1 /\ ls[i - 1].cmd = "LIST"
      BY <3>1, ReactionLines
    <3> DEFINE r == toServer \o ls
               n == Len(toServer)
    <3>3. /\ n \in Nat /\ Len(ls) \in Nat /\ Len(r) = n + Len(ls)
          /\ \A i \in 1..n : r[i] = toServer[i]
          /\ \A i \in 1..Len(ls) : r[n + i] = ls[i]
      BY <1>1, <3>2, JoinLines
    <3>4. \A i \in 1..n : toServer[i].cmd = "END" => i = 1 \/ toServer[i - 1].cmd = "LIST"
      BY <1>1 DEF EndAfterList
    <3> HIDE DEF r, n
    <3>5. ASSUME NEW i \in 1..Len(r), r[i].cmd = "END", i # 1
          PROVE  r[i - 1].cmd = "LIST"
      <4>1. CASE i <= n
        <5>1. i \in 1..n /\ i - 1 \in 1..n
          BY <3>3, <3>5, <4>1
        <5>2. r[i] = toServer[i] /\ r[i - 1] = toServer[i - 1]
          BY <3>3, <5>1
        <5>3. QED
          BY <3>4, <3>5, <5>1, <5>2
      <4>2. CASE ~(i <= n)
        <5>1. PICK k \in 1..Len(ls) : i = n + k
          <6>1. i - n \in 1..Len(ls) /\ i = n + (i - n)
            BY <3>3, <4>2
          <6>2. QED
            BY <6>1
        <5>2. ls[k].cmd = "END"
          BY <3>3, <3>5, <5>1
        <5>3. k # 1 /\ ls[k - 1].cmd = "LIST"
          BY <3>2, <5>2
        <5>4. k - 1 \in 1..Len(ls) /\ i - 1 = n + (k - 1)
          BY <3>3, <5>1, <5>3
        <5>5. QED
          BY <3>3, <5>3, <5>4
      <4>3. QED
        BY <4>1, <4>2
    <3>6. toServer' = r
      BY <3>1 DEF r
    <3>7. QED
      BY <3>5, <3>6 DEF EndAfterList
  <2>5. QED
    BY <2>1, <2>2, <2>3, <2>4
<1>3. CASE Reopen
  <2>1. Msg("LS", {}) \in Written /\ Msg("LS", {}).cmd = "LS"
    BY DEF Msg, Written, Questions
  <2>2. toServer' = <<Msg("LS", {})>>
    BY <1>3 DEF Reopen
  <2>3. Len(toServer') = 1
    BY <2>1, <2>2, OneWritten
  <2>4. QED
    BY <2>3 DEF EndAfterList
<1>4. CASE ServerHandles
  <2> DEFINE t == Tail(toServer)
  <2>1. toServer # <<>> /\ toServer' = t
    BY <1>1, <1>4, Served
  <2>2. /\ Len(toServer) \in Nat /\ Len(t) \in Nat /\ Len(toServer) = Len(t) + 1
        /\ \A i \in 1..Len(t) : t[i] = toServer[i + 1]
    <3>1. Len(toServer) \in Nat /\ Len(toServer) # 0
      BY <1>1, <2>1, EmptySeq, LenProperties
    <3>2. /\ t \in Seq(Written) /\ Len(t) = Len(toServer) - 1
          /\ \A i \in 1..Len(t) : t[i] = toServer[i + 1]
      BY <1>1, <2>1, HeadTailProperties
    <3>3. QED
      BY <3>1, <3>2
  <2> HIDE DEF t
  <2>3. ASSUME NEW i \in 1..Len(t), t[i].cmd = "END", i # 1
        PROVE  t[i - 1].cmd = "LIST"
    <3>1. i + 1 \in 1..Len(toServer) /\ i + 1 # 1 /\ i - 1 \in 1..Len(t)
          /\ (i + 1) - 1 = i /\ (i - 1) + 1 = i
      BY <2>2, <2>3
    <3>2. toServer[i + 1].cmd = "END" /\ t[i - 1] = toServer[i]
      BY <2>2, <2>3, <3>1
    <3>3. toServer[(i + 1) - 1].cmd = "LIST"
      BY <1>1, <3>1, <3>2 DEF EndAfterList
    <3>4. QED
      BY <3>1, <3>2, <3>3
  <2>4. QED
    BY <2>1, <2>3 DEF EndAfterList
<1>5. CASE ServerAnnounces
  <2>1. toServer' = toServer
    BY <1>1, <1>5, Announces
  <2>2. QED
    BY <1>1, <2>1 DEF EndAfterList
<1>6. CASE Drop
  <2>1. toServer' = toServer
    BY <1>1, <1>6, Dropped
  <2>2. QED
    BY <1>1, <2>1 DEF EndAfterList
<1>7. CASE UNCHANGED vars
  BY <1>1, <1>7 DEF vars, EndAfterList
<1>8. QED
  BY <1>2, <1>3, <1>4, <1>5, <1>6, <1>7 DEF Next

LEMMA StaysInSyncStep ==
    ASSUME IInv, [Next]_vars
    PROVE  StaysInSync'
<1>1. /\ Typed /\ LastIsClose /\ Pairs /\ PartialIsNext /\ HeldUntilEnd /\ EndAfterList
      /\ StaysInSync
      /\ toWorker \in Seq(Lined) /\ toServer \in Seq(Written)
      /\ partial \in [Replies -> SUBSET Caps] /\ caps \in SUBSET Caps /\ enabled \in SUBSET Caps
      /\ {registered, lateAck, cut, held, alive} \subseteq BOOLEAN
  BY DEF IInv, Typed, TypeOK
<1>2. CASE WorkerHandles
  <2> DEFINE h == Head(toWorker)
  <2>1. /\ toWorker # <<>> /\ toWorker' = Tail(toWorker)
        /\ UNCHANGED <<alive, enabled, held>>
        /\ partial' \in [Replies -> SUBSET Caps]
        /\ \A r \in Replies :
              partial'[r] = IF h.cmd # r THEN partial[r]
                            ELSE IF h.more THEN partial[r] \union h.caps ELSE {}
        /\ h.cmd = "376" => registered'
        /\ h.cmd \notin {"376", "close"} => registered' = registered
        /\ h.cmd # "close" => cut' = cut
        /\ caps' \in SUBSET Caps
        /\ h.cmd = "LIST" /\ ~h.more => caps' = partial["LIST"] \union h.caps
        /\ h.cmd = "DEL" => caps' = caps \ h.caps
        /\ h.cmd # "DEL" /\ ~Replaces(h) => caps' = caps
        /\ lateAck => lateAck'
        /\ h.cmd = "ACK" /\ ~h.more /\ registered => lateAck'
        /\ registered' \in BOOLEAN
        /\ h.cmd # "close" => \E ls : /\ Reaction(h, partial, ls)
                                      /\ toServer' = IF alive THEN toServer \o ls ELSE toServer
    BY <1>1, <1>2, Handled
  <2> SUFFICES ASSUME alive, ~lateAck', ~cut', held => EndsNext'
               PROVE  Synced(toWorker', partial', caps', enabled)
                         \/ AckIsLate(toWorker', registered')
    BY <2>1 DEF StaysInSync
  <2>2. h.cmd # "close"
    <3>1. /\ Len(Tail(toWorker)) \in Nat /\ Len(toWorker) = Len(Tail(toWorker)) + 1
          /\ toWorker[1] = h
      BY <1>1, <2>1, TailLines
    <3>2. 1 \in 1..Len(toWorker)
      BY <3>1
    <3>3. QED
      BY <1>1, <3>1, <3>2 DEF LastIsClose
  <2> HIDE DEF h
  <2>3. ~lateAck /\ ~cut
    BY <2>1, <2>2
  <2>4. EndsNext' => EndsNext
    <3>1. PICK ls : Reaction(h, partial, ls) /\ toServer' = toServer \o ls
      BY <2>1, <2>2
    <3>2. /\ ls \in Seq(Written) /\ Len(ls) \in Nat
          /\ \A i \in 1..Len(ls) : ls[i].cmd = "END" => i # 1 /\ ls[i - 1].cmd = "LIST"
      BY <3>1, ReactionLines
    <3> DEFINE r == toServer \o ls
               n == Len(toServer)
    <3>3. /\ r \in Seq(Written) /\ n \in Nat /\ Len(r) = n + Len(ls)
          /\ \A i \in 1..n : r[i] = toServer[i]
          /\ \A i \in 1..Len(ls) : r[n + i] = ls[i]
      BY <1>1, <3>2, JoinLines
    <3>4. toServer = <<>> <=> n = 0
      BY <1>1, EmptySeq
    <3> HIDE DEF r, n
    <3>5. ASSUME r # <<>>, Head(r).cmd = "END"
          PROVE  toServer # <<>> /\ Head(toServer).cmd = "END"
      <4>1. Len(r) # 0 /\ Head(r) = r[1]
        BY <3>3, <3>5, EmptySeq
      <4>2. n # 0
        <5>1. ASSUME n = 0
              PROVE  FALSE
          <6>1. r[0 + 1] = ls[1] /\ 1 \in 1..Len(ls)
            BY <3>2, <3>3, <4>1, <5>1
          <6>2. ls[1].cmd = "END"
            BY <3>5, <4>1, <6>1
          <6>3. QED
            BY <3>2, <6>1, <6>2
        <5>2. QED
          BY <5>1
      <4>3. r[1] = toServer[1] /\ toServer # <<>>
        BY <3>3, <3>4, <4>2
      <4>4. Head(toServer) = toServer[1]
        BY <1>1, <4>3
      <4>5. QED
        BY <3>5, <4>1, <4>3, <4>4
    <3>6. toServer' = r
      BY <3>1 DEF r
    <3>7. QED
      BY <3>5, <3>6 DEF EndsNext
  <2>5. Synced(toWorker, partial, caps, enabled) \/ AckIsLate(toWorker, registered)
    BY <1>1, <2>3, <2>4 DEF StaysInSync
  <2>6. CASE AckIsLate(toWorker, registered)
    <3>1. registered => registered'
      BY <2>1, <2>2
    <3>2. ~(registered /\ h.cmd = "ACK" /\ ~h.more)
      BY <2>1
    <3>3. AckIsLate(Tail(toWorker), registered')
      BY <1>1, <2>1, <2>6, <3>1, <3>2, LateTail DEF h
    <3>4. QED
      BY <2>1, <3>3
  <2>7. CASE Synced(toWorker, partial, caps, enabled)
    <3>1. partial["LIST"] # {} => h.cmd = "LIST" /\ ~h.more
      BY <1>1, <2>3 DEF PartialIsNext, h
    <3>2. partial'["LIST"] = IF h.cmd # "LIST" THEN partial["LIST"]
                             ELSE IF h.more THEN partial["LIST"] \union h.caps ELSE {}
      BY <2>1 DEF Replies
    <3>3. Paired(toWorker)
      BY <1>1 DEF Pairs
    <3>4. Synced(Tail(toWorker), partial', caps', enabled)
      BY <1>1, <2>1, <2>7, <3>1, <3>2, <3>3, SyncedTail DEF h
    <3>5. QED
      BY <2>1, <3>4
  <2>8. QED
    BY <2>5, <2>6, <2>7
<1>3. CASE Reopen
  <2>1. Msg("LS", {}) \in Written /\ Msg("LS", {}).cmd = "LS"
    BY DEF Msg, Written, Questions
  <2>2. toServer' = <<Msg("LS", {})>> /\ held' = TRUE
    BY <1>3 DEF Reopen
  <2>3. Head(toServer').cmd = "LS"
    BY <2>1, <2>2
  <2>4. QED
    BY <2>2, <2>3 DEF StaysInSync, EndsNext
<1>4. ASSUME NEW ls, Sends(ls), alive', ~lateAck', ~cut', held => EndsNext
      PROVE  Synced(toWorker', partial', caps', enabled') \/ AckIsLate(toWorker', registered')
  <2>1. /\ alive /\ ls \in Seq(Lined) /\ Paired(ls) /\ toWorker' = toWorker \o ls
        /\ UNCHANGED <<caps, partial, registered, lateAck, cut>>
    BY <1>4 DEF Sends
  <2>2. Synced(toWorker, partial, caps, enabled) \/ AckIsLate(toWorker, registered)
    BY <1>1, <1>4, <2>1 DEF StaysInSync
  <2>3. CASE AckIsLate(toWorker, registered)
    <3>1. AckIsLate(toWorker \o ls, registered)
      BY <1>1, <2>1, <2>3, LateJoin
    <3>2. QED
      BY <2>1, <3>1
  <2>4. CASE Synced(toWorker, partial, caps, enabled)
    <3>1. CASE ls \in Lines("LIST", enabled) /\ enabled' = enabled
      <4>1. Paired(toWorker) /\ (partial["LIST"] # {} => toWorker # <<>>)
        BY <1>1, <1>4, <2>1 DEF Pairs, PartialIsNext
      <4>2. Synced(toWorker \o ls, partial, caps, enabled)
        BY <1>1, <3>1, <4>1, SyncedList
      <4>3. QED
        BY <2>1, <3>1, <4>2
    <3>2. CASE (\A i \in 1..Len(ls) : ~Replaces(ls[i])) /\ enabled' = enabled \ Withdrawn(ls, 0)
      <4>1. Synced(toWorker \o ls, partial, caps, enabled \ Withdrawn(ls, 0))
        BY <1>1, <2>1, <2>4, <3>2, SyncedJoin
      <4>2. QED
        BY <2>1, <3>2, <4>1
    <3>3. CASE /\ toServer # <<>> /\ Head(toServer).cmd = "REQ"
               /\ \E i \in 1..Len(ls) : ls[i].cmd = "ACK" /\ ~ls[i].more
      <4>1. ~held
        BY <1>1, <1>4, <3>3 DEF EndsNext
      <4>2. registered \/ Completes(toWorker)
        BY <1>1, <2>1, <4>1 DEF HeldUntilEnd
      <4>3. AckIsLate(toWorker \o ls, registered)
        BY <1>1, <2>1, <3>3, <4>2, LateJoin
      <4>4. QED
        BY <2>1, <4>3
    <3>4. QED
      BY <1>4, <3>1, <3>2, <3>3 DEF Sends
  <2>5. QED
    BY <2>2, <2>3, <2>4
<1>5. CASE ServerHandles
  <2> SUFFICES ASSUME alive', ~lateAck', ~cut', held' => EndsNext'
               PROVE  Synced(toWorker', partial', caps', enabled')
                         \/ AckIsLate(toWorker', registered')
    BY DEF StaysInSync
  <2>1. /\ alive /\ toServer # <<>> /\ toServer' = Tail(toServer)
        /\ \E ls : Sends(ls) /\ Serves(ls)
    BY <1>1, <1>5, Served
  <2>2. PICK ls : Sends(ls) /\ Serves(ls)
    BY <2>1
  <2>3. CASE held => EndsNext
    BY <1>4, <2>2, <2>3
  <2>4. CASE ~(held => EndsNext)
    <3>1. held' = held
      BY <2>1, <2>2, <2>4 DEF Sends, EndsNext
    <3>2. EndsNext'
      BY <2>4, <3>1
    <3>3. Head(toServer).cmd = "LIST"
      <4> DEFINE t == Tail(toServer)
      <4>1. Len(toServer) \in Nat /\ Len(toServer) # 0
        BY <1>1, <2>1, EmptySeq, LenProperties
      <4>2. /\ t \in Seq(Written) /\ Len(t) = Len(toServer) - 1
            /\ \A i \in 1..Len(t) : t[i] = toServer[i + 1]
        BY <1>1, <2>1, HeadTailProperties
      <4>3. t # <<>> /\ Head(t).cmd = "END"
        BY <2>1, <3>2 DEF EndsNext
      <4>4. Head(t) = t[1] /\ Len(t) # 0 /\ Head(toServer) = toServer[1]
        BY <1>1, <2>1, <4>2, <4>3, EmptySeq
      <4> HIDE DEF t
      <4>5. 1 \in 1..Len(t) /\ 2 \in 1..Len(toServer) /\ t[1] = toServer[2]
        BY <4>1, <4>2, <4>4
      <4>6. toServer[2].cmd = "END"
        BY <4>3, <4>4, <4>5
      <4>7. toServer[2 - 1].cmd = "LIST"
        BY <1>1, <4>5, <4>6 DEF EndAfterList
      <4>8. QED
        BY <4>4, <4>7
    <3>4. ls \in Lines("LIST", enabled) /\ enabled' = enabled
      BY <2>2, <3>3 DEF Serves
    <3>5. toWorker' = toWorker \o ls /\ UNCHANGED <<caps, partial, cut>>
      BY <2>2 DEF Sends
    <3>6. Paired(toWorker) /\ (partial["LIST"] # {} => toWorker # <<>>)
      BY <1>1, <2>1, <3>5 DEF Pairs, PartialIsNext
    <3>7. Synced(toWorker \o ls, partial, caps, enabled)
      BY <1>1, <3>4, <3>6, SyncedList
    <3>8. QED
      BY <3>4, <3>5, <3>7
  <2>5. QED
    BY <2>3, <2>4
<1>6. CASE ServerAnnounces
  <2> SUFFICES ASSUME alive', ~lateAck', ~cut', held' => EndsNext'
               PROVE  Synced(toWorker', partial', caps', enabled')
                         \/ AckIsLate(toWorker', registered')
    BY DEF StaysInSync
  <2>1. toServer' = toServer /\ \E ls : Sends(ls) /\ held' = held
    BY <1>1, <1>6, Announces
  <2>2. held => EndsNext
    BY <2>1 DEF EndsNext
  <2>3. QED
    BY <1>4, <2>1, <2>2
<1>7. CASE Drop
  BY <1>1, <1>7, Dropped DEF StaysInSync
<1>8. CASE UNCHANGED vars
  BY <1>1, <1>8 DEF vars, worker, server, world, StaysInSync, EndsNext
<1>9. QED
  BY <1>2, <1>3, <1>5, <1>6, <1>7, <1>8 DEF Next

LEMMA OneAtATimeStep ==
    ASSUME IInv, [Next]_vars
    PROVE  OneAtATime'
<1>1. /\ Typed /\ LastIsClose /\ HeldUntilEnd /\ OneAtATime
      /\ toWorker \in Seq(Lined) /\ toServer \in Seq(Written)
      /\ \A i \in 1..Len(toWorker) : toWorker[i].more => toWorker[i].cmd \in Replies
  BY DEF IInv, Typed
<1>2. CASE WorkerHandles
  <2> DEFINE h == Head(toWorker)
             t == Tail(toWorker)
  <2>1. /\ toWorker # <<>> /\ toWorker' = t
        /\ UNCHANGED <<alive, held>>
        /\ earlyNew => earlyNew'
        /\ h.cmd = "NEW" /\ ~registered => earlyNew'
        /\ h.cmd # "close" => \E ls : /\ Reaction(h, partial, ls)
                                      /\ toServer' = IF alive THEN toServer \o ls ELSE toServer
    BY <1>1, <1>2, Handled
  <2>2. /\ t \in Seq(Lined) /\ Len(toWorker) \in Nat /\ Len(t) \in Nat
        /\ Len(toWorker) = Len(t) + 1 /\ toWorker[1] = h
        /\ \A i \in 1..Len(t) : t[i] = toWorker[i + 1]
    BY <1>1, <2>1, TailLines
  <2> HIDE DEF h, t
  <2> SUFFICES ASSUME alive, held, ~earlyNew'
               PROVE  /\ \/ toServer' \in {<<>>, EndNegotiation}
                         \/ \E m \in Written : toServer' = <<m>>
                      /\ toServer' # <<>> => \A i \in 1..Len(t) : ~Asks(t[i])
                      /\ \A i, j \in 1..Len(t) : Asks(t[i]) /\ Asks(t[j]) => i = j
    BY <2>1 DEF OneAtATime
  <2>3. /\ \/ toServer \in {<<>>, EndNegotiation}
           \/ \E m \in Written : toServer = <<m>>
        /\ toServer # <<>> => \A i \in 1..Len(toWorker) : ~Asks(toWorker[i])
        /\ \A i, j \in 1..Len(toWorker) : Asks(toWorker[i]) /\ Asks(toWorker[j]) => i = j
    BY <1>1, <2>1 DEF OneAtATime
  <2>4. 1 \in 1..Len(toWorker) /\ \A i \in 1..Len(t) : i + 1 \in 1..Len(toWorker) /\ i + 1 # 1
    BY <2>2
  <2>5. h.cmd # "close" /\ h.cmd # "NEW"
    BY <1>1, <2>1, <2>2, <2>4 DEF LastIsClose, HeldUntilEnd
  <2>6. PICK ls : Reaction(h, partial, ls) /\ toServer' = toServer \o ls
    BY <2>1, <2>5
  <2>7. \A i, j \in 1..Len(t) : Asks(t[i]) /\ Asks(t[j]) => i = j
    <3> SUFFICES ASSUME NEW i \in 1..Len(t), NEW j \in 1..Len(t), Asks(t[i]), Asks(t[j])
                 PROVE  i = j
      OBVIOUS
    <3>1. i + 1 = j + 1
      BY <2>2, <2>3, <2>4
    <3>2. QED
      BY <3>1
  <2>8. CASE Asks(h)
    <3>1. toServer = <<>>
      BY <2>2, <2>3, <2>4, <2>8
    <3>2. \A i \in 1..Len(t) : ~Asks(t[i])
      BY <2>2, <2>3, <2>4, <2>8
    <3>3. ls \in Seq(Written)
      BY <2>6, ReactionLines
    <3>4. toServer' = ls
      BY <2>6, <3>1, <3>3, ConcatEmptySeq
    <3>5. ls \in {<<>>, EndNegotiation} \/ \E m \in Written : ls = <<m>>
      BY <2>6 DEF Reaction
    <3>6. QED
      BY <2>7, <3>2, <3>4, <3>5
  <2>9. CASE ~Asks(h)
    <3>1. ls = <<>>
      BY <2>5, <2>6, <2>9 DEF Reaction
    <3>2. toServer' = toServer
      BY <1>1, <2>6, <3>1, ConcatEmptySeq
    <3>3. toServer # <<>> => \A i \in 1..Len(t) : ~Asks(t[i])
      BY <2>2, <2>3, <2>4
    <3>4. QED
      BY <2>3, <2>7, <3>2, <3>3
  <2>10. QED
    BY <2>8, <2>9
<1>3. CASE Reopen
  <2>1. toWorker' = <<>> /\ Len(<<>>) = 0 /\ toServer' = <<Msg("LS", {})>>
    BY <1>1, <1>3, EmptySeq DEF Reopen, LastIsClose
  <2>2. Msg("LS", {}) \in Written
    BY DEF Msg, Written, Questions
  <2>3. QED
    BY <2>1, <2>2 DEF OneAtATime
<1>4. CASE ServerHandles
  <2> SUFFICES ASSUME alive', held', ~earlyNew'
               PROVE  /\ \/ toServer' \in {<<>>, EndNegotiation}
                         \/ \E m \in Written : toServer' = <<m>>
                      /\ toServer' # <<>> => \A i \in 1..Len(toWorker') : ~Asks(toWorker'[i])
                      /\ \A i, j \in 1..Len(toWorker') :
                            Asks(toWorker'[i]) /\ Asks(toWorker'[j]) => i = j
    BY DEF OneAtATime
  <2>1. /\ alive /\ toServer # <<>> /\ toServer' = Tail(toServer)
        /\ \E ls : Sends(ls) /\ Serves(ls)
    BY <1>1, <1>4, Served
  <2>2. PICK ls : Sends(ls) /\ Serves(ls)
    BY <2>1
  <2>3. /\ toWorker' = toWorker \o ls /\ ls \in Seq(Lined) /\ held /\ ~earlyNew
        /\ \A i \in 1..Len(ls) : Asks(ls[i]) => /\ i = Len(ls)
                                                /\ Head(toServer).cmd # "LIST"
    BY <2>2 DEF Sends, Serves
  <2>4. /\ toServer = EndNegotiation \/ \E m \in Written : toServer = <<m>>
        /\ \A i \in 1..Len(toWorker) : ~Asks(toWorker[i])
    BY <1>1, <2>1, <2>3 DEF OneAtATime
  <2> DEFINE r == toWorker \o ls
             n == Len(toWorker)
  <2>5. /\ n \in Nat /\ Len(ls) \in Nat /\ Len(r) = n + Len(ls)
        /\ \A i \in 1..n : r[i] = toWorker[i]
        /\ \A i \in 1..Len(ls) : r[n + i] = ls[i]
    BY <1>1, <2>3, JoinLines
  <2>6. \A i \in 1..n : ~Asks(toWorker[i])
    BY <2>4
  <2>7. toWorker' = r
    BY <2>3
  <2> HIDE DEF r, n
  <2>8. ASSUME NEW i \in 1..Len(r), Asks(r[i])
        PROVE  i = n + Len(ls) /\ Head(toServer).cmd # "LIST"
    <3>1. ~(i <= n)
      <4>1. i <= n => i \in 1..n
        BY <2>5
      <4>2. QED
        BY <2>5, <2>6, <2>8, <4>1
    <3>2. i - n \in 1..Len(ls) /\ i = n + (i - n)
      BY <2>5, <3>1
    <3>3. Asks(ls[i - n])
      BY <2>5, <2>8, <3>2
    <3>4. QED
      BY <2>3, <2>5, <3>2, <3>3
  <2>9. CASE toServer = EndNegotiation
    <3>1. Head(toServer).cmd = "LIST" /\ toServer' = <<Msg("END", {})>>
      <4>1. toServer = <<Msg("LIST", {}), Msg("END", {})>>
        BY <2>9 DEF EndNegotiation
      <4>2. Head(toServer) = Msg("LIST", {}) /\ Tail(toServer) = <<Msg("END", {})>>
        BY <4>1
      <4>3. Msg("LIST", {}).cmd = "LIST"
        BY DEF Msg
      <4>4. QED
        BY <2>1, <4>2, <4>3
    <3>2. Msg("END", {}) \in Written
      BY DEF Msg, Written, Questions
    <3>3. \A i \in 1..Len(r) : ~Asks(r[i])
      BY <2>8, <3>1
    <3>4. QED
      BY <2>7, <3>1, <3>2, <3>3
  <2>10. CASE \E m \in Written : toServer = <<m>>
    <3>1. toServer' = <<>>
      BY <2>1, <2>10
    <3>2. \A i, j \in 1..Len(r) : Asks(r[i]) /\ Asks(r[j]) => i = j
      BY <2>8
    <3>3. QED
      BY <2>7, <3>1, <3>2
  <2>11. QED
    BY <2>4, <2>9, <2>10
<1>5. CASE ServerAnnounces
  <2> SUFFICES ASSUME alive', held', ~earlyNew'
               PROVE  /\ \/ toServer' \in {<<>>, EndNegotiation}
                         \/ \E m \in Written : toServer' = <<m>>
                      /\ toServer' # <<>> => \A i \in 1..Len(toWorker') : ~Asks(toWorker'[i])
                      /\ \A i, j \in 1..Len(toWorker') :
                            Asks(toWorker'[i]) /\ Asks(toWorker'[j]) => i = j
    BY DEF OneAtATime
  <2>1. toServer' = toServer
        /\ \E ls : Sends(ls) /\ held' = held /\ \A i \in 1..Len(ls) : ~Asks(ls[i])
    BY <1>1, <1>5, Announces
  <2>2. PICK ls : Sends(ls) /\ held' = held /\ \A i \in 1..Len(ls) : ~Asks(ls[i])
    BY <2>1
  <2>3. toWorker' = toWorker \o ls /\ ls \in Seq(Lined) /\ alive /\ held /\ ~earlyNew
    BY <2>2 DEF Sends
  <2> DEFINE r == toWorker \o ls
             n == Len(toWorker)
  <2>4. /\ n \in Nat /\ Len(ls) \in Nat /\ Len(r) = n + Len(ls)
        /\ \A i \in 1..n : r[i] = toWorker[i]
        /\ \A i \in 1..Len(ls) : r[n + i] = ls[i]
    BY <1>1, <2>3, JoinLines
  <2>5. toWorker' = r
    BY <2>3
  <2>6. /\ toServer \in {<<>>, EndNegotiation} \/ \E m \in Written : toServer = <<m>>
        /\ toServer # <<>> => \A i \in 1..n : ~Asks(toWorker[i])
        /\ \A i, j \in 1..n : Asks(toWorker[i]) /\ Asks(toWorker[j]) => i = j
    BY <1>1, <2>3 DEF OneAtATime
  <2> HIDE DEF r, n
  <2>7. ASSUME NEW i \in 1..Len(r), Asks(r[i])
        PROVE  i \in 1..n /\ r[i] = toWorker[i]
    <3>1. CASE i <= n
      <4>1. i \in 1..n
        BY <2>4, <3>1
      <4>2. QED
        BY <2>4, <4>1
    <3>2. CASE ~(i <= n)
      <4>1. i - n \in 1..Len(ls) /\ i = n + (i - n)
        BY <2>4, <3>2
      <4>2. Asks(ls[i - n])
        BY <2>4, <2>7, <4>1
      <4>3. QED
        BY <2>2, <4>1, <4>2
    <3>3. QED
      BY <3>1, <3>2
  <2>8. toServer # <<>> => \A i \in 1..Len(r) : ~Asks(r[i])
    BY <2>6, <2>7
  <2>9. \A i, j \in 1..Len(r) : Asks(r[i]) /\ Asks(r[j]) => i = j
    BY <2>6, <2>7
  <2>10. QED
    BY <2>1, <2>5, <2>6, <2>8, <2>9
<1>6. CASE Drop
  BY <1>1, <1>6, Dropped DEF OneAtATime
<1>7. CASE UNCHANGED vars
  BY <1>1, <1>7 DEF vars, worker, server, world, OneAtATime
<1>8. QED
  BY <1>2, <1>3, <1>4, <1>5, <1>6, <1>7 DEF Next

LEMMA LoginIsDueStep ==
    ASSUME IInv, [Next]_vars
    PROVE  LoginIsDue'
<1>1. /\ Typed /\ LastIsClose /\ Pairs /\ HeldUntilEnd /\ OneAtATime /\ LoginIsDue
      /\ toWorker \in Seq(Lined) /\ toServer \in Seq(Written)
      /\ partial \in [Replies -> SUBSET Caps]
      /\ \A i \in 1..Len(toWorker) : toWorker[i].more => toWorker[i].cmd \in Replies
  BY DEF IInv, Typed, TypeOK
<1>2. CASE WorkerHandles
  <2> DEFINE h == Head(toWorker)
             t == Tail(toWorker)
  <2>1. /\ toWorker # <<>> /\ toWorker' = t
        /\ UNCHANGED <<alive, held, enabled, loggedIn>>
        /\ partial' \in [Replies -> SUBSET Caps]
        /\ \A r \in Replies :
              partial'[r] = IF h.cmd # r THEN partial[r]
                            ELSE IF h.more THEN partial[r] \union h.caps ELSE {}
        /\ earlyNew => earlyNew'
        /\ h.cmd = "NEW" /\ ~registered => earlyNew'
        /\ h.cmd # "close" => \E ls : /\ Reaction(h, partial, ls)
                                      /\ toServer' = IF alive THEN toServer \o ls ELSE toServer
    BY <1>1, <1>2, Handled
  <2>2. /\ t \in Seq(Lined) /\ Len(toWorker) \in Nat /\ Len(t) \in Nat
        /\ Len(toWorker) = Len(t) + 1 /\ toWorker[1] = h
        /\ \A i \in 1..Len(t) : t[i] = toWorker[i + 1]
    BY <1>1, <2>1, TailLines
  <2> SUFFICES ASSUME alive, held, ~earlyNew', HasLogin, "sasl" \in enabled
               PROVE  /\ \A i \in 1..Len(toServer') :
                            /\ toServer'[i].cmd \notin {"LS", "REQ"}
                            /\ toServer'[i].cmd \in {"LIST", "END"} => loggedIn
                      /\ \A i \in 1..Len(t) : Asks(t[i]) =>
                            /\ t[i].cmd \notin {"LS", "NAK"}
                            /\ t[i].cmd = "ACK" => "sasl" \in Named(t, partial', i)
                            /\ t[i].cmd = "903" => loggedIn
    BY <2>1 DEF LoginIsDue
  <2>3. /\ \A i \in 1..Len(toServer) :
              /\ toServer[i].cmd \notin {"LS", "REQ"}
              /\ toServer[i].cmd \in {"LIST", "END"} => loggedIn
        /\ \A i \in 1..Len(toWorker) : Asks(toWorker[i]) =>
              /\ toWorker[i].cmd \notin {"LS", "NAK"}
              /\ toWorker[i].cmd = "ACK" => "sasl" \in Named(toWorker, partial, i)
              /\ toWorker[i].cmd = "903" => loggedIn
    BY <1>1, <2>1 DEF LoginIsDue
  <2>4. /\ toServer # <<>> => \A i \in 1..Len(toWorker) : ~Asks(toWorker[i])
        /\ \A i, j \in 1..Len(toWorker) : Asks(toWorker[i]) /\ Asks(toWorker[j]) => i = j
    BY <1>1, <2>1 DEF OneAtATime
  <2> HIDE DEF h
  <2>5. 1 \in 1..Len(toWorker) /\ \A i \in 1..Len(t) : i + 1 \in 1..Len(toWorker) /\ i + 1 # 1
    BY <2>2
  <2>6. h.cmd # "close" /\ h.cmd # "NEW"
    BY <1>1, <2>1, <2>2, <2>5 DEF LastIsClose, HeldUntilEnd
  <2>7. PICK ls : Reaction(h, partial, ls) /\ toServer' = toServer \o ls
    BY <2>1, <2>6
  <2>8. ls \in Seq(Written)
    BY <2>7, ReactionLines
  <2>9. CASE Asks(h)
    <3>1. toServer = <<>> /\ \A i \in 1..Len(t) : ~Asks(t[i])
      BY <2>2, <2>4, <2>5, <2>9
    <3>2. toServer' = ls
      BY <2>7, <2>8, <3>1, ConcatEmptySeq
    <3>3. /\ h.cmd \notin {"LS", "NAK"}
          /\ h.cmd = "ACK" => "sasl" \in Named(toWorker, partial, 1)
          /\ h.cmd = "903" => loggedIn
      BY <2>2, <2>3, <2>5, <2>9
    <3>4. h.cmd = "ACK" => "sasl" \in partial["ACK"] \union h.caps
      BY <2>2, <3>3 DEF Named
    <3>5. \A i \in 1..Len(ls) : /\ ls[i].cmd \notin {"LS", "REQ"}
                                /\ ls[i].cmd \in {"LIST", "END"} => loggedIn
      BY <2>6, <2>7, <3>3, <3>4 DEF Reaction
    <3>6. QED
      BY <3>1, <3>2, <3>5
  <2>10. CASE ~Asks(h)
    <3>1. ls = <<>>
      BY <2>6, <2>7, <2>10 DEF Reaction
    <3>2. toServer' = toServer
      BY <1>1, <2>7, <3>1, ConcatEmptySeq
    <3>3. h.more => h.caps \subseteq partial'[h.cmd]
      <4>1. h.more => h.cmd \in Replies
        BY <1>1, <2>2, <2>5
      <4>2. QED
        BY <2>1, <4>1
    <3>4. Paired(toWorker)
      BY <1>1 DEF Pairs
    <3>5. ASSUME NEW i \in 1..Len(t)
          PROVE  Named(toWorker, partial, i + 1) \subseteq Named(t, partial', i)
      <4>1. i \in 1..Len(Tail(toWorker))
        OBVIOUS
      <4>2. QED
        BY <1>1, <2>1, <3>3, <3>4, <4>1, NamedTail DEF h
    <3> HIDE DEF t
    <3>6. ASSUME NEW i \in 1..Len(t), Asks(t[i])
          PROVE  /\ t[i].cmd \notin {"LS", "NAK"}
                 /\ t[i].cmd = "ACK" => "sasl" \in Named(t, partial', i)
                 /\ t[i].cmd = "903" => loggedIn
      <4>1. t[i] = toWorker[i + 1] /\ i + 1 \in 1..Len(toWorker)
        BY <2>2, <2>5
      <4>2. /\ toWorker[i + 1].cmd \notin {"LS", "NAK"}
            /\ toWorker[i + 1].cmd = "ACK" => "sasl" \in Named(toWorker, partial, i + 1)
            /\ toWorker[i + 1].cmd = "903" => loggedIn
        BY <2>3, <3>6, <4>1
      <4>3. QED
        BY <3>5, <4>1, <4>2
    <3>7. QED
      BY <2>3, <3>2, <3>6
  <2>11. QED
    BY <2>9, <2>10
<1>3. CASE Reopen
  <2>1. enabled' = {}
    BY <1>3 DEF Reopen
  <2>2. QED
    BY <2>1 DEF LoginIsDue
\* The answers on their way stay what they are when lines are added.
<1>4. ASSUME NEW ls \in Seq(Lined), NEW i \in 1..Len(toWorker \o ls),
             toWorker' = toWorker \o ls, partial' = partial, Asks(toWorker'[i])
      PROVE  \/ /\ i \in 1..Len(toWorker) /\ Asks(toWorker[i]) /\ toWorker'[i] = toWorker[i]
                /\ Named(toWorker', partial', i) = Named(toWorker, partial, i)
             \/ \E k \in 1..Len(ls) :
                   /\ Asks(ls[k]) /\ toWorker'[i] = ls[k]
                   /\ ls[k].caps \union (IF k # 1 /\ ls[k - 1].more THEN ls[k - 1].caps ELSE {})
                        \subseteq Named(toWorker', partial', i)
  <2> DEFINE r == toWorker \o ls
             n == Len(toWorker)
  <2>1. /\ n \in Nat /\ Len(ls) \in Nat /\ Len(r) = n + Len(ls)
        /\ \A j \in 1..n : r[j] = toWorker[j]
        /\ \A j \in 1..Len(ls) : r[n + j] = ls[j]
    BY <1>1, JoinLines
  <2>2. \A j \in 1..n : Named(r, partial, j) = Named(toWorker, partial, j)
    BY <1>1, NamedJoin
  <2>3. toWorker' = r /\ i \in 1..Len(r)
    BY <1>4
  <2> HIDE DEF r, n
  <2>4. CASE i <= n
    <3>1. i \in 1..n
      BY <2>1, <2>3, <2>4
    <3>2. QED
      BY <1>4, <2>1, <2>2, <2>3, <3>1 DEF n
  <2>5. CASE ~(i <= n)
    <3>1. PICK k \in 1..Len(ls) : i = n + k
      <4>1. i - n \in 1..Len(ls) /\ i = n + (i - n)
        BY <2>1, <2>3, <2>5
      <4>2. QED
        BY <4>1
    <3>2. r[i] = ls[k] /\ Asks(ls[k])
      BY <1>4, <2>1, <2>3, <3>1
    <3>3. ls[k].caps \subseteq Named(r, partial, i)
      BY <3>2 DEF Named
    <3>4. ASSUME k # 1, ls[k - 1].more
          PROVE  ls[k - 1].caps \subseteq Named(r, partial, i)
      <4>1. k - 1 \in 1..Len(ls) /\ i - 1 = n + (k - 1) /\ i # 1
        BY <2>1, <3>1, <3>4
      <4>2. r[i - 1] = ls[k - 1]
        BY <2>1, <4>1
      <4>3. QED
        BY <3>4, <4>1, <4>2 DEF Named
    <3>5. QED
      BY <1>4, <2>3, <3>2, <3>3, <3>4
  <2>6. QED
    BY <2>4, <2>5
<1>5. CASE ServerHandles
  <2>1. /\ alive /\ toServer # <<>> /\ toServer' = Tail(toServer)
        /\ \E ls : Sends(ls) /\ Serves(ls)
    BY <1>1, <1>5, Served
  <2>2. PICK ls : Sends(ls) /\ Serves(ls)
    BY <2>1
  <2>3. /\ toWorker' = toWorker \o ls /\ ls \in Seq(Lined) /\ partial' = partial
        /\ earlyNew' = earlyNew /\ (alive' => (held' => held))
    BY <2>2 DEF Sends
  <2> SUFFICES ASSUME alive', held', ~earlyNew', HasLogin, "sasl" \in enabled'
               PROVE  /\ \A i \in 1..Len(toServer') :
                            /\ toServer'[i].cmd \notin {"LS", "REQ"}
                            /\ toServer'[i].cmd \in {"LIST", "END"} => loggedIn'
                      /\ \A i \in 1..Len(toWorker') : Asks(toWorker'[i]) =>
                            /\ toWorker'[i].cmd \notin {"LS", "NAK"}
                            /\ toWorker'[i].cmd = "ACK" => "sasl" \in Named(toWorker', partial', i)
                            /\ toWorker'[i].cmd = "903" => loggedIn'
    BY DEF LoginIsDue
  <2>4. /\ toServer = EndNegotiation \/ \E m \in Written : toServer = <<m>>
        /\ \A i \in 1..Len(toWorker) : ~Asks(toWorker[i])
    BY <1>1, <2>1, <2>3 DEF OneAtATime
  <2>5. /\ Len(toServer) \in Nat /\ Len(Tail(toServer)) \in Nat /\ Head(toServer) = toServer[1]
        /\ 1 \in 1..Len(toServer)
        /\ \A i \in 1..Len(Tail(toServer)) :
              Tail(toServer)[i] = toServer[i + 1] /\ i + 1 \in 1..Len(toServer)
    <3>1. Len(toServer) \in Nat /\ Len(toServer) # 0
      BY <1>1, <2>1, EmptySeq, LenProperties
    <3>2. /\ Tail(toServer) \in Seq(Written) /\ Len(Tail(toServer)) = Len(toServer) - 1
          /\ \A i \in 1..Len(Tail(toServer)) : Tail(toServer)[i] = toServer[i + 1]
      BY <1>1, <2>1, HeadTailProperties
    <3>3. Head(toServer) = toServer[1]
      BY <1>1, <2>1
    <3>4. QED
      BY <3>1, <3>2, <3>3
  <2>6. loggedIn => loggedIn'
    BY <2>2 DEF Serves
  <2>7. ASSUME NEW k \in 1..Len(ls), Asks(ls[k])
        PROVE  /\ ls[k].cmd = "LS" => Head(toServer).cmd = "LS"
               /\ ls[k].cmd = "NAK" => Head(toServer).cmd = "REQ" /\ enabled' = enabled
               /\ ls[k].cmd = "903" => loggedIn'
               /\ ls[k].cmd = "ACK" =>
                     /\ Head(toServer).cmd = "REQ"
                     /\ enabled' = enabled \union
                          (ls[k].caps \union (IF k # 1 /\ ls[k - 1].more THEN ls[k - 1].caps
                                              ELSE {}))
    BY <2>2, <2>7 DEF Serves
  <2>8. ASSUME NEW i \in 1..Len(toWorker'), Asks(toWorker'[i])
        PROVE  \E k \in 1..Len(ls) :
                   /\ Asks(ls[k]) /\ toWorker'[i] = ls[k]
                   /\ ls[k].caps \union (IF k # 1 /\ ls[k - 1].more THEN ls[k - 1].caps ELSE {})
                        \subseteq Named(toWorker', partial', i)
    <3>1. i \in 1..Len(toWorker \o ls)
      BY <2>3
    <3>2. QED
      BY <1>4, <2>3, <2>4, <2>8, <3>1
  <2>9. CASE "sasl" \in enabled
    <3>1. \A i \in 1..Len(toServer) :
              /\ toServer[i].cmd \notin {"LS", "REQ"}
              /\ toServer[i].cmd \in {"LIST", "END"} => loggedIn
      BY <1>1, <2>1, <2>3, <2>9 DEF LoginIsDue
    <3>2. Head(toServer).cmd \notin {"LS", "REQ"}
      BY <2>5, <3>1
    <3>3. ASSUME NEW i \in 1..Len(toWorker'), Asks(toWorker'[i])
          PROVE  /\ toWorker'[i].cmd \notin {"LS", "NAK", "ACK"}
                 /\ toWorker'[i].cmd = "903" => loggedIn'
      <4>1. PICK k \in 1..Len(ls) : Asks(ls[k]) /\ toWorker'[i] = ls[k]
        BY <2>8, <3>3
      <4>2. QED
        BY <2>7, <3>2, <4>1
    <3>4. \A i \in 1..Len(toServer') : /\ toServer'[i].cmd \notin {"LS", "REQ"}
                                       /\ toServer'[i].cmd \in {"LIST", "END"} => loggedIn'
      BY <2>1, <2>5, <2>6, <3>1
    <3>5. QED
      BY <3>3, <3>4
  <2>10. CASE "sasl" \notin enabled
    <3>1. Head(toServer).cmd = "REQ" /\ enabled' # enabled
      BY <2>2, <2>10 DEF Serves
    <3>2. toServer # EndNegotiation
      BY <2>5, <3>1, EndWritten
    <3>3. toServer' = <<>>
      <4>1. PICK m \in Written : toServer = <<m>>
        BY <2>4, <3>2
      <4>2. QED
        BY <2>1, <4>1
    <3>4. Len(toServer') = 0
      BY <3>3, EmptySeq
    <3>5. ASSUME NEW i \in 1..Len(toWorker'), Asks(toWorker'[i])
          PROVE  /\ toWorker'[i].cmd \notin {"LS", "NAK"}
                 /\ toWorker'[i].cmd = "ACK" => "sasl" \in Named(toWorker', partial', i)
                 /\ toWorker'[i].cmd = "903" => loggedIn'
      <4>1. PICK k \in 1..Len(ls) :
                   /\ Asks(ls[k]) /\ toWorker'[i] = ls[k]
                   /\ ls[k].caps \union (IF k # 1 /\ ls[k - 1].more THEN ls[k - 1].caps ELSE {})
                        \subseteq Named(toWorker', partial', i)
        BY <2>8, <3>5
      <4>2. ls[k].cmd \notin {"LS", "NAK"} /\ (ls[k].cmd = "903" => loggedIn')
        BY <2>7, <3>1, <4>1
      <4>3. ASSUME ls[k].cmd = "ACK"
            PROVE  "sasl" \in Named(toWorker', partial', i)
        <5>1. enabled' = enabled \union
                 (ls[k].caps \union (IF k # 1 /\ ls[k - 1].more THEN ls[k - 1].caps ELSE {}))
          BY <2>7, <4>1, <4>3
        <5>2. QED
          BY <2>10, <4>1, <5>1
      <4>4. QED
        BY <4>1, <4>2, <4>3
    <3>6. QED
      BY <3>4, <3>5
  <2>11. QED
    BY <2>9, <2>10
<1>6. CASE ServerAnnounces
  <2>1. /\ toServer' = toServer /\ loggedIn' = loggedIn /\ enabled' \subseteq enabled
        /\ \E ls : Sends(ls) /\ held' = held /\ \A i \in 1..Len(ls) : ~Asks(ls[i])
    BY <1>1, <1>6, Announces
  <2>2. PICK ls : Sends(ls) /\ held' = held /\ \A i \in 1..Len(ls) : ~Asks(ls[i])
    BY <2>1
  <2>3. /\ toWorker' = toWorker \o ls /\ ls \in Seq(Lined) /\ partial' = partial
        /\ earlyNew' = earlyNew /\ alive
    BY <2>2 DEF Sends
  <2> SUFFICES ASSUME alive', held', ~earlyNew', HasLogin, "sasl" \in enabled'
               PROVE  /\ \A i \in 1..Len(toServer') :
                            /\ toServer'[i].cmd \notin {"LS", "REQ"}
                            /\ toServer'[i].cmd \in {"LIST", "END"} => loggedIn'
                      /\ \A i \in 1..Len(toWorker') : Asks(toWorker'[i]) =>
                            /\ toWorker'[i].cmd \notin {"LS", "NAK"}
                            /\ toWorker'[i].cmd = "ACK" => "sasl" \in Named(toWorker', partial', i)
                            /\ toWorker'[i].cmd = "903" => loggedIn'
    BY DEF LoginIsDue
  <2>4. /\ \A i \in 1..Len(toServer) :
              /\ toServer[i].cmd \notin {"LS", "REQ"}
              /\ toServer[i].cmd \in {"LIST", "END"} => loggedIn
        /\ \A i \in 1..Len(toWorker) : Asks(toWorker[i]) =>
              /\ toWorker[i].cmd \notin {"LS", "NAK"}
              /\ toWorker[i].cmd = "ACK" => "sasl" \in Named(toWorker, partial, i)
              /\ toWorker[i].cmd = "903" => loggedIn
    BY <1>1, <2>1, <2>2, <2>3 DEF LoginIsDue
  <2>5. ASSUME NEW i \in 1..Len(toWorker'), Asks(toWorker'[i])
        PROVE  /\ i \in 1..Len(toWorker) /\ Asks(toWorker[i]) /\ toWorker'[i] = toWorker[i]
               /\ Named(toWorker', partial', i) = Named(toWorker, partial, i)
    <3>1. i \in 1..Len(toWorker \o ls)
      BY <2>3
    <3>2. QED
      BY <1>4, <2>2, <2>3, <2>5, <3>1
  <2>6. QED
    BY <2>1, <2>4, <2>5
<1>7. CASE Drop
  BY <1>1, <1>7, Dropped DEF LoginIsDue
<1>8. CASE UNCHANGED vars
  BY <1>1, <1>8 DEF vars, worker, server, world, LoginIsDue
<1>9. QED
  BY <1>2, <1>3, <1>5, <1>6, <1>7, <1>8 DEF Next

LEMMA InitIInv ==
    ASSUME Init
    PROVE  IInv
<1>1. Msg("LS", {}) \in Written /\ Msg("LS", {}).cmd = "LS"
  BY DEF Msg, Written, Questions
<1>2. /\ toServer \in Seq(Written) /\ Len(toServer) = 1 /\ toServer[1].cmd = "LS"
      /\ toServer = <<Msg("LS", {})>>
  BY <1>1, OneWritten DEF Init
<1>3. toWorker = <<>> /\ toWorker \in Seq(Lined) /\ Len(toWorker) = 0
  BY EmptySeq DEF Init
<1>4. Typed
  <2>1. \A i \in 1..Len(toWorker) : toWorker[i].more => toWorker[i].cmd \in Replies
    BY <1>3
  <2>2. partial \in [Replies -> SUBSET Caps]
    BY DEF Init
  <2>3. TypeOK
    BY <2>2 DEF Init, TypeOK
  <2>4. {closed, lateAck, cut, earlyNew} \subseteq BOOLEAN
    BY DEF Init
  <2>5. QED
    BY <1>2, <1>3, <2>1, <2>3, <2>4 DEF Typed
<1>5. LastIsClose /\ Pairs /\ HeldUntilEnd
  BY <1>3 DEF Init, LastIsClose, Pairs, Paired, HeldUntilEnd, Completes
<1>6. PartialIsNext
  BY DEF Init, PartialIsNext, Replies
<1>7. EndAfterList
  BY <1>2 DEF EndAfterList
<1>8. StaysInSync
  <2>1. Head(toServer).cmd = "LS"
    BY <1>1, <1>2
  <2>2. held
    BY DEF Init
  <2>3. QED
    BY <2>1, <2>2 DEF StaysInSync, EndsNext
<1>9. OneAtATime
  BY <1>1, <1>2, <1>3 DEF OneAtATime
<1>10. LoginIsDue
  BY DEF Init, LoginIsDue
<1>11. QED
  BY <1>4, <1>5, <1>6, <1>7, <1>8, <1>9, <1>10 DEF IInv

\* The invariant holds whatever the server offers, announces and withdraws, and whenever
\* connections are lost.
THEOREM Invariance == Spec => []IInv
<1>1. Init => IInv
  BY InitIInv
<1>2. IInv /\ [Next]_vars => IInv'
  BY TypedStep, LastIsCloseStep, PairsStep, PartialIsNextStep, HeldUntilEndStep,
     EndAfterListStep, StaysInSyncStep, OneAtATimeStep, LoginIsDueStep DEF IInv
<1>3. QED
  BY <1>1, <1>2, PTL DEF Spec

-----------------------------------------------------------------------------
(* The theorems.                                                           *)

\* Every variable keeps its type, and only what is offered is enabled.
THEOREM TypeCorrect == Spec => []TypeOK
<1>1. IInv => TypeOK
  BY DEF IInv, Typed
<1>2. QED
  BY <1>1, Invariance, PTL

\* A registered connection on which nothing is on its way has exactly the capabilities that the
\* worker believes enabled (upstreamcommands.js:7), unless one was asked for after the
\* registration or a LIST reply was cut in two (upstreamcommands.js: accumulateMultiline()).
THEOREM KnowsWhatIsEnabled == Spec => []CapsInSyncUnlessNew
<1>1. IInv => CapsInSyncUnlessNew
  <2> SUFFICES ASSUME IInv, ~lateAck, ~cut, registered, alive, toServer = <<>>, toWorker = <<>>
               PROVE  caps = enabled
    BY DEF CapsInSyncUnlessNew, CapsInSync
  <2>1. Len(toWorker) = 0
    BY EmptySeq
  <2>2. ~held
    BY DEF IInv, Typed, TypeOK, HeldUntilEnd
  <2>3. ~AckIsLate(toWorker, registered)
    BY <2>1 DEF AckIsLate
  <2>4. Synced(toWorker, partial, caps, enabled)
    BY <2>2, <2>3 DEF IInv, StaysInSync
  <2>5. PICK i \in 0..Len(toWorker) : SyncedBy(toWorker, partial, caps, enabled, i)
    BY <2>4 DEF Synced
  <2>6. i = 0 /\ Withdrawn(toWorker, i) = {}
    BY <2>1, <2>5 DEF Withdrawn
  <2>7. caps \ Withdrawn(toWorker, i) = enabled
    BY <2>5, <2>6 DEF SyncedBy
  <2>8. QED
    BY <2>6, <2>7
<1>2. QED
  BY <1>1, Invariance, PTL

\* A connection whose network has an account and whose server has enabled SASL is not registered
\* before the login succeeded, unless a capability was announced meanwhile
\* (upstreamcommands.js:171, 903).
THEOREM LogsInFirst == Spec => LoginBeforeRegistration
<1>1. IInv /\ [Next]_vars
         => [held /\ ~held' /\ HasLogin /\ "sasl" \in enabled /\ ~earlyNew => loggedIn]_vars
  <2> SUFFICES ASSUME IInv, [Next]_vars, held, ~held', HasLogin, "sasl" \in enabled, ~earlyNew
               PROVE  loggedIn
    OBVIOUS
  <2>1. Typed /\ LoginIsDue /\ toServer \in Seq(Written)
    BY DEF IInv, Typed
  <2>2. CASE ServerHandles
    <3>1. /\ alive /\ toServer # <<>>
          /\ \E ls : Sends(ls) /\ Serves(ls)
      BY <2>1, <2>2, Served
    <3>2. Head(toServer).cmd = "END"
      BY <3>1 DEF Sends
    <3>3. 1 \in 1..Len(toServer) /\ Head(toServer) = toServer[1]
      BY <2>1, <3>1, EmptySeq
    <3>4. QED
      BY <2>1, <3>1, <3>2, <3>3 DEF LoginIsDue
  <2>3. CASE ServerAnnounces
    BY <2>1, <2>3, Announces
  <2>4. CASE WorkerHandles
    BY <2>1, <2>4, Handled
  <2>5. CASE Reopen
    BY <2>5 DEF Reopen
  <2>6. CASE Drop
    BY <2>1, <2>6, Dropped
  <2>7. CASE UNCHANGED vars
    BY <2>7 DEF vars, server
  <2>8. QED
    BY <2>2, <2>3, <2>4, <2>5, <2>6, <2>7 DEF Next
<1>2. QED
  BY <1>1, Invariance, PTL DEF Spec, LoginBeforeRegistration

-----------------------------------------------------------------------------
(* ChannelView.                                                            *)

\* The lines of the server.
Heard ==
    [cmd : {"JOIN", "PART", "KICK"}, chan : Chans, who : Names, to : {{}}, ops : {{}}]
    \union [cmd : {"QUIT"}, chan : {"*"}, who : Names, to : {{}}, ops : {{}}]
    \union [cmd : {"NICK"}, chan : {"*"}, who : Names, to : Names, ops : {{}}]
    \union [cmd : {"MODE"}, chan : Chans, who : Names, to : BOOLEAN, ops : {{}}]
    \union [cmd : {"353"}, chan : Chans, who : Names, to : SUBSET Names, ops : SUBSET Names]
    \union [cmd : {"366"}, chan : Chans \union {"*"}, who : Names, to : {{}}, ops : {{}}]
    \union [cmd : {"PRIVMSG"}, chan : Chans, who : {"you"}, to : {{}}, ops : {{}}]

States == [nick : Names, names : BOOLEAN, buffers : [Chans -> Buffer]]

ViewTyped ==
    /\ ViewTypeOK
    /\ inbox \in Seq(Heard) /\ began \subseteq Chans
    /\ late \in BOOLEAN /\ crashed \in BOOLEAN /\ synced \in BOOLEAN

\* What the user can see of a channel: his nick and, when he is in it, its users.
Sights == [nick : Names, users : SUBSET Names, ops : SUBSET Names]

Seen(c) ==
    IF c \in Chans /\ nick \in members[c]
    THEN [nick |-> nick, users |-> members[c], ops |-> ops[c]]
    ELSE [nick |-> nick, users |-> {}, ops |-> {}]

In(s) == s.nick \in s.users
Minus(s, who) == [nick |-> s.nick, users |-> s.users \ {who}, ops |-> s.ops \ {who}]
Blank(s) == [nick |-> s.nick, users |-> {}, ops |-> {}]

\* The line takes what the user sees of channel c from s to t.
Explains(msg, c, s, t) ==
    \/ /\ msg.cmd \in {"JOIN", "PART", "KICK", "MODE"} /\ msg.chan # c /\ t = s
    \/ /\ msg.cmd = "JOIN" /\ msg.chan = c
       /\ \/ msg.who = s.nick /\ t.nick = s.nick /\ In(t)
          \/ msg.who # s.nick /\ t = [s EXCEPT !.users = @ \union {msg.who}]
    \/ /\ msg.cmd \in {"PART", "KICK"} /\ msg.chan = c
       /\ t = IF msg.who = s.nick THEN Blank(s) ELSE Minus(s, msg.who)
    \/ /\ msg.cmd = "QUIT" /\ msg.who # s.nick /\ t = Minus(s, msg.who)
    \/ /\ msg.cmd = "NICK" /\ msg.to # s.nick /\ msg.to \notin s.users
       /\ t = [nick |-> IF msg.who = s.nick THEN msg.to ELSE s.nick,
               users |-> Renamed(s.users, msg.who, msg.to),
               ops |-> Renamed(s.ops, msg.who, msg.to)]
    \/ /\ msg.cmd = "MODE" /\ msg.chan = c /\ msg.who \in s.users
       /\ t = [s EXCEPT !.ops = IF msg.to THEN @ \union {msg.who} ELSE @ \ {msg.who}]
    \/ /\ msg.cmd = "353" /\ msg.who = s.nick /\ t = s
       /\ msg.chan = c /\ In(s) => msg.to = s.users /\ msg.ops = s.ops
    \/ /\ msg.cmd \in {"366", "PRIVMSG"} /\ t = s

\* The user's own JOIN is followed by the list of the channel.
ListNext(msg, c, s, i, queue) ==
    msg.cmd = "JOIN" /\ msg.chan = c /\ msg.who = s.nick =>
        /\ i + 1 \in 1..Len(queue)
        /\ queue[i + 1].cmd = "353" /\ queue[i + 1].chan = c

\* T is what the user saw of channel c before each line that is on its way, and after them.
Trajectory(c, T) ==
    /\ T \in [0..Len(inbox) -> Sights]
    /\ T[Len(inbox)] = Seen(c)
    /\ \A i \in 1..Len(inbox) :
          /\ Explains(inbox[i], c, T[i - 1], T[i])
          /\ ListNext(inbox[i], c, T[i - 1], i, inbox)

Agree(c, s) ==
    /\ view.nick = s.nick
    /\ c \in Chans => (view.buffers[c].joined <=> In(s))

\* The list of the channel is the next line.
ListComes(c) == inbox # <<>> /\ Head(inbox).cmd = "353" /\ Head(inbox).chan = c

Exact(c, s) ==
    /\ view.nick = s.nick /\ view.buffers[c].exists
    /\ In(s) => \/ view.buffers[c].users = s.users /\ view.buffers[c].ops = s.ops
                \/ ListComes(c) /\ synced

\* The worker's view is what the user saw before the lines that are on their way.
Follows(c, s) ==
    /\ ~crashed /\ ~late => Agree(c, s)
    /\ c \in began => Exact(c, s)

Tracked == \A c \in Chans \union {"*"} : \E T : Trajectory(c, T) /\ Follows(c, T[0])

OpsAreMembers == \A c \in Chans : ops[c] \subseteq members[c]

\* A list goes on until its end.
ListsEnd(queue) ==
    \A i \in 1..Len(queue) :
        queue[i].cmd = "353" => i + 1 \in 1..Len(queue) /\ queue[i + 1].cmd \in {"353", "366"}

\* The lines of a step explain to the user all that it changed.
Tells(c, ls) ==
    /\ ls = <<>> => Seen(c)' = Seen(c)
    /\ \A i \in 1..Len(ls) :
          /\ Explains(ls[i], c, IF i = 1 THEN Seen(c) ELSE Seen(c)', Seen(c)')
          /\ ListNext(ls[i], c, IF i = 1 THEN Seen(c) ELSE Seen(c)', i, ls)

\* What a step of the server does.
ServerDoes ==
    /\ members' \in [Chans -> SUBSET Names] /\ ops' \in [Chans -> SUBSET Names] /\ nick' \in Names
    /\ OpsAreMembers'
    /\ \E ls \in Seq(Heard) : /\ inbox' = inbox \o ls /\ ListsEnd(ls)
                             /\ \A c \in Chans \union {"*"} : Tells(c, ls)

\* The flag is down in a worker that knows that no list is open; once it has known that,
\* the rest of a list that is open comes next.
NoListOpen ==
    /\ synced => ~view.names
    /\ began # {} /\ ~synced => inbox # <<>> /\ Head(inbox).cmd \in {"353", "366"}

JoinedExist ==
    \A c \in Chans : /\ view.buffers[c].joined => view.buffers[c].exists
                     /\ row.buffers[c].joined => row.buffers[c].exists

\* What is not marked is in the row, as far as the next worker has to agree.
Saved ==
    /\ ~dirty => /\ row.nick = view.nick
                 /\ \A c \in Chans : row.buffers[c].joined = view.buffers[c].joined
    /\ stopping /\ ~late => ~dirty

ViewInv ==
    /\ ViewTyped /\ OpsAreMembers /\ ListsEnd(inbox)
    /\ NoListOpen /\ JoinedExist /\ Saved /\ Tracked

-----------------------------------------------------------------------------
\* What the lines carry.
LEMMA LineKinds ==
    ASSUME NEW msg \in Heard
    PROVE  /\ msg.cmd \in {"JOIN", "PART", "KICK", "QUIT", "NICK", "MODE", "353", "366", "PRIVMSG"}
           /\ msg.cmd \in {"JOIN", "PART", "KICK", "MODE", "353", "PRIVMSG"} =>
                 msg.chan \in Chans
           /\ msg.cmd # "PRIVMSG" => msg.who \in Names
           /\ msg.cmd = "NICK" => msg.to \in Names
           /\ msg.cmd = "MODE" => msg.to \in BOOLEAN
           /\ msg.cmd = "353" => msg.to \subseteq Names /\ msg.ops \subseteq Names
BY DEF Heard

\* The queue when its head is handled or lost.
LEMMA Read ==
    ASSUME NEW S, NEW q \in Seq(S), q # <<>>
    PROVE  /\ Tail(q) \in Seq(S) /\ Head(q) \in S /\ Len(Tail(q)) \in Nat
           /\ Len(q) = Len(Tail(q)) + 1 /\ Head(q) = q[1]
           /\ \A i \in 1..Len(Tail(q)) : Tail(q)[i] = q[i + 1]
<1>1. Len(q) \in Nat /\ Len(q) # 0
  BY EmptySeq, LenProperties
<1>2. QED
  BY <1>1, HeadTailProperties, LenProperties

\* What a handler does to a state, one buffer at a time.
LEMMA Put ==
    ASSUME view \in States, NEW c \in Chans, NEW b \in Buffer, NEW m \in BOOLEAN,
           InBuffer(c, b, m)
    PROVE  /\ view' \in States /\ view'.nick = view.nick /\ view'.names = view.names
           /\ view'.buffers[c] = b
           /\ \A d \in Chans \ {c} : view'.buffers[d] = view.buffers[d]
           /\ dirty' = (dirty \/ m)
BY DEF InBuffer, Becomes, States

\* The fields of a state.
LEMMA Fields ==
    ASSUME NEW v \in States
    PROVE  /\ v.nick \in Names /\ v.names \in BOOLEAN
           /\ \A c \in Chans : /\ v.buffers[c] \in Buffer
                               /\ v.buffers[c].exists \in BOOLEAN /\ v.buffers[c].joined \in BOOLEAN
                               /\ v.buffers[c].users \subseteq Names
                               /\ v.buffers[c].ops \subseteq Names
BY DEF States, Buffer

\* The state of the worker and its row have these types.
LEMMA TypedStates ==
    ASSUME ViewTyped
    PROVE  view \in States /\ row \in States
BY DEF ViewTyped, ViewTypeOK, States

\* A queue with a line in it.
LEMMA First ==
    ASSUME NEW S, NEW q \in Seq(S), Len(q) # 0
    PROVE  q # <<>> /\ Head(q) = q[1] /\ q[1] \in S
<1>1. q # <<>>
  BY EmptySeq
<1>2. QED
  BY <1>1, Read

\* JOIN
LEMMA JoinDoes ==
    ASSUME view \in States, dirty \in BOOLEAN, NEW msg \in Heard, msg.cmd = "JOIN", OnJoin(msg)
    PROVE  /\ view' \in States /\ dirty' \in BOOLEAN
           /\ view'.nick = view.nick /\ view'.names = view.names
           /\ dirty \/ msg.who = view.nick => dirty'
           /\ \A d \in Chans :
                 /\ view'.buffers[d].exists <=> view.buffers[d].exists \/ d = msg.chan
                 /\ view'.buffers[d].joined <=>
                       view.buffers[d].joined \/ (d = msg.chan /\ msg.who = view.nick)
                 /\ view'.buffers[d].users = IF d = msg.chan /\ msg.who # view.nick
                                             THEN view.buffers[d].users \union {msg.who}
                                             ELSE view.buffers[d].users
                 /\ view'.buffers[d].ops = view.buffers[d].ops
<1> DEFINE c == msg.chan
           b == Known(view.buffers[c])
<1>1. c \in Chans /\ msg.who \in Names
  BY LineKinds
<1>2. /\ b \in Buffer /\ b.exists = TRUE /\ b.joined = view.buffers[c].joined
      /\ b.users = view.buffers[c].users /\ b.ops = view.buffers[c].ops
  <2>1. view.buffers[c] \in Buffer
    BY <1>1, Fields
  <2>2. QED
    BY <2>1 DEF Known, Buffer
<1> HIDE DEF b
<1>3. CASE msg.who # view.nick
  <2> DEFINE n == [b EXCEPT !.users = @ \union {msg.who}]
  <2>1. /\ n \in Buffer /\ n.exists = TRUE /\ n.joined = view.buffers[c].joined
        /\ n.users = view.buffers[c].users \union {msg.who} /\ n.ops = view.buffers[c].ops
    BY <1>1, <1>2 DEF Buffer
  <2>2. InBuffer(c, n, FALSE)
    BY <1>3 DEF OnJoin, b
  <2> HIDE DEF n
  <2>3. /\ view' \in States /\ view'.nick = view.nick /\ view'.names = view.names
        /\ view'.buffers[c] = n /\ \A d \in Chans \ {c} : view'.buffers[d] = view.buffers[d]
        /\ dirty' = (dirty \/ FALSE)
    BY <1>1, <2>1, <2>2, Put
  <2>4. QED
    BY <1>1, <1>3, <2>1, <2>3
<1>4. CASE msg.who = view.nick
  <2> DEFINE n == [b EXCEPT !.joined = TRUE]
  <2>1. /\ n \in Buffer /\ n.exists = TRUE /\ n.joined = TRUE
        /\ n.users = view.buffers[c].users /\ n.ops = view.buffers[c].ops
    BY <1>1, <1>2 DEF Buffer
  <2>2. InBuffer(c, n, TRUE)
    BY <1>4 DEF OnJoin, b
  <2> HIDE DEF n
  <2>3. /\ view' \in States /\ view'.nick = view.nick /\ view'.names = view.names
        /\ view'.buffers[c] = n /\ \A d \in Chans \ {c} : view'.buffers[d] = view.buffers[d]
        /\ dirty' = (dirty \/ TRUE)
    BY <1>1, <2>1, <2>2, Put
  <2>4. QED
    BY <1>1, <1>4, <2>1, <2>3
<1>5. QED
  BY <1>3, <1>4

\* PART and KICK
LEMMA PartDoes ==
    ASSUME view \in States, dirty \in BOOLEAN, NEW msg \in Heard,
           msg.cmd \in {"PART", "KICK"}, OnPart(msg)
    PROVE  /\ view' \in States /\ dirty' \in BOOLEAN
           /\ view'.nick = view.nick /\ view'.names = view.names
           /\ dirty \/ view.buffers[msg.chan].exists => dirty'
           /\ \A d \in Chans :
                 /\ view'.buffers[d].exists = view.buffers[d].exists
                 /\ d # msg.chan \/ ~view.buffers[d].exists => view'.buffers[d] = view.buffers[d]
                 /\ d = msg.chan /\ view.buffers[d].exists /\ msg.who = view.nick =>
                       /\ view'.buffers[d].joined = FALSE
                       /\ view'.buffers[d].users = {} /\ view'.buffers[d].ops = {}
                 /\ d = msg.chan /\ view.buffers[d].exists /\ msg.who # view.nick =>
                       /\ view'.buffers[d].joined = view.buffers[d].joined
                       /\ view'.buffers[d].users = view.buffers[d].users \ {msg.who}
                       /\ view'.buffers[d].ops = view.buffers[d].ops \ {msg.who}
<1> DEFINE c == msg.chan
           b == view.buffers[c]
<1>1. c \in Chans /\ msg.who \in Names
  BY LineKinds
<1>2. CASE ~b.exists
  BY <1>1, <1>2, Fields DEF OnPart
<1>3. CASE b.exists
  <2> DEFINE n == IF msg.who = view.nick THEN Left(b) ELSE Without(b, msg.who)
  <2>1. /\ n \in Buffer /\ n.exists = b.exists
        /\ msg.who = view.nick => n.joined = FALSE /\ n.users = {} /\ n.ops = {}
        /\ msg.who # view.nick => /\ n.joined = b.joined
                                  /\ n.users = b.users \ {msg.who} /\ n.ops = b.ops \ {msg.who}
    <3>1. b \in Buffer
      BY <1>1, Fields
    <3> HIDE DEF b
    <3>2. /\ Left(b) \in Buffer /\ Left(b).exists = b.exists /\ Left(b).joined = FALSE
          /\ Left(b).users = {} /\ Left(b).ops = {}
      BY <3>1 DEF Buffer, Left
    <3>3. /\ Without(b, msg.who) \in Buffer /\ Without(b, msg.who).exists = b.exists
          /\ Without(b, msg.who).joined = b.joined
          /\ Without(b, msg.who).users = b.users \ {msg.who}
          /\ Without(b, msg.who).ops = b.ops \ {msg.who}
      BY <3>1 DEF Buffer, Without
    <3>4. QED
      BY <3>2, <3>3
  <2>2. InBuffer(c, n, TRUE)
    BY <1>3 DEF OnPart
  <2> HIDE DEF n
  <2>3. /\ view' \in States /\ view'.nick = view.nick /\ view'.names = view.names
        /\ view'.buffers[c] = n /\ \A d \in Chans \ {c} : view'.buffers[d] = view.buffers[d]
        /\ dirty' = (dirty \/ TRUE)
    BY <1>1, <2>1, <2>2, Put
  <2>4. QED
    BY <1>1, <1>3, <2>1, <2>3
<1>4. QED
  BY <1>2, <1>3

\* QUIT
LEMMA QuitDoes ==
    ASSUME view \in States, NEW msg \in Heard, msg.cmd = "QUIT", OnQuit(msg)
    PROVE  /\ view' \in States /\ dirty' = TRUE
           /\ view'.nick = view.nick /\ view'.names = view.names
           /\ \A d \in Chans :
                 /\ view'.buffers[d].exists = view.buffers[d].exists
                 /\ view'.buffers[d].joined = view.buffers[d].joined
                 /\ view'.buffers[d].users = view.buffers[d].users \ {msg.who}
                 /\ view'.buffers[d].ops = view.buffers[d].ops \ {msg.who}
<1> DEFINE bs == [d \in Chans |-> Without(view.buffers[d], msg.who)]
<1>1. \A d \in Chans : /\ bs[d] \in Buffer
                       /\ bs[d].exists = view.buffers[d].exists
                       /\ bs[d].joined = view.buffers[d].joined
                       /\ bs[d].users = view.buffers[d].users \ {msg.who}
                       /\ bs[d].ops = view.buffers[d].ops \ {msg.who}
  BY Fields DEF Without, Buffer
<1>2. bs \in [Chans -> Buffer]
  BY <1>1
<1>3. view' = [view EXCEPT !.buffers = bs] /\ dirty' = TRUE
  BY DEF OnQuit, Becomes
<1> HIDE DEF bs
<1>4. /\ view' \in States /\ view'.nick = view.nick /\ view'.names = view.names
      /\ view'.buffers = bs
  BY <1>2, <1>3 DEF States
<1>5. QED
  BY <1>1, <1>3, <1>4

\* NICK
LEMMA NickDoes ==
    ASSUME view \in States, dirty \in BOOLEAN, NEW msg \in Heard, msg.cmd = "NICK", OnNick(msg)
    PROVE  /\ view' \in States /\ dirty' \in BOOLEAN
           /\ view'.nick = IF msg.who = view.nick THEN msg.to ELSE view.nick
           /\ view'.names = view.names
           /\ dirty \/ msg.who = view.nick => dirty'
           /\ \A d \in Chans :
                 /\ view'.buffers[d].exists = view.buffers[d].exists
                 /\ view'.buffers[d].joined = view.buffers[d].joined
                 /\ view'.buffers[d].users = Renamed(view.buffers[d].users, msg.who, msg.to)
                 /\ view'.buffers[d].ops = Renamed(view.buffers[d].ops, msg.who, msg.to)
<1> DEFINE bs == [d \in Chans |-> Changed(view.buffers[d], msg.who, msg.to)]
           n == IF msg.who = view.nick THEN msg.to ELSE view.nick
<1>1. msg.who \in Names /\ msg.to \in Names
  BY LineKinds
<1>2. \A d \in Chans : /\ bs[d] \in Buffer
                       /\ bs[d].exists = view.buffers[d].exists
                       /\ bs[d].joined = view.buffers[d].joined
                       /\ bs[d].users = Renamed(view.buffers[d].users, msg.who, msg.to)
                       /\ bs[d].ops = Renamed(view.buffers[d].ops, msg.who, msg.to)
  BY <1>1, Fields DEF Changed, Renamed, Buffer
<1>3. bs \in [Chans -> Buffer] /\ n \in Names
  BY <1>1, <1>2, Fields
<1>4. view' = [view EXCEPT !.nick = n, !.buffers = bs]
  BY DEF OnNick, AfterNick, Becomes
<1>5. dirty' = (dirty \/ msg.who = view.nick)
  BY DEF OnNick, Becomes
<1> HIDE DEF bs, n
<1>6. /\ view' \in States /\ view'.nick = n /\ view'.names = view.names /\ view'.buffers = bs
  BY <1>3, <1>4 DEF States
<1>7. QED
  BY <1>2, <1>5, <1>6 DEF n

\* MODE
LEMMA ModeDoes ==
    ASSUME view \in States, dirty \in BOOLEAN, NEW msg \in Heard, msg.cmd = "MODE", OnMode(msg)
    PROVE  /\ view' \in States /\ dirty' = dirty
           /\ view'.nick = view.nick /\ view'.names = view.names
           /\ \A d \in Chans :
                 /\ view'.buffers[d].exists = view.buffers[d].exists
                 /\ view'.buffers[d].joined = view.buffers[d].joined
                 /\ view'.buffers[d].users = view.buffers[d].users
                 /\ view'.buffers[d].ops = IF d = msg.chan /\ msg.who \in view.buffers[d].users
                                           THEN IF msg.to
                                                THEN view.buffers[d].ops \union {msg.who}
                                                ELSE view.buffers[d].ops \ {msg.who}
                                           ELSE view.buffers[d].ops
<1> DEFINE c == msg.chan
           b == view.buffers[c]
<1>1. c \in Chans /\ msg.who \in Names
  BY LineKinds
<1>2. CASE msg.who \notin b.users
  BY <1>1, <1>2 DEF OnMode
<1>3. CASE msg.who \in b.users
  <2> DEFINE n == [b EXCEPT !.ops = IF msg.to THEN @ \union {msg.who} ELSE @ \ {msg.who}]
  <2>1. /\ n \in Buffer /\ n.exists = b.exists /\ n.joined = b.joined /\ n.users = b.users
        /\ n.ops = IF msg.to THEN b.ops \union {msg.who} ELSE b.ops \ {msg.who}
    BY <1>1, Fields DEF Buffer
  <2>2. InBuffer(c, n, FALSE)
    BY <1>3 DEF OnMode
  <2> HIDE DEF n
  <2>3. /\ view' \in States /\ view'.nick = view.nick /\ view'.names = view.names
        /\ view'.buffers[c] = n /\ \A d \in Chans \ {c} : view'.buffers[d] = view.buffers[d]
        /\ dirty' = (dirty \/ FALSE)
    BY <1>1, <2>1, <2>2, Put
  <2>4. QED
    BY <1>1, <1>3, <2>1, <2>3
<1>4. QED
  BY <1>2, <1>3

\* 353
LEMMA NamesDoes ==
    ASSUME view \in States, NEW msg \in Heard, msg.cmd = "353", OnNames(msg)
    PROVE  /\ view' \in States /\ dirty' = TRUE
           /\ view'.nick = view.nick /\ view'.names = TRUE
           /\ \A d \in Chans :
                 /\ view'.buffers[d].exists <=> view.buffers[d].exists \/ d = msg.chan
                 /\ view'.buffers[d].joined = view.buffers[d].joined
                 /\ d # msg.chan => view'.buffers[d] = view.buffers[d]
                 /\ d = msg.chan /\ ~view.names =>
                       view'.buffers[d].users = msg.to /\ view'.buffers[d].ops = msg.ops
                 /\ d = msg.chan /\ view.names =>
                       /\ view'.buffers[d].users = view.buffers[d].users \union msg.to
                       /\ view'.buffers[d].ops = (view.buffers[d].ops \ msg.to) \union msg.ops
<1> DEFINE c == msg.chan
           b == Known(view.buffers[c])
           kept == IF view.names THEN b ELSE [b EXCEPT !.users = {}, !.ops = {}]
           n == [kept EXCEPT !.users = @ \union msg.to, !.ops = (@ \ msg.to) \union msg.ops]
<1>1. c \in Chans /\ msg.to \subseteq Names /\ msg.ops \subseteq Names
  BY LineKinds
<1>2. /\ b \in Buffer /\ b.exists = TRUE /\ b.joined = view.buffers[c].joined
      /\ b.users = view.buffers[c].users /\ b.ops = view.buffers[c].ops
  <2>1. view.buffers[c] \in Buffer
    BY <1>1, Fields
  <2>2. QED
    BY <2>1 DEF Known, Buffer
<1>3. /\ n \in Buffer /\ n.exists = TRUE /\ n.joined = view.buffers[c].joined
      /\ ~view.names => n.users = msg.to /\ n.ops = msg.ops
      /\ view.names => /\ n.users = view.buffers[c].users \union msg.to
                       /\ n.ops = (view.buffers[c].ops \ msg.to) \union msg.ops
  <2> HIDE DEF b
  <2>1. /\ kept \in Buffer /\ kept.exists = TRUE /\ kept.joined = view.buffers[c].joined
        /\ ~view.names => kept.users = {} /\ kept.ops = {}
        /\ view.names => kept.users = view.buffers[c].users /\ kept.ops = view.buffers[c].ops
    BY <1>2 DEF Buffer
  <2> HIDE DEF kept
  <2>2. QED
    BY <1>1, <2>1 DEF Buffer
<1>4. view' = [view EXCEPT !.names = TRUE, !.buffers[c] = n] /\ dirty' = TRUE
  BY DEF OnNames, Becomes
<1> HIDE DEF n, kept, b
<1>5. /\ view' \in States /\ view'.nick = view.nick /\ view'.names = TRUE
      /\ view'.buffers[c] = n /\ \A d \in Chans \ {c} : view'.buffers[d] = view.buffers[d]
  BY <1>1, <1>3, <1>4 DEF States
<1>6. QED
  BY <1>1, <1>3, <1>4, <1>5

\* 366
LEMMA EndDoes ==
    ASSUME view \in States, NEW msg \in Heard, OnEndOfNames(msg)
    PROVE  /\ view' \in States /\ dirty' = TRUE /\ synced' = TRUE
           /\ view'.nick = view.nick /\ view'.names = FALSE /\ view'.buffers = view.buffers
BY DEF OnEndOfNames, Becomes, States

\* PRIVMSG
LEMMA MessageDoes ==
    ASSUME view \in States, dirty \in BOOLEAN, NEW msg \in Heard, msg.cmd = "PRIVMSG",
           OnMessage(msg)
    PROVE  /\ view' \in States /\ dirty' \in BOOLEAN /\ (dirty => dirty')
           /\ view'.nick = view.nick /\ view'.names = view.names
           /\ \A d \in Chans :
                 /\ view.buffers[d].exists => view'.buffers[d].exists
                 /\ view'.buffers[d].joined = view.buffers[d].joined
                 /\ view'.buffers[d].users = view.buffers[d].users
                 /\ view'.buffers[d].ops = view.buffers[d].ops
<1> DEFINE c == msg.chan
           b == view.buffers[c]
           n == Known(b)
<1>1. c \in Chans /\ b \in Buffer
  BY LineKinds, Fields
<1>2. CASE b.exists /\ ~b.joined
  BY <1>2 DEF OnMessage
<1>3. CASE ~(b.exists /\ ~b.joined)
  <2>1. /\ n \in Buffer /\ n.exists = TRUE /\ n.joined = b.joined /\ n.users = b.users
        /\ n.ops = b.ops
    BY <1>1 DEF Buffer, Known
  <2>2. InBuffer(c, n, ~b.exists)
    BY <1>3 DEF OnMessage
  <2> DEFINE m == ~b.exists
  <2>5. m \in BOOLEAN
    OBVIOUS
  <2> HIDE DEF n, m
  <2>3. /\ view' \in States /\ view'.nick = view.nick /\ view'.names = view.names
        /\ view'.buffers[c] = n /\ \A d \in Chans \ {c} : view'.buffers[d] = view.buffers[d]
        /\ dirty' = (dirty \/ m)
    BY <1>1, <2>1, <2>2, <2>5, Put DEF m
  <2>4. QED
    BY <1>1, <2>1, <2>3, <2>5
<1>4. QED
  BY <1>2, <1>3

\* The line that is handled, and by which handler.
LEMMA Treated ==
    ASSUME ViewTyped, Handle
    PROVE  /\ Head(inbox) \in Heard /\ inbox # <<>> /\ inbox \in Seq(Heard)
           /\ Head(inbox).cmd = "JOIN" => OnJoin(Head(inbox))
           /\ Head(inbox).cmd \in {"PART", "KICK"} => OnPart(Head(inbox))
           /\ Head(inbox).cmd = "QUIT" => OnQuit(Head(inbox))
           /\ Head(inbox).cmd = "NICK" => OnNick(Head(inbox))
           /\ Head(inbox).cmd = "MODE" => OnMode(Head(inbox))
           /\ Head(inbox).cmd = "353" =>
                 /\ OnNames(Head(inbox)) /\ synced' = FALSE
                 /\ began' = IF synced /\ view.nick = Head(inbox).who
                             THEN began \union {Head(inbox).chan} ELSE began
           /\ Head(inbox).cmd = "366" => OnEndOfNames(Head(inbox))
           /\ Head(inbox).cmd = "PRIVMSG" => OnMessage(Head(inbox))
           /\ Head(inbox).cmd # "353" => began' = began
           /\ Head(inbox).cmd \notin {"353", "366"} => synced' = synced
           /\ inbox' = Tail(inbox) /\ late' = (late \/ stopping)
           /\ UNCHANGED <<members, ops, nick, row, stopping, crashed>>
<1>1. inbox # <<>> /\ inbox \in Seq(Heard)
  BY DEF Handle, ViewTyped
<1>2. Head(inbox) \in Heard
  BY <1>1, Read
<1> DEFINE msg == Head(inbox)
<1>3. /\ inbox' = Tail(inbox) /\ late' = (late \/ stopping)
      /\ UNCHANGED <<members, ops, nick, row, stopping, crashed>>
  BY DEF Handle, channelVars
<1>4. \/ msg.cmd = "JOIN" /\ OnJoin(msg) /\ UNCHANGED listing
      \/ msg.cmd \in {"PART", "KICK"} /\ OnPart(msg) /\ UNCHANGED listing
      \/ msg.cmd = "QUIT" /\ OnQuit(msg) /\ UNCHANGED listing
      \/ msg.cmd = "NICK" /\ OnNick(msg) /\ UNCHANGED listing
      \/ msg.cmd = "MODE" /\ OnMode(msg) /\ UNCHANGED listing
      \/ /\ msg.cmd = "353" /\ OnNames(msg)
         /\ began' = IF synced /\ view.nick = msg.who THEN began \union {msg.chan} ELSE began
         /\ synced' = FALSE
      \/ msg.cmd = "366" /\ OnEndOfNames(msg) /\ UNCHANGED began
      \/ msg.cmd = "PRIVMSG" /\ OnMessage(msg) /\ UNCHANGED listing
  BY DEF Handle
<1> HIDE DEF msg
<1>5. UNCHANGED listing => UNCHANGED <<began, synced>>
  BY DEF listing
<1>6. /\ msg.cmd = "JOIN" => OnJoin(msg)
      /\ msg.cmd \in {"PART", "KICK"} => OnPart(msg)
      /\ msg.cmd = "QUIT" => OnQuit(msg)
      /\ msg.cmd = "NICK" => OnNick(msg)
      /\ msg.cmd = "MODE" => OnMode(msg)
      /\ msg.cmd = "366" => OnEndOfNames(msg)
      /\ msg.cmd = "PRIVMSG" => OnMessage(msg)
  BY <1>4
<1>7. /\ msg.cmd = "353" =>
            /\ OnNames(msg) /\ synced' = FALSE
            /\ began' = IF synced /\ view.nick = msg.who THEN began \union {msg.chan} ELSE began
      /\ msg.cmd # "353" => began' = began
      /\ msg.cmd \notin {"353", "366"} => synced' = synced
  BY <1>4, <1>5
<1>8. QED
  BY <1>1, <1>2, <1>3, <1>6, <1>7 DEF msg

\* What each line explains.
Explanation(msg, c, s, t) ==
    /\ msg.cmd # "NICK" => t.nick = s.nick
    /\ msg.cmd \in {"JOIN", "PART", "KICK", "MODE"} /\ msg.chan # c => t = s
    /\ msg.cmd = "JOIN" /\ msg.chan = c /\ msg.who = s.nick => In(t)
    /\ msg.cmd = "JOIN" /\ msg.chan = c /\ msg.who # s.nick =>
          t.users = s.users \union {msg.who} /\ t.ops = s.ops
    /\ msg.cmd \in {"PART", "KICK"} /\ msg.chan = c /\ msg.who = s.nick =>
          t.users = {} /\ t.ops = {}
    /\ msg.cmd \in {"PART", "KICK"} /\ msg.chan = c /\ msg.who # s.nick =>
          t.users = s.users \ {msg.who} /\ t.ops = s.ops \ {msg.who}
    /\ msg.cmd = "QUIT" =>
          /\ msg.who # s.nick
          /\ t.users = s.users \ {msg.who} /\ t.ops = s.ops \ {msg.who}
    /\ msg.cmd = "NICK" =>
          /\ msg.to # s.nick /\ msg.to \notin s.users
          /\ t.nick = IF msg.who = s.nick THEN msg.to ELSE s.nick
          /\ t.users = Renamed(s.users, msg.who, msg.to)
          /\ t.ops = Renamed(s.ops, msg.who, msg.to)
    /\ msg.cmd = "MODE" /\ msg.chan = c =>
          /\ msg.who \in s.users /\ t.users = s.users
          /\ t.ops = IF msg.to THEN s.ops \union {msg.who} ELSE s.ops \ {msg.who}
    /\ msg.cmd \in {"353", "366", "PRIVMSG"} => t = s
    /\ msg.cmd = "353" => msg.who = s.nick
    /\ msg.cmd = "353" /\ msg.chan = c /\ In(s) => msg.to = s.users /\ msg.ops = s.ops

\* A line that explains what the user sees does so in its own way.
LEMMA Explained ==
    ASSUME NEW msg \in Heard, NEW c, NEW s \in Sights, NEW t \in Sights, Explains(msg, c, s, t)
    PROVE  Explanation(msg, c, s, t)
<1>1. msg.cmd \in {"JOIN", "PART", "KICK", "QUIT", "NICK", "MODE", "353", "366", "PRIVMSG"}
  BY LineKinds
<1>2. /\ Minus(s, msg.who).nick = s.nick
      /\ Minus(s, msg.who).users = s.users \ {msg.who}
      /\ Minus(s, msg.who).ops = s.ops \ {msg.who}
      /\ Blank(s).nick = s.nick /\ Blank(s).users = {} /\ Blank(s).ops = {}
  BY DEF Minus, Blank
<1>3. CASE msg.cmd = "JOIN"
  <2>1. \/ msg.chan # c /\ t = s
        \/ msg.chan = c /\ msg.who = s.nick /\ t.nick = s.nick /\ In(t)
        \/ msg.chan = c /\ msg.who # s.nick /\ t = [s EXCEPT !.users = @ \union {msg.who}]
    BY <1>3 DEF Explains
  <2>2. QED
    BY <1>3, <2>1 DEF Sights, Explanation
<1>4. CASE msg.cmd \in {"PART", "KICK"}
  <2>1. \/ msg.chan # c /\ t = s
        \/ /\ msg.chan = c
           /\ t = IF msg.who = s.nick THEN Blank(s) ELSE Minus(s, msg.who)
    BY <1>4 DEF Explains
  <2>2. QED
    BY <1>2, <1>4, <2>1 DEF Sights, Explanation
<1>5. CASE msg.cmd = "QUIT"
  <2>1. msg.who # s.nick /\ t = Minus(s, msg.who)
    BY <1>5 DEF Explains
  <2>2. QED
    BY <1>2, <1>5, <2>1 DEF Explanation
<1>6. CASE msg.cmd = "NICK"
  <2>1. /\ msg.to # s.nick /\ msg.to \notin s.users
        /\ t = [nick |-> IF msg.who = s.nick THEN msg.to ELSE s.nick,
                users |-> Renamed(s.users, msg.who, msg.to),
                ops |-> Renamed(s.ops, msg.who, msg.to)]
    BY <1>6 DEF Explains
  <2>2. QED
    BY <1>6, <2>1 DEF Explanation
<1>7. CASE msg.cmd = "MODE"
  <2>1. \/ msg.chan # c /\ t = s
        \/ /\ msg.chan = c /\ msg.who \in s.users
           /\ t = [s EXCEPT !.ops = IF msg.to THEN @ \union {msg.who} ELSE @ \ {msg.who}]
    BY <1>7 DEF Explains
  <2>2. QED
    BY <1>7, <2>1 DEF Sights, Explanation
<1>8. CASE msg.cmd = "353"
  <2>1. /\ msg.who = s.nick /\ t = s
        /\ msg.chan = c /\ In(s) => msg.to = s.users /\ msg.ops = s.ops
    BY <1>8 DEF Explains
  <2>2. QED
    BY <1>8, <2>1 DEF Explanation
<1>9. CASE msg.cmd \in {"366", "PRIVMSG"}
  <2>1. t = s
    BY <1>9 DEF Explains
  <2>2. QED
    BY <1>9, <2>1 DEF Explanation
<1>10. QED
  BY <1>1, <1>3, <1>4, <1>5, <1>6, <1>7, <1>8, <1>9

\* A worker whose nick and channels are right has them right after every line.
LEMMA AgreesAfter ==
    ASSUME ViewTyped, JoinedExist, Handle, NEW c \in Chans \union {"*"},
           NEW s \in Sights, NEW t \in Sights, Explains(Head(inbox), c, s, t), Agree(c, s)
    PROVE  Agree(c, t)'
<1> DEFINE msg == Head(inbox)
<1>1. /\ msg \in Heard /\ view \in States /\ dirty \in BOOLEAN
      /\ s.nick \in Names /\ s.users \subseteq Names
  BY Treated, TypedStates DEF ViewTyped, ViewTypeOK, Sights
<1>0. Explains(msg, c, s, t)
  OBVIOUS
<1>10. Explanation(msg, c, s, t)
  BY <1>0, <1>1, Explained
<1> HIDE DEF msg
<1>2. view.nick = s.nick /\ (c \in Chans => (view.buffers[c].joined <=> In(s)))
  BY DEF Agree
<1>3. c \in Chans => view.buffers[c].joined \in BOOLEAN /\ view.buffers[c].exists \in BOOLEAN
  BY <1>1, Fields
<1> SUFFICES /\ view'.nick = t.nick
             /\ c \in Chans => (view'.buffers[c].joined <=> In(t))
  BY DEF Agree
<1>4. CASE msg.cmd = "JOIN"
  <2>1. OnJoin(msg)
    BY <1>4, Treated DEF msg
  <2>2. /\ view'.nick = view.nick
        /\ c \in Chans => (view'.buffers[c].joined <=>
                              view.buffers[c].joined \/ (c = msg.chan /\ msg.who = view.nick))
    BY <1>1, <1>4, <2>1, JoinDoes
  <2>3. /\ t.nick = s.nick /\ (msg.chan # c => t = s)
        /\ msg.chan = c /\ msg.who = s.nick => In(t)
        /\ msg.chan = c /\ msg.who # s.nick => t.users = s.users \union {msg.who}
    BY <1>10, <1>4 DEF Explanation
  <2>4. QED
    BY <1>2, <2>2, <2>3 DEF In
<1>5. CASE msg.cmd \in {"PART", "KICK"}
  <2>1. OnPart(msg)
    BY <1>5, Treated DEF msg
  <2>2. /\ view'.nick = view.nick
        /\ c \in Chans =>
              /\ c # msg.chan \/ ~view.buffers[c].exists => view'.buffers[c] = view.buffers[c]
              /\ c = msg.chan /\ view.buffers[c].exists /\ msg.who = view.nick =>
                    view'.buffers[c].joined = FALSE
              /\ c = msg.chan /\ view.buffers[c].exists /\ msg.who # view.nick =>
                    view'.buffers[c].joined = view.buffers[c].joined
    BY <1>1, <1>5, <2>1, PartDoes
  <2>3. /\ t.nick = s.nick /\ (msg.chan # c => t = s)
        /\ msg.chan = c /\ msg.who = s.nick => t.users = {}
        /\ msg.chan = c /\ msg.who # s.nick => t.users = s.users \ {msg.who}
    BY <1>10, <1>5 DEF Explanation
  <2>4. c \in Chans /\ ~view.buffers[c].exists => ~view.buffers[c].joined
    BY DEF JoinedExist
  <2>5. QED
    BY <1>2, <2>2, <2>3, <2>4 DEF In
<1>6. CASE msg.cmd = "QUIT"
  <2>1. OnQuit(msg)
    BY <1>6, Treated DEF msg
  <2>2. /\ view'.nick = view.nick
        /\ c \in Chans => view'.buffers[c].joined = view.buffers[c].joined
    BY <1>1, <1>6, <2>1, QuitDoes
  <2>3. t.nick = s.nick /\ msg.who # s.nick /\ t.users = s.users \ {msg.who}
    BY <1>10, <1>6 DEF Explanation
  <2>4. QED
    BY <1>2, <2>2, <2>3 DEF In
<1>7. CASE msg.cmd = "NICK"
  <2>1. OnNick(msg)
    BY <1>7, Treated DEF msg
  <2>2. /\ view'.nick = IF msg.who = view.nick THEN msg.to ELSE view.nick
        /\ c \in Chans => view'.buffers[c].joined = view.buffers[c].joined
    BY <1>1, <1>7, <2>1, NickDoes
  <2>3. /\ msg.to # s.nick /\ msg.to \notin s.users
        /\ t.nick = IF msg.who = s.nick THEN msg.to ELSE s.nick
        /\ t.users = Renamed(s.users, msg.who, msg.to)
    BY <1>10, <1>7 DEF Explanation
  <2>4. In(t) <=> In(s)
    BY <2>3 DEF In, Renamed
  <2>5. QED
    BY <1>2, <2>2, <2>3, <2>4
<1>8. CASE msg.cmd \in {"MODE", "353", "PRIVMSG", "366"}
  <2>1. /\ view'.nick = view.nick
        /\ c \in Chans => view'.buffers[c].joined = view.buffers[c].joined
    <3>1. CASE msg.cmd = "MODE"
      BY <1>1, <3>1, Treated, ModeDoes DEF msg
    <3>2. CASE msg.cmd = "353"
      BY <1>1, <3>2, Treated, NamesDoes DEF msg
    <3>3. CASE msg.cmd = "PRIVMSG"
      BY <1>1, <3>3, Treated, MessageDoes DEF msg
    <3>4. CASE msg.cmd = "366"
      BY <1>1, <3>4, Treated, EndDoes DEF msg
    <3>5. QED
      BY <1>8, <3>1, <3>2, <3>3, <3>4
  <2>2. t.nick = s.nick /\ t.users = s.users
    <3>1. msg.cmd = "MODE" => t.users = s.users
      BY <1>10 DEF Explanation
    <3>2. msg.cmd # "MODE" => t = s
      BY <1>10, <1>8 DEF Explanation
    <3>3. QED
      BY <1>10, <1>8, <3>1, <3>2 DEF Explanation
  <2>3. QED
    BY <1>2, <2>1, <2>2 DEF In
<1>9. QED
  BY <1>1, <1>4, <1>5, <1>6, <1>7, <1>8, LineKinds

\* A channel that is known is known after every line, or its list comes next; and a list
\* that begins when none is open makes it known.
LEMMA ExactAfter ==
    ASSUME ViewTyped, NoListOpen, Handle, NEW c \in Chans,
           NEW s \in Sights, NEW t \in Sights, Explains(Head(inbox), c, s, t),
           ListNext(Head(inbox), c, s, 1, inbox),
           c \in began => Exact(c, s), c \in began'
    PROVE  Exact(c, t)'
<1> DEFINE msg == Head(inbox)
           u == view.buffers[c].users
           o == view.buffers[c].ops
           u1 == view'.buffers[c].users
           o1 == view'.buffers[c].ops
<1>1. /\ msg \in Heard /\ view \in States /\ dirty \in BOOLEAN /\ c \in Chans
      /\ s.nick \in Names /\ s.users \subseteq Names
  BY Treated, TypedStates DEF ViewTyped, ViewTypeOK, Sights
<1>2. Explains(msg, c, s, t)
  OBVIOUS
<1>3. ListNext(msg, c, s, 1, inbox)
  OBVIOUS
<1>4. Explanation(msg, c, s, t)
  BY <1>1, <1>2, Explained
<1>5. CASE msg.cmd = "353" /\ msg.chan = c
  <2>1. /\ OnNames(msg)
        /\ began' = IF synced /\ view.nick = msg.who THEN began \union {c} ELSE began
    BY <1>5, Treated
  <2>2. t = s /\ msg.who = s.nick /\ (In(s) => msg.to = s.users /\ msg.ops = s.ops)
    BY <1>4, <1>5 DEF Explanation
  <2>3. /\ view.nick = s.nick
        /\ synced \/ (In(s) => u = s.users /\ o = s.ops)
    <3>1. CASE c \in began
      BY <3>1 DEF Exact
    <3>2. CASE c \notin began
      BY <2>1, <2>2, <3>2
    <3>3. QED
      BY <3>1, <3>2
  <2>4. synced => ~view.names
    BY DEF NoListOpen
  <2> HIDE DEF msg
  <2>5. /\ view'.nick = view.nick /\ view'.buffers[c].exists
        /\ ~view.names => u1 = msg.to /\ o1 = msg.ops
        /\ view.names => u1 = u \union msg.to /\ o1 = (o \ msg.to) \union msg.ops
    <3>1. /\ view'.nick = view.nick
          /\ \A d \in Chans :
                 /\ view'.buffers[d].exists <=> view.buffers[d].exists \/ d = msg.chan
                 /\ d = msg.chan /\ ~view.names =>
                       view'.buffers[d].users = msg.to /\ view'.buffers[d].ops = msg.ops
                 /\ d = msg.chan /\ view.names =>
                       /\ view'.buffers[d].users = view.buffers[d].users \union msg.to
                       /\ view'.buffers[d].ops = (view.buffers[d].ops \ msg.to) \union msg.ops
      BY <1>1, <1>5, <2>1, NamesDoes
    <3>2. QED
      BY <1>1, <1>5, <3>1
  <2> HIDE DEF u, o, u1, o1
  <2>6. In(s) => u1 = s.users /\ o1 = s.ops
    <3>1. CASE ~view.names
      BY <2>2, <2>5, <3>1
    <3>2. CASE view.names
      <4>1. In(s) => u = s.users /\ o = s.ops
        BY <2>3, <2>4, <3>2
      <4>2. QED
        BY <2>2, <2>5, <3>2, <4>1
    <3>3. QED
      BY <3>1, <3>2
  <2>7. QED
    BY <2>2, <2>3, <2>5, <2>6 DEF Exact, u1, o1
<1>6. CASE ~(msg.cmd = "353" /\ msg.chan = c)
  <2>1. /\ c \in began /\ ~ListComes(c)
    BY <1>6, Treated DEF ListComes
  <2>2. view.nick = s.nick /\ view.buffers[c].exists /\ (In(s) => u = s.users /\ o = s.ops)
    BY <2>1 DEF Exact
  <2> SUFFICES /\ view'.nick = t.nick /\ view'.buffers[c].exists
               /\ In(t) => (u1 = t.users /\ o1 = t.ops) \/ (ListComes(c)' /\ synced')
    BY DEF Exact
  <2> USE <1>1, <1>4, <2>2
  <2>3. CASE msg.cmd = "JOIN"
    <3>1. OnJoin(msg) /\ inbox' = Tail(inbox) /\ inbox # <<>> /\ inbox \in Seq(Heard)
      BY <2>3, Treated
    <3>7. synced'
      <4>1. synced' = synced
        BY <2>3, Treated
      <4>2. synced
        BY <2>1, <2>3 DEF NoListOpen
      <4>3. QED
        BY <4>1, <4>2
    <3> HIDE DEF msg, u, o, u1, o1
    <3>2. /\ view'.nick = view.nick /\ view'.buffers[c].exists
          /\ u1 = IF c = msg.chan /\ msg.who # view.nick THEN u \union {msg.who} ELSE u
          /\ o1 = o
      BY ONLY <1>1, <2>2, <2>3, <3>1, JoinDoes DEF u, u1, o, o1
    <3>3. CASE msg.chan = c /\ msg.who = s.nick
      <4>1. /\ 2 \in 1..Len(inbox) /\ inbox[2].cmd = "353" /\ inbox[2].chan = c
        BY <1>3, <2>3, <3>3 DEF ListNext
      <4>2. /\ Tail(inbox) \in Seq(Heard) /\ Len(inbox) = Len(Tail(inbox)) + 1
            /\ \A i \in 1..Len(Tail(inbox)) : Tail(inbox)[i] = inbox[i + 1]
            /\ Len(Tail(inbox)) \in Nat
        BY <3>1, Read
      <4> DEFINE q == Tail(inbox)
      <4> HIDE DEF q
      <4>3. Len(q) # 0 /\ 1 \in 1..Len(q)
        BY <4>1, <4>2 DEF q
      <4>4. q # <<>> /\ Head(q) = q[1]
        BY <4>2, <4>3, First DEF q
      <4>8. q[1] = inbox[2]
        BY <4>2, <4>3 DEF q
      <4>5. ListComes(c)'
        BY <3>1, <4>1, <4>4, <4>8 DEF ListComes, q
      <4>6. t.nick = s.nick
        BY <2>3 DEF Explanation
      <4>7. QED
        BY <3>2, <3>7, <4>5, <4>6
    <3>4. CASE msg.chan = c /\ msg.who # s.nick
      <4>1. t.nick = s.nick /\ t.users = s.users \union {msg.who} /\ t.ops = s.ops
        BY <2>3, <3>4 DEF Explanation
      <4>2. QED
        BY <3>2, <3>4, <4>1 DEF In
    <3>5. CASE msg.chan # c
      <4>1. t = s
        BY <2>3, <3>5 DEF Explanation
      <4>2. QED
        BY <3>2, <3>5, <4>1
    <3>6. QED
      BY <3>3, <3>4, <3>5
  <2>4. CASE msg.cmd \in {"PART", "KICK"}
    <3>1. OnPart(msg)
      BY <2>4, Treated
    <3> HIDE DEF msg, u, o, u1, o1
    <3>2. /\ view'.nick = view.nick /\ view'.buffers[c].exists
          /\ c # msg.chan => u1 = u /\ o1 = o
          /\ c = msg.chan /\ msg.who # view.nick => u1 = u \ {msg.who} /\ o1 = o \ {msg.who}
      BY ONLY <1>1, <2>2, <2>4, <3>1, PartDoes DEF u, u1, o, o1
    <3>3. t.nick = s.nick
      BY <2>4 DEF Explanation
    <3>4. CASE msg.chan = c /\ msg.who = s.nick
      <4>1. t.users = {}
        BY <2>4, <3>4 DEF Explanation
      <4>2. QED
        BY <3>2, <3>3, <4>1 DEF In
    <3>5. CASE msg.chan = c /\ msg.who # s.nick
      <4>1. t.users = s.users \ {msg.who} /\ t.ops = s.ops \ {msg.who}
        BY <2>4, <3>5 DEF Explanation
      <4>2. QED
        BY <3>2, <3>3, <3>5, <4>1 DEF In
    <3>6. CASE msg.chan # c
      <4>1. t = s
        BY <2>4, <3>6 DEF Explanation
      <4>2. QED
        BY <3>2, <3>6, <4>1
    <3>7. QED
      BY <3>4, <3>5, <3>6
  <2>5. CASE msg.cmd = "QUIT"
    <3>1. OnQuit(msg)
      BY <2>5, Treated
    <3> HIDE DEF msg, u, o, u1, o1
    <3>2. /\ view'.nick = view.nick /\ view'.buffers[c].exists
          /\ u1 = u \ {msg.who} /\ o1 = o \ {msg.who}
      BY ONLY <1>1, <2>2, <2>5, <3>1, QuitDoes DEF u, u1, o, o1
    <3>3. /\ t.nick = s.nick /\ msg.who # s.nick
          /\ t.users = s.users \ {msg.who} /\ t.ops = s.ops \ {msg.who}
      BY <2>5 DEF Explanation
    <3>4. QED
      BY <3>2, <3>3 DEF In
  <2>6. CASE msg.cmd = "NICK"
    <3>1. OnNick(msg)
      BY <2>6, Treated
    <3> HIDE DEF msg, u, o, u1, o1
    <3>2. /\ view'.nick = IF msg.who = view.nick THEN msg.to ELSE view.nick
          /\ view'.buffers[c].exists
          /\ u1 = Renamed(u, msg.who, msg.to) /\ o1 = Renamed(o, msg.who, msg.to)
      BY ONLY <1>1, <2>2, <2>6, <3>1, NickDoes DEF u, u1, o, o1
    <3>3. /\ msg.to # s.nick /\ msg.to \notin s.users
          /\ t.nick = IF msg.who = s.nick THEN msg.to ELSE s.nick
          /\ t.users = Renamed(s.users, msg.who, msg.to)
          /\ t.ops = Renamed(s.ops, msg.who, msg.to)
      BY <2>6 DEF Explanation
    <3>4. In(t) => In(s)
      BY <3>3 DEF In, Renamed
    <3>5. QED
      BY <3>2, <3>3, <3>4
  <2>7. CASE msg.cmd = "MODE"
    <3>1. OnMode(msg)
      BY <2>7, Treated
    <3> HIDE DEF msg, u, o, u1, o1
    <3>2. /\ view'.nick = view.nick /\ view'.buffers[c].exists /\ u1 = u
          /\ o1 = IF c = msg.chan /\ msg.who \in u
                  THEN IF msg.to THEN o \union {msg.who} ELSE o \ {msg.who} ELSE o
      BY ONLY <1>1, <2>2, <2>7, <3>1, ModeDoes DEF u, u1, o, o1
    <3>3. t.nick = s.nick
      BY <2>7 DEF Explanation
    <3>4. CASE msg.chan = c
      <4>1. /\ msg.who \in s.users /\ t.users = s.users
            /\ t.ops = IF msg.to THEN s.ops \union {msg.who} ELSE s.ops \ {msg.who}
        BY <2>7, <3>4 DEF Explanation
      <4>2. QED
        BY <3>2, <3>3, <3>4, <4>1 DEF In
    <3>5. CASE msg.chan # c
      <4>1. t = s
        BY <2>7, <3>5 DEF Explanation
      <4>2. QED
        BY <3>2, <3>5, <4>1
    <3>6. QED
      BY <3>4, <3>5
  <2>8. CASE msg.cmd \in {"353", "366", "PRIVMSG"}
    <3>1. /\ msg.cmd = "353" => OnNames(msg)
          /\ msg.cmd = "366" => OnEndOfNames(msg)
          /\ msg.cmd = "PRIVMSG" => OnMessage(msg)
      BY <2>8, Treated
    <3>2. msg.cmd = "353" => msg.chan # c
      BY <1>6
    <3> HIDE DEF msg, u, o, u1, o1
    <3>3. CASE msg.cmd = "353"
      <4>1. /\ view'.nick = view.nick
            /\ \A d \in Chans :
                 /\ view'.buffers[d].exists <=> view.buffers[d].exists \/ d = msg.chan
                 /\ d # msg.chan => view'.buffers[d] = view.buffers[d]
        BY ONLY <1>1, <3>1, <3>3, NamesDoes
      <4>2. view'.nick = view.nick /\ view'.buffers[c].exists /\ u1 = u /\ o1 = o
        BY ONLY <1>1, <2>2, <3>2, <3>3, <4>1 DEF u, u1, o, o1
      <4>3. t = s
        BY <3>3 DEF Explanation
      <4>4. QED
        BY <4>2, <4>3
    <3>4. CASE msg.cmd = "366"
      <4>1. view'.nick = view.nick /\ view'.buffers = view.buffers
        BY ONLY <1>1, <3>1, <3>4, EndDoes
      <4>2. t = s
        BY <3>4 DEF Explanation
      <4>3. QED
        BY <4>1, <4>2 DEF u, u1, o, o1
    <3>5. CASE msg.cmd = "PRIVMSG"
      <4>1. view'.nick = view.nick /\ view'.buffers[c].exists /\ u1 = u /\ o1 = o
        BY ONLY <1>1, <2>2, <3>1, <3>5, MessageDoes DEF u, u1, o, o1
      <4>2. t = s
        BY <3>5 DEF Explanation
      <4>3. QED
        BY <4>1, <4>2
    <3>6. QED
      BY <2>8, <3>3, <3>4, <3>5
  <2>9. QED
    BY <2>3, <2>4, <2>5, <2>6, <2>7, <2>8, LineKinds
<1>7. QED
  BY <1>5, <1>6

-----------------------------------------------------------------------------
\* One queue after another.
LEMMA Joined ==
    ASSUME NEW S, NEW q \in Seq(S), NEW ls \in Seq(S)
    PROVE  /\ q \o ls \in Seq(S) /\ Len(q \o ls) = Len(q) + Len(ls)
           /\ \A i \in 1..Len(q) : (q \o ls)[i] = q[i]
           /\ \A i \in 1..Len(ls), j \in Nat : j = Len(q) + i => (q \o ls)[j] = ls[i]
           /\ q # <<>> => q \o ls # <<>> /\ Head(q \o ls) = Head(q)
<1>1. /\ q \o ls \in Seq(S) /\ Len(q \o ls) = Len(q) + Len(ls)
      /\ \A i \in 1..Len(q) : (q \o ls)[i] = q[i]
      /\ \A i \in 1..Len(ls), j \in Nat : j = Len(q) + i => (q \o ls)[j] = ls[i]
      /\ Len(q) \in Nat /\ Len(ls) \in Nat
  <2>1. \A i \in 1..Len(q) + Len(ls) :
           (q \o ls)[i] = IF i \leq Len(q) THEN q[i] ELSE ls[i - Len(q)]
    BY ConcatProperties
  <2>2. q \o ls \in Seq(S) /\ Len(q \o ls) = Len(q) + Len(ls)
    BY ConcatProperties
  <2>3. Len(q) \in Nat /\ Len(ls) \in Nat
    BY LenProperties
  <2>4. ASSUME NEW i \in 1..Len(q) PROVE (q \o ls)[i] = q[i]
    BY <2>1, <2>3
  <2>5. ASSUME NEW i \in 1..Len(ls), NEW j \in Nat, j = Len(q) + i PROVE (q \o ls)[j] = ls[i]
    <3> DEFINE n == Len(q)
               k == Len(ls)
    <3>3. n \in Nat /\ k \in Nat /\ i \in 1..k /\ j = n + i
      BY <2>3, <2>5
    <3> HIDE DEF n, k
    <3>4. j \in 1..n + k /\ ~(j \leq n) /\ j - n = i
      BY <3>3
    <3>1. j \in 1..Len(q) + Len(ls) /\ ~(j \leq Len(q)) /\ j - Len(q) = i
      BY <3>4 DEF n, k
    <3>2. QED
      BY <2>1, <3>1
  <2>6. QED
    BY <2>2, <2>3, <2>4, <2>5
<1>2. ASSUME q # <<>> PROVE q \o ls # <<>> /\ Head(q \o ls) = Head(q)
  <2> DEFINE n == Len(q)
             r == q \o ls
  <2>1. n \in Nat /\ n # 0 /\ Head(q) = q[1]
    BY <1>1, <1>2, EmptySeq, Read
  <2>2. r \in Seq(S) /\ Len(r) = n + Len(ls) /\ \A i \in 1..n : r[i] = q[i]
    BY <1>1
  <2> HIDE DEF n, r
  <2>3. Len(r) # 0 /\ r[1] = q[1]
    BY <1>1, <2>1, <2>2
  <2>4. r # <<>> /\ Head(r) = r[1]
    BY <2>2, <2>3, First
  <2>5. QED
    BY <2>1, <2>3, <2>4 DEF r
<1>3. QED
  BY <1>1, <1>2

\* Lists have their ends when their queues have them.
LEMMA EndsKept ==
    ASSUME NEW q \in Seq(Heard), ListsEnd(q)
    PROVE  /\ q # <<>> => ListsEnd(Tail(q))
           /\ \A ls \in Seq(Heard) : ListsEnd(ls) => ListsEnd(q \o ls)
<1>1. ASSUME q # <<>> PROVE ListsEnd(Tail(q))
  <2> DEFINE r == Tail(q)
             n == Len(r)
  <2>1. n \in Nat /\ Len(q) = n + 1 /\ \A i \in 1..n : r[i] = q[i + 1]
    BY <1>1, Read
  <2> SUFFICES ASSUME NEW i \in 1..n, r[i].cmd = "353"
               PROVE  i + 1 \in 1..n /\ r[i + 1].cmd \in {"353", "366"}
    BY DEF ListsEnd
  <2> HIDE DEF r, n
  <2>2. i + 1 \in 1..Len(q) /\ q[i + 1].cmd = "353"
    BY <2>1
  <2>3. i + 1 + 1 \in 1..Len(q) /\ q[i + 1 + 1].cmd \in {"353", "366"}
    BY <2>2 DEF ListsEnd
  <2>4. i + 1 \in 1..n
    BY <2>1, <2>3
  <2>5. QED
    BY <2>1, <2>3, <2>4
<1>2. ASSUME NEW ls \in Seq(Heard), ListsEnd(ls) PROVE ListsEnd(q \o ls)
  <2> DEFINE r == q \o ls
             n == Len(q)
             k == Len(ls)
  <2>1. /\ n \in Nat /\ k \in Nat /\ Len(r) = n + k
        /\ \A i \in 1..n : r[i] = q[i]
        /\ \A i \in 1..k, m \in Nat : m = n + i => r[m] = ls[i]
    BY Joined, LenProperties
  <2> SUFFICES ASSUME NEW i \in 1..Len(r), r[i].cmd = "353"
               PROVE  i + 1 \in 1..Len(r) /\ r[i + 1].cmd \in {"353", "366"}
    BY DEF ListsEnd
  <2>2. /\ \A j \in 1..n : q[j].cmd = "353" => j + 1 \in 1..n /\ q[j + 1].cmd \in {"353", "366"}
        /\ \A j \in 1..k : ls[j].cmd = "353" => j + 1 \in 1..k /\ ls[j + 1].cmd \in {"353", "366"}
    BY <1>2 DEF ListsEnd
  <2> HIDE DEF r, n, k
  <2>3. CASE i \in 1..n
    <3>1. i + 1 \in 1..n /\ q[i + 1].cmd \in {"353", "366"}
      BY <2>1, <2>2, <2>3
    <3>2. QED
      BY <2>1, <3>1
  <2>4. CASE i \notin 1..n
    <3>1. PICK j \in 1..k : i = n + j
      <4>1. i - n \in 1..k /\ i = n + (i - n)
        BY <2>1, <2>4
      <4>2. QED
        BY <4>1
    <3>5. i \in Nat
      BY <2>1
    <3>6. r[i] = ls[j]
      BY <2>1, <3>1, <3>5
    <3>2. j + 1 \in 1..k /\ ls[j + 1].cmd \in {"353", "366"}
      BY <2>2, <3>6
    <3>3. i + 1 \in Nat /\ i + 1 = n + (j + 1) /\ i + 1 \in 1..n + k
      BY <2>1, <3>1, <3>2
    <3>4. QED
      BY <2>1, <3>2, <3>3
  <2>5. QED
    BY <2>3, <2>4
<1>3. QED
  BY <1>1, <1>2

\* What the user sees is what he may see.
LEMMA SeenIs ==
    ASSUME ViewTyped, NEW c
    PROVE  Seen(c) \in Sights /\ Seen(c).nick = nick
BY DEF Seen, Sights, ViewTyped, ViewTypeOK

\* The trajectory grows by what the new lines explain.
LEMMA Longer ==
    ASSUME ViewTyped, ViewTyped', NEW c, NEW T, Trajectory(c, T),
           NEW ls \in Seq(Heard), inbox' = inbox \o ls, Tells(c, ls)
    PROVE  \E U : Trajectory(c, U)' /\ U[0] = T[0]
<1> DEFINE n == Len(inbox)
           k == Len(ls)
           r == inbox \o ls
           s == Seen(c)
           t == Seen(c)'
<1>1. /\ n \in Nat /\ k \in Nat /\ Len(r) = n + k
      /\ \A i \in 1..n : r[i] = inbox[i]
      /\ \A i \in 1..k, m \in Nat : m = n + i => r[m] = ls[i]
      /\ inbox \in Seq(Heard)
  BY Joined, LenProperties DEF ViewTyped
<1>2. s \in Sights
  BY SeenIs
<1>3. t \in Sights
  BY DEF Seen, Sights, ViewTyped, ViewTypeOK
<1>4. /\ T \in [0..n -> Sights] /\ T[n] = s
      /\ \A i \in 1..n : Explains(inbox[i], c, T[i - 1], T[i])
      /\ \A i \in 1..n : ListNext(inbox[i], c, T[i - 1], i, inbox)
  BY DEF Trajectory
<1>5. /\ k = 0 => t = s
      /\ \A i \in 1..k : /\ Explains(ls[i], c, IF i = 1 THEN s ELSE t, t)
                         /\ ListNext(ls[i], c, IF i = 1 THEN s ELSE t, i, ls)
  <2>1. k = 0 => ls = <<>>
    BY EmptySeq
  <2>2. QED
    BY <2>1 DEF Tells
<1>11. PICK U : U = [i \in 0..(n + k) |-> IF i \leq n THEN T[i] ELSE t]
  OBVIOUS
<1> HIDE DEF n, k, r, s, t
<1>6. U \in [0..(n + k) -> Sights]
  BY <1>1, <1>2, <1>3, <1>4, <1>11
<1>7. U[n + k] = t /\ U[0] = T[0] /\ U[n] = s
  BY <1>1, <1>4, <1>5, <1>11
<1>8. ASSUME NEW i \in 1..(n + k)
      PROVE  Explains(r[i], c, U[i - 1], U[i]) /\ ListNext(r[i], c, U[i - 1], i, r)
  <2>1. CASE i \in 1..n
    <3>1. U[i - 1] = T[i - 1] /\ U[i] = T[i] /\ r[i] = inbox[i]
      BY <1>1, <1>11, <2>1
    <3>2. Explains(inbox[i], c, T[i - 1], T[i]) /\ ListNext(inbox[i], c, T[i - 1], i, inbox)
      BY <1>4, <2>1
    <3>3. i + 1 \in 1..n => r[i + 1] = inbox[i + 1] /\ i + 1 \in 1..Len(r)
      BY <1>1, <2>1
    <3>4. ListNext(inbox[i], c, T[i - 1], i, r)
      BY <3>2, <3>3 DEF ListNext, n
    <3>5. QED
      BY <3>1, <3>2, <3>4
  <2>2. CASE i \notin 1..n
    <3>1. PICK j \in 1..k : i = n + j
      <4>1. i - n \in 1..k /\ i = n + (i - n)
        BY <1>1, <2>2
      <4>2. QED
        BY <4>1
    <3>2. r[i] = ls[j]
      BY <1>1, <3>1
    <3>7. U[i] = t /\ U[i - 1] = IF j = 1 THEN s ELSE t
      <4>1. CASE j = 1
        <5>1. i - 1 = n
          BY <1>1, <3>1, <4>1
        <5>2. QED
          BY <1>1, <1>7, <1>11, <2>2, <4>1, <5>1
      <4>2. CASE j # 1
        <5>1. i - 1 \in 0..(n + k) /\ ~(i - 1 \leq n)
          BY <1>1, <3>1, <4>2
        <5>2. QED
          BY <1>1, <1>11, <2>2, <4>2, <5>1
      <4>3. QED
        BY <4>1, <4>2
    <3>3. /\ Explains(ls[j], c, IF j = 1 THEN s ELSE t, t)
          /\ ListNext(ls[j], c, IF j = 1 THEN s ELSE t, j, ls)
      BY <1>5
    <3>4. j + 1 \in 1..k => r[i + 1] = ls[j + 1] /\ i + 1 \in 1..Len(r)
      <4>1. j + 1 \in 1..k => i + 1 = n + (j + 1) /\ i + 1 \in 1..n + k /\ i + 1 \in Nat
        BY <1>1, <3>1
      <4>2. QED
        BY <1>1, <4>1
    <3>5. ListNext(ls[j], c, IF j = 1 THEN s ELSE t, i, r)
      BY <3>3, <3>4 DEF ListNext, k
    <3>6. QED
      BY <3>2, <3>3, <3>5, <3>7
  <2>3. QED
    BY <2>1, <2>2
<1>9. Trajectory(c, U)'
  <2>1. inbox' = r /\ Len(r) = n + k
    BY <1>1 DEF r
  <2>2. QED
    BY <1>6, <1>7, <1>8, <2>1 DEF Trajectory, t
<1>10. QED
  BY <1>7, <1>9

\* It loses its first state with the first line.
LEMMA Shorter ==
    ASSUME ViewTyped, NEW c, NEW T, Trajectory(c, T), inbox # <<>>, inbox' = Tail(inbox),
           UNCHANGED <<members, ops, nick>>
    PROVE  /\ T[0] \in Sights /\ T[1] \in Sights
           /\ Explains(Head(inbox), c, T[0], T[1])
           /\ ListNext(Head(inbox), c, T[0], 1, inbox)
           /\ \E U : Trajectory(c, U)' /\ U[0] = T[1]
<1> DEFINE r == Tail(inbox)
           n == Len(r)
<1>1. /\ n \in Nat /\ Len(inbox) = n + 1 /\ Head(inbox) = inbox[1]
      /\ \A i \in 1..n : r[i] = inbox[i + 1]
  BY Read DEF ViewTyped
<1>2. /\ T \in [0..Len(inbox) -> Sights] /\ T[Len(inbox)] = Seen(c)
      /\ \A i \in 1..Len(inbox) : Explains(inbox[i], c, T[i - 1], T[i])
      /\ \A i \in 1..Len(inbox) : ListNext(inbox[i], c, T[i - 1], i, inbox)
  BY DEF Trajectory
<1>3. Seen(c)' = Seen(c) /\ inbox' = r
  BY DEF Seen
<1>9. PICK U : U = [i \in 0..n |-> T[i + 1]]
  OBVIOUS
<1> HIDE DEF r, n
<1>4. 0 \in 0..Len(inbox) /\ 1 \in 0..Len(inbox) /\ 1 \in 1..Len(inbox) /\ 1 - 1 = 0
  BY <1>1
<1>5. U \in [0..n -> Sights] /\ U[n] = Seen(c) /\ U[0] = T[1]
  BY <1>1, <1>2, <1>9
<1>6. ASSUME NEW i \in 1..n
      PROVE  Explains(r[i], c, U[i - 1], U[i]) /\ ListNext(r[i], c, U[i - 1], i, r)
  <2>1. /\ i + 1 \in 1..Len(inbox) /\ (i + 1) - 1 = i /\ r[i] = inbox[i + 1]
        /\ U[i - 1] = T[i] /\ U[i] = T[i + 1]
    BY <1>1, <1>9
  <2>2. Explains(inbox[i + 1], c, T[i], T[i + 1]) /\ ListNext(inbox[i + 1], c, T[i], i + 1, inbox)
    BY <1>2, <2>1
  <2>3. (i + 1) + 1 \in 1..Len(inbox) => i + 1 \in 1..n /\ r[i + 1] = inbox[(i + 1) + 1]
    BY <1>1
  <2>4. ListNext(inbox[i + 1], c, T[i], i, r)
    BY <2>2, <2>3 DEF ListNext, n
  <2>5. QED
    BY <2>1, <2>2, <2>4
<1>7. Trajectory(c, U)'
  BY <1>3, <1>5, <1>6 DEF Trajectory, n
<1>8. Explains(inbox[1], c, T[0], T[1]) /\ ListNext(inbox[1], c, T[0], 1, inbox)
  BY <1>2, <1>4
<1>10. T[0] \in Sights /\ T[1] \in Sights
  BY <1>2, <1>4
<1>11. QED
  BY <1>1, <1>5, <1>7, <1>8, <1>10

\* It stays when neither the lines nor the server change.
LEMMA Same ==
    ASSUME NEW c, NEW T, Trajectory(c, T), UNCHANGED <<inbox, members, ops, nick>>
    PROVE  Trajectory(c, T)'
<1>1. Seen(c)' = Seen(c)
  BY DEF Seen
<1>2. QED
  BY <1>1 DEF Trajectory

-----------------------------------------------------------------------------
\* A step that the user does not see, and one that a single line explains.
LEMMA TellsLittle ==
    ASSUME NEW c
    PROVE  /\ Seen(c)' = Seen(c) => Tells(c, <<>>)
           /\ \A m : Explains(m, c, Seen(c), Seen(c)') /\ (m.cmd = "JOIN" => m.who # Seen(c).nick)
                 => Tells(c, <<m>>)
<1>1. Seen(c)' = Seen(c) => Tells(c, <<>>)
  BY DEF Tells
<1>2. ASSUME NEW m, Explains(m, c, Seen(c), Seen(c)'), m.cmd = "JOIN" => m.who # Seen(c).nick
      PROVE  Tells(c, <<m>>)
  <2>1. Len(<<m>>) = 1 /\ <<m>>[1] = m /\ <<m>> # <<>>
    OBVIOUS
  <2>2. ListNext(m, c, Seen(c), 1, <<m>>)
    BY <1>2 DEF ListNext
  <2> DEFINE q == <<m>>
  <2> HIDE DEF q
  <2>3. ASSUME NEW i \in 1..Len(q) PROVE i = 1
    BY <2>1 DEF q
  <2>4. q # <<>> /\ q[1] = m
    BY <2>1 DEF q
  <2>5. Tells(c, q)
    BY <1>2, <2>2, <2>3, <2>4 DEF Tells, q
  <2>6. QED
    BY <2>5 DEF q
<1>3. QED
  BY <1>1, <1>2

\* The lines of a list.
LEMMA List ==
    ASSUME nick \in Names, NEW users \in [Chans -> SUBSET Names], ops \in [Chans -> SUBSET Names],
           NEW n \in Nat, NEW cs \in [1..n -> Chans], NEW end \in Chans \union {"*"}
    PROVE  LET q == NamesList(cs, users, end) IN
           /\ q \in Seq(Heard) /\ Len(q) = n + 1
           /\ \A i \in 1..n : /\ q[i].cmd = "353" /\ q[i].chan = cs[i] /\ q[i].who = nick
                              /\ q[i].to = users[cs[i]] /\ q[i].ops = ops[cs[i]]
           /\ q[n + 1].cmd = "366"
<1> DEFINE a == [i \in 1..n |-> [cmd |-> "353", chan |-> cs[i], who |-> nick,
                                 to |-> users[cs[i]], ops |-> ops[cs[i]]]]
           b == [cmd |-> "366", chan |-> end, who |-> nick, to |-> {}, ops |-> {}]
<1>1. NamesList(cs, users, end) = Append(a, b)
  BY DEF NamesList
<1>2. \A i \in 1..n : a[i] \in Heard
  <2> TAKE i \in 1..n
  <2>1. cs[i] \in Chans /\ users[cs[i]] \in SUBSET Names /\ ops[cs[i]] \in SUBSET Names
    OBVIOUS
  <2>2. QED
    BY <2>1 DEF Heard
<1>3. b \in Heard /\ b.cmd = "366"
  BY DEF Heard
<1>4. \A i \in 1..n : /\ a[i].cmd = "353" /\ a[i].chan = cs[i] /\ a[i].who = nick
                      /\ a[i].to = users[cs[i]] /\ a[i].ops = ops[cs[i]]
  OBVIOUS
<1>5. a \in Seq(Heard) /\ Len(a) = n
  <2>1. a \in [1..n -> Heard]
    BY <1>2
  <2> HIDE DEF a
  <2>2. QED
    BY <2>1
<1> HIDE DEF a, b
<1>6. /\ Append(a, b) \in Seq(Heard) /\ Len(Append(a, b)) = n + 1
      /\ \A i \in 1..n : Append(a, b)[i] = a[i]
      /\ Append(a, b)[n + 1] = b
  BY <1>3, <1>5, AppendProperties
<1>7. QED
  BY <1>1, <1>3, <1>4, <1>6

\* The list of one channel.
LEMMA OneList ==
    ASSUME nick \in Names, NEW users \in [Chans -> SUBSET Names], ops \in [Chans -> SUBSET Names],
           NEW a \in Chans
    PROVE  LET q == NamesList(<<a>>, users, a) IN
           /\ q \in Seq(Heard) /\ Len(q) = 2
           /\ q[1].cmd = "353" /\ q[1].chan = a /\ q[1].who = nick
           /\ q[1].to = users[a] /\ q[1].ops = ops[a]
           /\ q[2].cmd = "366"
<1> DEFINE r == [cmd |-> "353", chan |-> a, who |-> nick, to |-> users[a], ops |-> ops[a]]
           b == [cmd |-> "366", chan |-> a, who |-> nick, to |-> {}, ops |-> {}]
           f == [i \in DOMAIN <<a>> |-> [cmd |-> "353", chan |-> <<a>>[i], who |-> nick,
                                        to |-> users[<<a>>[i]], ops |-> ops[<<a>>[i]]]]
<1>1. NamesList(<<a>>, users, a) = Append(f, b)
  BY DEF NamesList
<1>2. r \in Heard
  BY DEF Heard
<1>3. b \in Heard
  BY DEF Heard
<1>4. f = <<r>>
  OBVIOUS
<1>5. r.cmd = "353" /\ r.chan = a /\ r.who = nick /\ r.to = users[a] /\ r.ops = ops[a]
      /\ b.cmd = "366"
  OBVIOUS
<1> HIDE DEF r, b, f
<1>6. f \in Seq(Heard)
  BY <1>2, <1>4
<1>7. Len(f) = 1 /\ f[1] = r
  BY <1>4
<1> DEFINE q == Append(f, b)
<1>8. /\ q \in Seq(Heard) /\ Len(q) = Len(f) + 1
      /\ \A i \in 1..Len(f) : q[i] = f[i]
      /\ q[Len(f) + 1] = b
  BY <1>3, <1>6, AppendProperties
<1> HIDE DEF q
<1>9. 1 \in 1..Len(f) /\ Len(f) + 1 = 2
  BY <1>7
<1>10. Len(q) = 2 /\ q[1] = r /\ q[2] = b
  BY <1>7, <1>8, <1>9
<1>11. QED
  BY <1>1, <1>5, <1>8, <1>10 DEF q

\* A line before two others.
LEMMA Three ==
    ASSUME NEW S, NEW m \in S, NEW q \in Seq(S), Len(q) = 2
    PROVE  /\ <<m>> \o q \in Seq(S) /\ Len(<<m>> \o q) = 3
           /\ (<<m>> \o q)[1] = m /\ (<<m>> \o q)[2] = q[1] /\ (<<m>> \o q)[3] = q[2]
<1> DEFINE p == <<m>>
           r == p \o q
<1>1. p \in Seq(S) /\ Len(p) = 1 /\ p[1] = m
  OBVIOUS
<1> HIDE DEF p
<1>2. /\ r \in Seq(S) /\ Len(r) = Len(p) + Len(q)
      /\ \A i \in 1..Len(p) + Len(q) : r[i] = IF i \leq Len(p) THEN p[i] ELSE q[i - Len(p)]
  BY <1>1, ConcatProperties
<1> HIDE DEF r
<1>3. r[1] = p[1] /\ r[2] = q[1] /\ r[3] = q[2] /\ Len(r) = 3
  BY <1>1, <1>2
<1>4. QED
  BY <1>1, <1>2, <1>3 DEF r, p

\* A line about one thing.
LEMMA TheLine ==
    ASSUME NEW m \in Heard, m.cmd # "353"
    PROVE  <<m>> \in Seq(Heard) /\ ListsEnd(<<m>>)
<1>1. <<m>> \in Seq(Heard) /\ Len(<<m>>) = 1 /\ <<m>>[1] = m
  OBVIOUS
<1> DEFINE q == <<m>>
<1> HIDE DEF q
<1>2. ASSUME NEW i \in 1..Len(q) PROVE q[i].cmd # "353"
  BY <1>1 DEF q
<1>3. ListsEnd(q)
  BY <1>2 DEF ListsEnd
<1>4. QED
  BY <1>1, <1>3 DEF q

\* No line is a list of lines that ends every NAMES list.
LEMMA NoLine == <<>> \in Seq(Heard) /\ ListsEnd(<<>>)
BY DEF ListsEnd

\* Types of what the server keeps.
LEMMA ServerTypes ==
    ASSUME ViewTyped
    PROVE  /\ members \in [Chans -> SUBSET Names] /\ ops \in [Chans -> SUBSET Names]
           /\ nick \in Names
           /\ inbox \in Seq(Heard)
BY DEF ViewTyped, ViewTypeOK

\* Somebody joins; the user's own JOIN has the list behind it.
LEMMA JoinsDoes ==
    ASSUME ViewTyped, OpsAreMembers, NEW a \in Chans, NEW who \in Names, Joins(a, who)
    PROVE  ServerDoes
<1>1. /\ members' = [members EXCEPT ![a] = @ \union {who}] /\ ops' = ops /\ nick' = nick
      /\ inbox' = inbox \o ((IF nick \in members'[a] THEN <<Line("JOIN", a, who, {})>> ELSE <<>>)
                            \o (IF who = nick THEN NamesList(<<a>>, members', a) ELSE <<>>))
  BY DEF Joins, Gives
<1>2. /\ members' \in [Chans -> SUBSET Names] /\ ops' \in [Chans -> SUBSET Names]
      /\ nick' \in Names
      /\ OpsAreMembers'
      /\ members'[a] = members[a] \union {who} /\ \A c \in Chans \ {a} : members'[c] = members[c]
  BY <1>1, ServerTypes DEF OpsAreMembers
<1> DEFINE m == Line("JOIN", a, who, {})
<1>3. m \in Heard /\ m.cmd = "JOIN" /\ m.chan = a /\ m.who = who
  BY DEF Line, Heard
<1> SUFFICES \E ls \in Seq(Heard) : /\ inbox' = inbox \o ls /\ ListsEnd(ls)
                                    /\ \A c \in Chans \union {"*"} : Tells(c, ls)
  BY <1>2 DEF ServerDoes
<1> HIDE DEF m
<1>4. CASE who # nick /\ nick \in members[a]
  <2>1. inbox' = inbox \o <<m>>
    BY <1>1, <1>2, <1>4 DEF m
  <2>2. <<m>> \in Seq(Heard) /\ ListsEnd(<<m>>)
    BY <1>3, TheLine
  <2>3. ASSUME NEW c \in Chans \union {"*"} PROVE Tells(c, <<m>>)
    <3>1. Seen(c).nick = nick
      BY DEF Seen
    <3>2. Explains(m, c, Seen(c), Seen(c)')
      <4>1. CASE c # a
        <5>1. Seen(c)' = Seen(c)
          BY <1>1, <1>2, <4>1 DEF Seen
        <5>2. QED
          BY <1>3, <4>1, <5>1 DEF Explains
      <4>2. CASE c = a
        <5>1. Seen(c) = [nick |-> nick, users |-> members[a], ops |-> ops[a]]
          BY <1>4, <4>2 DEF Seen
        <5>2. Seen(c)' = [nick |-> nick, users |-> members[a] \union {who}, ops |-> ops[a]]
          BY <1>1, <1>2, <1>4, <4>2 DEF Seen
        <5>3. Seen(c)' = [Seen(c) EXCEPT !.users = @ \union {who}]
          <6>1. [[nick |-> nick, users |-> members[a], ops |-> ops[a]]
                    EXCEPT !.users = @ \union {who}]
                = [nick |-> nick, users |-> members[a] \union {who}, ops |-> ops[a]]
            OBVIOUS
          <6>2. QED
            BY <5>1, <5>2, <6>1
        <5>4. QED
          BY <1>3, <1>4, <3>1, <4>2, <5>3 DEF Explains
      <4>3. QED
        BY <4>1, <4>2
    <3>3. QED
      BY <1>3, <1>4, <3>1, <3>2, TellsLittle
  <2>4. QED
    BY <2>1, <2>2, <2>3
<1>5. CASE who # nick /\ nick \notin members[a]
  <2>1. inbox' = inbox \o <<>>
    <3>1. nick \notin members'[a]
      BY <1>2, <1>5
    <3>2. inbox' = inbox \o (<<>> \o <<>>)
      BY <1>1, <1>5, <3>1
    <3>3. QED
      BY <3>2
  <2>2. ASSUME NEW c \in Chans \union {"*"} PROVE Tells(c, <<>>)
    <3>1. Seen(c)' = Seen(c)
      BY <1>1, <1>2, <1>5 DEF Seen
    <3>2. QED
      BY <3>1, TellsLittle
  <2>3. QED
    BY <2>1, <2>2, NoLine
<1>6. CASE who = nick
  <2> DEFINE q == NamesList(<<a>>, members', a)
             ls == <<m>> \o q
  <2>1. inbox' = inbox \o ls
    BY <1>1, <1>2, <1>6 DEF m
  <2>2. /\ q \in Seq(Heard) /\ Len(q) = 2
        /\ q[1].cmd = "353" /\ q[1].chan = a /\ q[1].who = nick
        /\ q[1].to = members'[a] /\ q[1].ops = ops[a]
        /\ q[2].cmd = "366"
    <3> DEFINE us == members'
    <3>1. us \in [Chans -> SUBSET Names]
      BY <1>2
    <3>2. nick \in Names /\ ops \in [Chans -> SUBSET Names]
      BY ServerTypes
    <3> HIDE DEF us
    <3>3. /\ NamesList(<<a>>, us, a) \in Seq(Heard) /\ Len(NamesList(<<a>>, us, a)) = 2
          /\ NamesList(<<a>>, us, a)[1].cmd = "353" /\ NamesList(<<a>>, us, a)[1].chan = a
          /\ NamesList(<<a>>, us, a)[1].who = nick /\ NamesList(<<a>>, us, a)[1].to = us[a]
          /\ NamesList(<<a>>, us, a)[1].ops = ops[a]
          /\ NamesList(<<a>>, us, a)[2].cmd = "366"
      BY <3>1, <3>2, OneList
    <3>4. QED
      BY <3>3 DEF us
  <2> HIDE DEF q
  <2>3. /\ ls \in Seq(Heard) /\ Len(ls) = 3 /\ ls[1] = m /\ ls[2] = q[1] /\ ls[3] = q[2]
    BY <1>3, <2>2, Three
  <2> HIDE DEF ls
  <2>4. ListsEnd(ls)
    <3>1. ASSUME NEW i \in 1..Len(ls), ls[i].cmd = "353" PROVE i = 2
      <4>1. i \in {1, 2, 3}
        BY <2>3
      <4>2. QED
        BY <1>3, <2>2, <2>3, <3>1, <4>1
    <3>2. 2 + 1 \in 1..Len(ls) /\ ls[2 + 1].cmd \in {"353", "366"}
      BY <2>2, <2>3
    <3>3. QED
      BY <3>1, <3>2 DEF ListsEnd
  <2>5. ASSUME NEW c \in Chans \union {"*"} PROVE Tells(c, ls)
    <3> DEFINE s == Seen(c)
               t == Seen(c)'
    <3>1. s.nick = nick /\ t.nick = nick
      BY <1>1 DEF Seen
    <3>2. c # a => t = s
      BY <1>1, <1>2 DEF Seen
    <3>3. c = a => t.users = members'[a] /\ t.ops = ops[a] /\ In(t)
      BY <1>1, <1>2, <1>6 DEF Seen, In
    <3> HIDE DEF s, t
    <3>4. Explains(m, c, s, t)
      <4>1. c # a \/ In(t)
        BY <3>3
      <4>2. QED
        BY <1>3, <1>6, <3>1, <3>2, <4>1 DEF Explains
    <3>5. Explains(q[1], c, t, t)
      BY <2>2, <3>1, <3>3 DEF Explains
    <3>6. Explains(q[2], c, t, t)
      BY <2>2 DEF Explains
    <3>7. ListNext(m, c, s, 1, ls)
      <4>1. 1 + 1 \in 1..Len(ls) /\ ls[1 + 1] = q[1]
        BY <2>3
      <4>2. QED
        BY <1>3, <2>2, <4>1 DEF ListNext
    <3>8. ListNext(q[1], c, t, 2, ls) /\ ListNext(q[2], c, t, 3, ls)
      BY <2>2 DEF ListNext
    <3>9. ASSUME NEW i \in 1..Len(ls)
          PROVE  /\ Explains(ls[i], c, IF i = 1 THEN s ELSE t, t)
                 /\ ListNext(ls[i], c, IF i = 1 THEN s ELSE t, i, ls)
      <4>1. i = 1 \/ i = 2 \/ i = 3
        BY <2>3
      <4>2. QED
        BY <2>3, <3>4, <3>5, <3>6, <3>7, <3>8, <4>1
    <3>10. ls # <<>>
      <4>1. Len(ls) # 0
        BY <2>3
      <4>2. QED
        BY <2>3, <4>1, First
    <3>11. QED
      BY <3>9, <3>10 DEF Tells, s, t
  <2>6. QED
    BY <2>1, <2>3, <2>4, <2>5
<1>7. QED
  BY <1>4, <1>5, <1>6

\* What a set of nicks has after a change of nick.
LEMMA RenamedHas ==
    ASSUME NEW s, NEW who, NEW to, NEW n, to \notin s, n # to, who # n
    PROVE  n \in Renamed(s, who, to) <=> n \in s
BY DEF Renamed

\* Somebody parts, or is kicked.
LEMMA LeavesDoes ==
    ASSUME ViewTyped, OpsAreMembers, NEW a \in Chans, NEW who \in Names,
           NEW cmd \in {"PART", "KICK"}, Leaves(a, who, cmd)
    PROVE  ServerDoes
<1>1. /\ members' = [members EXCEPT ![a] = @ \ {who}] /\ ops' = [ops EXCEPT ![a] = @ \ {who}]
      /\ nick' = nick
      /\ inbox' = inbox \o (IF nick \in members[a] THEN <<Line(cmd, a, who, {})>> ELSE <<>>)
  BY DEF Leaves, Gives
<1>2. /\ members' \in [Chans -> SUBSET Names] /\ ops' \in [Chans -> SUBSET Names]
      /\ nick' \in Names
      /\ OpsAreMembers'
      /\ members'[a] = members[a] \ {who} /\ \A c \in Chans \ {a} : members'[c] = members[c]
      /\ ops'[a] = ops[a] \ {who} /\ \A c \in Chans \ {a} : ops'[c] = ops[c]
  BY <1>1, ServerTypes DEF OpsAreMembers
<1> DEFINE m == Line(cmd, a, who, {})
<1>3. m \in Heard /\ m.cmd \in {"PART", "KICK"} /\ m.chan = a /\ m.who = who
  BY DEF Line, Heard
<1> SUFFICES \E ls \in Seq(Heard) : /\ inbox' = inbox \o ls /\ ListsEnd(ls)
                                    /\ \A c \in Chans \union {"*"} : Tells(c, ls)
  BY <1>2 DEF ServerDoes
<1>4. CASE nick \in members[a]
  <2>1. inbox' = inbox \o <<m>>
    BY <1>1, <1>4
  <2> HIDE DEF m
  <2>2. <<m>> \in Seq(Heard) /\ ListsEnd(<<m>>)
    BY <1>3, TheLine
  <2>3. ASSUME NEW c \in Chans \union {"*"} PROVE Tells(c, <<m>>)
    <3>1. Explains(m, c, Seen(c), Seen(c)')
      <4>1. CASE c # a
        <5>1. Seen(c)' = Seen(c)
          BY <1>1, <1>2, <4>1 DEF Seen
        <5>2. QED
          BY <1>3, <4>1, <5>1 DEF Explains
      <4>2. CASE c = a
        <5> DEFINE s == [nick |-> nick, users |-> members[a], ops |-> ops[a]]
        <5>1. Seen(c) = s /\ s.nick = nick
          BY <1>4, <4>2 DEF Seen
        <5>2. CASE who = nick
          <6>1. Seen(c)' = [nick |-> nick, users |-> {}, ops |-> {}]
            BY <1>1, <1>2, <4>2, <5>2 DEF Seen
          <6>2. Blank(s) = [nick |-> nick, users |-> {}, ops |-> {}]
            BY DEF Blank
          <6> HIDE DEF s
          <6>3. QED
            BY <1>3, <4>2, <5>1, <5>2, <6>1, <6>2 DEF Explains
        <5>3. CASE who # nick
          <6>1. Seen(c)' = [nick |-> nick, users |-> members[a] \ {who}, ops |-> ops[a] \ {who}]
            BY <1>1, <1>2, <1>4, <4>2, <5>3 DEF Seen
          <6>2. Minus(s, who)
                = [nick |-> nick, users |-> members[a] \ {who}, ops |-> ops[a] \ {who}]
            BY DEF Minus
          <6> HIDE DEF s
          <6>3. QED
            BY <1>3, <4>2, <5>1, <5>3, <6>1, <6>2 DEF Explains
        <5>4. QED
          BY <5>2, <5>3
      <4>3. QED
        BY <4>1, <4>2
    <3>2. QED
      BY <1>3, <3>1, TellsLittle
  <2>4. QED
    BY <2>1, <2>2, <2>3
<1>5. CASE nick \notin members[a]
  <2>1. inbox' = inbox \o <<>>
    BY <1>1, <1>5
  <2>2. ASSUME NEW c \in Chans \union {"*"} PROVE Tells(c, <<>>)
    <3>1. Seen(c)' = Seen(c)
      BY <1>1, <1>2, <1>5 DEF Seen
    <3>2. QED
      BY <3>1, TellsLittle
  <2>3. QED
    BY <2>1, <2>2, NoLine
<1>6. QED
  BY <1>4, <1>5

\* Somebody else quits.
LEMMA QuitsDoes ==
    ASSUME ViewTyped, OpsAreMembers, NEW who \in Names, Quits(who)
    PROVE  ServerDoes
<1> DEFINE m == [Line("QUIT", {}, who, {}) EXCEPT !.chan = "*"]
<1>1. /\ members' = [c \in Chans |-> members[c] \ {who}]
      /\ ops' = [c \in Chans |-> ops[c] \ {who}]
      /\ nick' = nick /\ who # nick
      /\ inbox' = inbox \o (IF Shared(who) # {} THEN <<m>> ELSE <<>>)
  BY DEF Quits, Gives
<1>2. /\ members' \in [Chans -> SUBSET Names] /\ ops' \in [Chans -> SUBSET Names]
      /\ nick' \in Names
      /\ OpsAreMembers'
      /\ \A c \in Chans : members'[c] = members[c] \ {who} /\ ops'[c] = ops[c] \ {who}
  BY <1>1, ServerTypes DEF OpsAreMembers
<1>3. m \in Heard /\ m.cmd = "QUIT" /\ m.who = who
  <2>1. m = [cmd |-> "QUIT", chan |-> "*", who |-> who, to |-> {}, ops |-> {}]
    BY DEF Line
  <2>2. QED
    BY <2>1 DEF Heard
<1> HIDE DEF m
<1> SUFFICES \E ls \in Seq(Heard) : /\ inbox' = inbox \o ls /\ ListsEnd(ls)
                                    /\ \A c \in Chans \union {"*"} : Tells(c, ls)
  BY <1>2 DEF ServerDoes
<1>4. CASE Shared(who) # {}
  <2>1. inbox' = inbox \o <<m>>
    BY <1>1, <1>4
  <2>2. <<m>> \in Seq(Heard) /\ ListsEnd(<<m>>)
    BY <1>3, TheLine
  <2>3. ASSUME NEW c \in Chans \union {"*"} PROVE Tells(c, <<m>>)
    <3>1. Seen(c)' = Minus(Seen(c), who) /\ Seen(c).nick = nick
      <4>1. CASE c \in Chans /\ nick \in members[c]
        <5> DEFINE s == [nick |-> nick, users |-> members[c], ops |-> ops[c]]
        <5>1. Seen(c) = s /\ s.nick = nick
          BY <4>1 DEF Seen
        <5>2. Seen(c)' = [nick |-> nick, users |-> members[c] \ {who}, ops |-> ops[c] \ {who}]
          BY <1>1, <1>2, <4>1 DEF Seen
        <5>3. Minus(s, who)
              = [nick |-> nick, users |-> members[c] \ {who}, ops |-> ops[c] \ {who}]
          BY DEF Minus
        <5> HIDE DEF s
        <5>4. QED
          BY <5>1, <5>2, <5>3
      <4>2. CASE ~(c \in Chans /\ nick \in members[c])
        <5> DEFINE s == [nick |-> nick, users |-> {}, ops |-> {}]
        <5>1. Seen(c) = s /\ s.nick = nick
          BY <4>2 DEF Seen
        <5>2. Seen(c)' = s
          BY <1>1, <1>2, <4>2 DEF Seen
        <5>3. Minus(s, who) = s
          BY DEF Minus
        <5> HIDE DEF s
        <5>4. QED
          BY <5>1, <5>2, <5>3
      <4>3. QED
        BY <4>1, <4>2
    <3>2. Explains(m, c, Seen(c), Seen(c)')
      BY <1>1, <1>3, <3>1 DEF Explains
    <3>3. QED
      BY <1>3, <3>2, TellsLittle
  <2>4. QED
    BY <2>1, <2>2, <2>3
<1>5. CASE Shared(who) = {}
  <2>1. inbox' = inbox \o <<>>
    BY <1>1, <1>5
  <2>2. ASSUME NEW c \in Chans \union {"*"} PROVE Tells(c, <<>>)
    <3>1. CASE c \in Chans /\ nick \in members[c]
      <4>1. who \notin members[c] /\ who \notin ops[c]
        BY <1>5, <3>1 DEF Shared, OpsAreMembers
      <4>2. members'[c] = members[c] /\ ops'[c] = ops[c]
        <5>1. members'[c] = members[c] \ {who} /\ ops'[c] = ops[c] \ {who}
          BY <1>2, <3>1
        <5>2. QED
          BY ONLY <5>1, <4>1
      <4>3. Seen(c)' = Seen(c)
        BY <1>1, <4>2 DEF Seen
      <4>4. QED
        BY <4>3, TellsLittle
    <3>2. CASE ~(c \in Chans /\ nick \in members[c])
      <4>1. Seen(c)' = Seen(c)
        BY <1>1, <1>2, <3>2 DEF Seen
      <4>2. QED
        BY <4>1, TellsLittle
    <3>3. QED
      BY <3>1, <3>2
  <2>3. QED
    BY <2>1, <2>2, NoLine
<1>6. QED
  BY <1>4, <1>5

\* Somebody changes his nick.
LEMMA RenamesDoes ==
    ASSUME ViewTyped, OpsAreMembers, NEW who \in Names, NEW to \in Names, Renames(who, to)
    PROVE  ServerDoes
<1> DEFINE m == [Line("NICK", {}, who, to) EXCEPT !.chan = "*"]
           n1 == IF who = nick THEN to ELSE nick
<1>1. /\ members' = [c \in Chans |-> Renamed(members[c], who, to)]
      /\ ops' = [c \in Chans |-> Renamed(ops[c], who, to)]
      /\ nick' = n1 /\ to # nick /\ \A c \in Chans : to \notin members[c]
      /\ inbox' = inbox \o (IF who = nick \/ Shared(who) # {} THEN <<m>> ELSE <<>>)
  BY DEF Renames, Gives
<1>2. /\ members' \in [Chans -> SUBSET Names] /\ ops' \in [Chans -> SUBSET Names]
      /\ nick' \in Names
      /\ OpsAreMembers'
      /\ \A c \in Chans : /\ members'[c] = Renamed(members[c], who, to)
                          /\ ops'[c] = Renamed(ops[c], who, to)
  <2>1. \A c \in Chans : /\ Renamed(members[c], who, to) \in SUBSET Names
                         /\ Renamed(ops[c], who, to) \in SUBSET Names
                         /\ Renamed(ops[c], who, to) \subseteq Renamed(members[c], who, to)
    BY ServerTypes DEF Renamed, OpsAreMembers
  <2>2. QED
    BY <1>1, <2>1, ServerTypes DEF OpsAreMembers
<1>3. m \in Heard /\ m.cmd = "NICK" /\ m.who = who /\ m.to = to
  <2>1. m = [cmd |-> "NICK", chan |-> "*", who |-> who, to |-> to, ops |-> {}]
    BY DEF Line
  <2>2. QED
    BY <2>1 DEF Heard
<1> HIDE DEF m
<1>7. \A c \in Chans : nick' \in members'[c] <=> nick \in members[c]
  BY <1>1, <1>2 DEF Renamed
<1> SUFFICES \E ls \in Seq(Heard) : /\ inbox' = inbox \o ls /\ ListsEnd(ls)
                                    /\ \A c \in Chans \union {"*"} : Tells(c, ls)
  BY <1>2 DEF ServerDoes
<1>4. CASE who = nick \/ Shared(who) # {}
  <2>1. inbox' = inbox \o <<m>>
    BY <1>1, <1>4
  <2>2. <<m>> \in Seq(Heard) /\ ListsEnd(<<m>>)
    BY <1>3, TheLine
  <2>3. ASSUME NEW c \in Chans \union {"*"} PROVE Tells(c, <<m>>)
    <3> DEFINE s == Seen(c)
               t == Seen(c)'
    <3>1. CASE c \in Chans /\ nick \in members[c]
      <4>1. s.nick = nick /\ s.users = members[c] /\ s.ops = ops[c]
        BY <3>1 DEF Seen
      <4>2. t = [nick |-> n1, users |-> Renamed(members[c], who, to),
                 ops |-> Renamed(ops[c], who, to)]
        BY <1>1, <1>2, <1>7, <3>1 DEF Seen
      <4>3. m.to # s.nick /\ m.to \notin s.users
        BY <1>1, <1>3, <3>1, <4>1
      <4> HIDE DEF s, t
      <4>4. Explains(m, c, s, t)
        BY <1>3, <4>1, <4>2, <4>3 DEF Explains
      <4>5. QED
        BY <1>3, <4>4, TellsLittle DEF s, t
    <3>2. CASE ~(c \in Chans /\ nick \in members[c])
      <4>1. s.nick = nick /\ s.users = {} /\ s.ops = {}
        BY <3>2 DEF Seen
      <4>2. t = [nick |-> n1, users |-> {}, ops |-> {}]
        BY <1>1, <1>2, <1>7, <3>2 DEF Seen
      <4>3. m.to # s.nick /\ m.to \notin s.users
        BY <1>1, <1>3, <4>1
      <4>6. Renamed({}, who, to) = {}
        BY DEF Renamed
      <4> HIDE DEF s, t
      <4>4. Explains(m, c, s, t)
        BY <1>3, <4>1, <4>2, <4>3, <4>6 DEF Explains
      <4>5. QED
        BY <1>3, <4>4, TellsLittle DEF s, t
    <3>3. QED
      BY <3>1, <3>2
  <2>4. QED
    BY <2>1, <2>2, <2>3
<1>5. CASE who # nick /\ Shared(who) = {}
  <2>1. inbox' = inbox \o <<>>
    BY <1>1, <1>5
  <2>2. ASSUME NEW c \in Chans \union {"*"} PROVE Tells(c, <<>>)
    <3>1. CASE c \in Chans /\ nick \in members[c]
      <4>1. who \notin members[c] /\ who \notin ops[c]
        BY <1>5, <3>1 DEF Shared, OpsAreMembers
      <4>2. members'[c] = members[c] /\ ops'[c] = ops[c]
        BY <1>2, <3>1, <4>1 DEF Renamed
      <4>3. Seen(c)' = Seen(c)
        BY <1>1, <1>5, <4>2 DEF Seen
      <4>4. QED
        BY <4>3, TellsLittle
    <3>2. CASE ~(c \in Chans /\ nick \in members[c])
      <4>1. Seen(c)' = Seen(c)
        BY <1>1, <1>5, <1>7, <3>2 DEF Seen
      <4>2. QED
        BY <4>1, TellsLittle
    <3>3. QED
      BY <3>1, <3>2
  <2>3. QED
    BY <2>1, <2>2, NoLine
<1>6. QED
  BY <1>4, <1>5

\* A prefix is given or taken.
LEMMA SetsOpDoes ==
    ASSUME ViewTyped, OpsAreMembers, NEW a \in Chans, NEW who \in Names, SetsOp(a, who)
    PROVE  ServerDoes
<1> DEFINE b == who \in ops'[a]
           m == Line("MODE", a, who, b)
           o == IF who \in ops[a] THEN ops[a] \ {who} ELSE ops[a] \union {who}
<1>1. /\ ops' = [ops EXCEPT ![a] = IF who \in @ THEN @ \ {who} ELSE @ \union {who}]
      /\ members' = members /\ nick' = nick /\ who \in members[a] /\ nick \in members[a]
      /\ inbox' = inbox \o <<m>>
  BY DEF SetsOp, Gives
<1>2. /\ members' \in [Chans -> SUBSET Names] /\ ops' \in [Chans -> SUBSET Names]
      /\ nick' \in Names
      /\ OpsAreMembers'
      /\ ops'[a] = o /\ \A c \in Chans \ {a} : ops'[c] = ops[c]
  BY <1>1, ServerTypes DEF OpsAreMembers
<1>4. b \in BOOLEAN /\ o = IF b THEN ops[a] \union {who} ELSE ops[a] \ {who}
  BY <1>2
<1> HIDE DEF b, o
<1>3. m \in Heard /\ m.cmd = "MODE" /\ m.chan = a /\ m.who = who /\ m.to = b
  BY <1>4 DEF Line, Heard
<1> HIDE DEF m
<1>5. <<m>> \in Seq(Heard) /\ ListsEnd(<<m>>)
  BY <1>3, TheLine
<1>6. ASSUME NEW c \in Chans \union {"*"} PROVE Tells(c, <<m>>)
  <2>1. CASE c # a
    <3>1. Seen(c)' = Seen(c)
      BY <1>1, <1>2, <2>1 DEF Seen
    <3>2. Explains(m, c, Seen(c), Seen(c)')
      BY <1>3, <2>1, <3>1 DEF Explains
    <3>3. QED
      BY <1>3, <3>2, TellsLittle
  <2>2. CASE c = a
    <3> DEFINE s == [nick |-> nick, users |-> members[a], ops |-> ops[a]]
    <3>1. Seen(c) = s /\ s.users = members[a]
      BY <1>1, <2>2 DEF Seen
    <3>2. Seen(c)' = [nick |-> nick, users |-> members[a], ops |-> o]
      BY <1>1, <1>2, <2>2 DEF Seen
    <3>3. [s EXCEPT !.ops = IF b THEN @ \union {who} ELSE @ \ {who}]
          = [nick |-> nick, users |-> members[a], ops |-> o]
      BY <1>4
    <3> HIDE DEF s
    <3>4. Explains(m, c, Seen(c), Seen(c)')
      BY <1>1, <1>3, <2>2, <3>1, <3>2, <3>3 DEF Explains
    <3>5. QED
      BY <1>3, <3>4, TellsLittle
  <2>3. QED
    BY <2>1, <2>2
<1>7. QED
  BY <1>1, <1>2, <1>5, <1>6 DEF ServerDoes

\* Somebody talks.
LEMMA TalksDoes ==
    ASSUME ViewTyped, OpsAreMembers, NEW a \in Chans, Talks(a)
    PROVE  ServerDoes
<1> DEFINE m == Line("PRIVMSG", a, "you", {})
<1>1. members' = members /\ ops' = ops /\ nick' = nick /\ inbox' = inbox \o <<m>>
  BY DEF Talks, Gives, channelVars
<1>2. m \in Heard /\ m.cmd = "PRIVMSG"
  BY DEF Line, Heard
<1> HIDE DEF m
<1>3. <<m>> \in Seq(Heard) /\ ListsEnd(<<m>>)
  BY <1>2, TheLine
<1>4. ASSUME NEW c \in Chans \union {"*"} PROVE Tells(c, <<m>>)
  <2>1. Seen(c)' = Seen(c)
    BY <1>1 DEF Seen
  <2>2. Explains(m, c, Seen(c), Seen(c)')
    BY <1>2, <2>1 DEF Explains
  <2>3. QED
    BY <1>2, <2>2, TellsLittle
<1>5. /\ members' \in [Chans -> SUBSET Names] /\ ops' \in [Chans -> SUBSET Names]
      /\ nick' \in Names
      /\ OpsAreMembers'
  BY <1>1, ServerTypes DEF OpsAreMembers
<1>6. QED
  BY <1>1, <1>3, <1>4, <1>5 DEF ServerDoes

\* The names of all channels are asked for.
LEMMA AsksNamesDoes ==
    ASSUME ViewTyped, OpsAreMembers, AsksNames
    PROVE  ServerDoes
<1>1. members' = members /\ ops' = ops /\ nick' = nick
  BY DEF AsksNames, channelVars
<1>0. PICK cs \in SUBSET Chans : \E d \in Orders(cs) : Gives(NamesList(d, members, "*"))
  BY DEF AsksNames
<1>2. PICK d \in Orders(cs) : Gives(NamesList(d, members, "*"))
  BY <1>0
<1> DEFINE n == Cardinality(cs)
           q == NamesList(d, members, "*")
<1>3. n \in Nat /\ d \in [1..n -> Chans]
  <2>1. IsFiniteSet(cs)
    BY ViewAssumption, FS_Subset DEF ViewAssumption
  <2>2. n \in Nat
    BY <2>1, FS_CardinalityType
  <2>3. d \in [1..n -> cs]
    BY DEF Orders
  <2> HIDE DEF n
  <2>4. QED
    BY <2>2, <2>3
<1> HIDE DEF n
<1>4. /\ q \in Seq(Heard) /\ Len(q) = n + 1
      /\ \A i \in 1..n : /\ q[i].cmd = "353" /\ q[i].chan = d[i] /\ q[i].who = nick
                         /\ q[i].to = members[d[i]] /\ q[i].ops = ops[d[i]]
      /\ q[n + 1].cmd = "366"
  BY <1>3, ServerTypes, List, SMTT(20)
<1>5. inbox' = inbox \o q
  BY <1>2 DEF Gives
<1> HIDE DEF q
<1>6. ASSUME NEW i \in 1..Len(q) PROVE i \in 1..n \/ i = n + 1
  BY <1>3, <1>4
<1>7. ListsEnd(q)
  <2> SUFFICES ASSUME NEW i \in 1..Len(q), q[i].cmd = "353"
               PROVE  i + 1 \in 1..Len(q) /\ q[i + 1].cmd \in {"353", "366"}
    BY DEF ListsEnd
  <2>1. i \in 1..n
    BY <1>4, <1>6
  <2>2. i + 1 \in 1..n \/ i + 1 = n + 1
    BY <1>3, <2>1
  <2>3. i + 1 \in 1..Len(q)
    BY <1>3, <1>4, <2>1
  <2>4. QED
    BY <1>4, <2>2, <2>3
<1>8. ASSUME NEW c \in Chans \union {"*"} PROVE Tells(c, q)
  <2> DEFINE s == Seen(c)
             t == Seen(c)'
  <2>1. /\ t = s /\ s.nick = nick
        /\ c \in Chans /\ In(s) => s.users = members[c] /\ s.ops = ops[c]
    BY <1>1 DEF Seen, In
  <2> HIDE DEF s, t
  <2>2. ASSUME NEW i \in 1..Len(q)
        PROVE  Explains(q[i], c, s, s) /\ ListNext(q[i], c, s, i, q)
    <3>1. CASE i \in 1..n
      <4>1. /\ q[i].cmd = "353" /\ q[i].chan = d[i] /\ q[i].who = nick /\ d[i] \in Chans
            /\ q[i].to = members[d[i]] /\ q[i].ops = ops[d[i]]
        BY <1>3, <1>4, <3>1
      <4>2. QED
        BY <2>1, <4>1 DEF Explains, ListNext
    <3>2. CASE i = n + 1
      BY <1>4, <3>2 DEF Explains, ListNext
    <3>3. QED
      BY <1>6, <3>1, <3>2
  <2>3. ASSUME NEW i \in 1..Len(q)
        PROVE  /\ Explains(q[i], c, IF i = 1 THEN s ELSE t, t)
               /\ ListNext(q[i], c, IF i = 1 THEN s ELSE t, i, q)
    BY <2>1, <2>2
  <2>4. q # <<>>
    <3>1. Len(q) # 0
      BY <1>3, <1>4
    <3>2. QED
      BY <1>4, <3>1, First
  <2>5. QED
    BY <2>3, <2>4 DEF Tells, s, t
<1>9. /\ members' \in [Chans -> SUBSET Names] /\ ops' \in [Chans -> SUBSET Names]
      /\ nick' \in Names
      /\ OpsAreMembers'
  BY <1>1, ServerTypes DEF OpsAreMembers
<1>10. QED
  BY <1>4, <1>5, <1>7, <1>8, <1>9 DEF ServerDoes

\* Whatever happens on the server.
LEMMA ServerSteps ==
    ASSUME ViewTyped, OpsAreMembers, Server
    PROVE  /\ ServerDoes
           /\ UNCHANGED <<view, row, dirty, stopping, synced, began, listed, late, crashed>>
<1>1. UNCHANGED <<view, row, dirty, stopping, synced, began, listed, late, crashed>>
  BY DEF Server, history, listing
<1>2. ASSUME NEW c \in Chans, NEW who \in Names,
             \/ Joins(c, who) \/ Leaves(c, who, "PART") \/ Leaves(c, who, "KICK")
             \/ SetsOp(c, who)
      PROVE  ServerDoes
  <2>1. CASE Joins(c, who)
    BY <2>1, JoinsDoes
  <2>2. CASE Leaves(c, who, "PART") \/ Leaves(c, who, "KICK")
    BY <2>2, LeavesDoes
  <2>3. CASE SetsOp(c, who)
    BY <2>3, SetsOpDoes
  <2>4. QED
    BY <1>2, <2>1, <2>2, <2>3
<1>3. ASSUME NEW who \in Names, Quits(who) \/ \E to \in Names : Renames(who, to)
      PROVE  ServerDoes
  <2>1. CASE Quits(who)
    BY <2>1, QuitsDoes
  <2>2. ASSUME NEW to \in Names, Renames(who, to) PROVE ServerDoes
    BY <2>2, RenamesDoes
  <2>3. QED
    BY <1>3, <2>1, <2>2
<1>4. ASSUME AsksNames \/ \E c \in Chans : Talks(c) PROVE ServerDoes
  <2>1. ASSUME NEW c \in Chans, Talks(c) PROVE ServerDoes
    BY <2>1, TalksDoes
  <2>2. CASE AsksNames
    BY <2>2, AsksNamesDoes
  <2>3. QED
    BY <1>4, <2>1, <2>2
<1>5. \/ \E c \in Chans, who \in Names :
            \/ Joins(c, who) \/ Leaves(c, who, "PART") \/ Leaves(c, who, "KICK")
            \/ SetsOp(c, who)
      \/ \E who \in Names : Quits(who) \/ \E to \in Names : Renames(who, to)
      \/ AsksNames \/ \E c \in Chans : Talks(c)
  BY DEF Server
<1>6. QED
  BY <1>1, <1>2, <1>3, <1>4, <1>5

-----------------------------------------------------------------------------
\* What every handler leaves as it should be: a change of the nick or of the channels that
\* are joined is marked, and no channel without a buffer is joined.
LEMMA Handles ==
    ASSUME ViewTyped, JoinedExist, Handle
    PROVE  /\ view' \in States /\ dirty' \in BOOLEAN
           /\ ~dirty' => /\ ~dirty /\ view'.nick = view.nick
                         /\ \A d \in Chans : view'.buffers[d].joined = view.buffers[d].joined
           /\ \A d \in Chans : view'.buffers[d].joined => view'.buffers[d].exists
           /\ Head(inbox).cmd \notin {"353", "366"} => view'.names = view.names
           /\ Head(inbox).cmd = "366" => view'.names = FALSE
<1> DEFINE msg == Head(inbox)
<1>1. msg \in Heard /\ view \in States /\ dirty \in BOOLEAN
  BY Treated, TypedStates DEF ViewTyped, ViewTypeOK
<1>2. \A d \in Chans : view.buffers[d].joined => view.buffers[d].exists
  BY DEF JoinedExist
<1>3. \A d \in Chans : view.buffers[d].joined \in BOOLEAN /\ view.buffers[d].exists \in BOOLEAN
  BY <1>1, Fields
<1>4. /\ msg.cmd = "JOIN" => OnJoin(msg)
      /\ msg.cmd \in {"PART", "KICK"} => OnPart(msg)
      /\ msg.cmd = "QUIT" => OnQuit(msg)
      /\ msg.cmd = "NICK" => OnNick(msg)
      /\ msg.cmd = "MODE" => OnMode(msg)
      /\ msg.cmd = "353" => OnNames(msg)
      /\ msg.cmd = "366" => OnEndOfNames(msg)
      /\ msg.cmd = "PRIVMSG" => OnMessage(msg)
  BY Treated
<1>5. view' \in States =>
        \A d \in Chans :
            view'.buffers[d].exists \in BOOLEAN /\ view'.buffers[d].joined \in BOOLEAN
  BY DEF States, Buffer
<1> HIDE DEF msg
<1> SUFFICES /\ view' \in States /\ dirty' \in BOOLEAN
             /\ ~dirty' => /\ ~dirty /\ view'.nick = view.nick
                           /\ \A d \in Chans : view'.buffers[d].joined = view.buffers[d].joined
             /\ \A d \in Chans : view'.buffers[d].joined => view'.buffers[d].exists
             /\ msg.cmd \notin {"353", "366"} => view'.names = view.names
             /\ msg.cmd = "366" => view'.names = FALSE
  BY DEF msg
<1>6. CASE msg.cmd = "JOIN"
  <2>1. /\ view' \in States /\ dirty' \in BOOLEAN
        /\ view'.nick = view.nick /\ view'.names = view.names
        /\ dirty \/ msg.who = view.nick => dirty'
        /\ \A d \in Chans :
              /\ view'.buffers[d].exists <=> view.buffers[d].exists \/ d = msg.chan
              /\ view'.buffers[d].joined <=>
                    view.buffers[d].joined \/ (d = msg.chan /\ msg.who = view.nick)
    BY ONLY <1>1, <1>4, <1>6, JoinDoes
  <2>2. \A d \in Chans : view'.buffers[d].joined \in BOOLEAN
    BY <2>1, <1>5
  <2>3. QED
    BY <1>2, <1>3, <1>6, <2>1, <2>2
<1>7. CASE msg.cmd \in {"PART", "KICK"}
  <2>1. /\ view' \in States /\ dirty' \in BOOLEAN
        /\ view'.nick = view.nick /\ view'.names = view.names
        /\ dirty \/ view.buffers[msg.chan].exists => dirty'
        /\ \A d \in Chans :
              /\ view'.buffers[d].exists = view.buffers[d].exists
              /\ d # msg.chan \/ ~view.buffers[d].exists => view'.buffers[d] = view.buffers[d]
    BY ONLY <1>1, <1>4, <1>7, PartDoes
  <2>2. \A d \in Chans : ~dirty' => view'.buffers[d].joined = view.buffers[d].joined
    BY <2>1
  <2>3. \A d \in Chans : view'.buffers[d].joined => view'.buffers[d].exists
    BY <1>2, <2>1
  <2>4. QED
    BY <1>7, <2>1, <2>2, <2>3
<1>8. CASE msg.cmd = "QUIT"
  BY <1>1, <1>2, <1>4, <1>8, QuitDoes
<1>9. CASE msg.cmd = "NICK"
  <2>1. /\ view' \in States /\ dirty' \in BOOLEAN
        /\ msg.who # view.nick => view'.nick = view.nick
        /\ view'.names = view.names
        /\ dirty \/ msg.who = view.nick => dirty'
        /\ \A d \in Chans : /\ view'.buffers[d].exists = view.buffers[d].exists
                            /\ view'.buffers[d].joined = view.buffers[d].joined
    BY ONLY <1>1, <1>4, <1>9, NickDoes
  <2>2. QED
    BY <1>2, <1>9, <2>1
<1>10. CASE msg.cmd = "MODE"
  BY <1>1, <1>2, <1>4, <1>10, ModeDoes
<1>11. CASE msg.cmd = "353"
  <2>1. /\ view' \in States /\ dirty' = TRUE
        /\ \A d \in Chans : /\ view'.buffers[d].exists <=> view.buffers[d].exists \/ d = msg.chan
                            /\ view'.buffers[d].joined = view.buffers[d].joined
    BY ONLY <1>1, <1>4, <1>11, NamesDoes
  <2>2. QED
    BY <1>2, <1>11, <2>1
<1>12. CASE msg.cmd = "366"
  BY <1>1, <1>2, <1>4, <1>12, EndDoes
<1>13. CASE msg.cmd = "PRIVMSG"
  <2>1. /\ view' \in States /\ dirty' \in BOOLEAN /\ (dirty => dirty')
        /\ view'.nick = view.nick /\ view'.names = view.names
        /\ \A d \in Chans : /\ view.buffers[d].exists => view'.buffers[d].exists
                            /\ view'.buffers[d].joined = view.buffers[d].joined
    BY ONLY <1>1, <1>4, <1>13, MessageDoes
  <2>2. QED
    BY <1>2, <1>13, <2>1
<1>14. QED
  BY <1>1, <1>6, <1>7, <1>8, <1>9, <1>10, <1>11, <1>12, <1>13, LineKinds

\* The parts of the invariant that a handler keeps by itself.
LEMMA HandleKeeps ==
    ASSUME ViewTyped, JoinedExist, Saved, NoListOpen, ListsEnd(inbox), Handle
    PROVE  ViewTyped' /\ JoinedExist' /\ Saved' /\ NoListOpen' /\ ListsEnd(inbox)'
<1> DEFINE msg == Head(inbox)
<1>1. /\ msg \in Heard /\ inbox # <<>> /\ inbox \in Seq(Heard) /\ inbox' = Tail(inbox)
      /\ late' = (late \/ stopping) /\ UNCHANGED <<members, ops, nick, row, stopping, crashed>>
      /\ msg.cmd = "353" =>
            /\ synced' = FALSE
            /\ began' = IF synced /\ view.nick = msg.who THEN began \union {msg.chan} ELSE began
      /\ msg.cmd = "366" => synced' = TRUE
      /\ msg.cmd # "353" => began' = began
      /\ msg.cmd \notin {"353", "366"} => synced' = synced
  BY Treated DEF OnEndOfNames
<1>2. \/ listed' = listed
      \/ msg.cmd = "353" /\ listed' = listed \union {msg.chan}
  <2>1. \/ UNCHANGED listing
        \/ msg.cmd = "353" /\ listed' = listed \union {msg.chan}
        \/ UNCHANGED listed
    BY DEF Handle
  <2>2. UNCHANGED listing => listed' = listed
    BY DEF listing
  <2>3. QED
    BY <2>1, <2>2
<1>3. Tail(inbox) \in Seq(Heard) /\ Head(inbox) = inbox[1]
  BY <1>1, Read
<1>4. /\ view' \in States /\ dirty' \in BOOLEAN
      /\ ~dirty' => /\ ~dirty /\ view'.nick = view.nick
                    /\ \A d \in Chans : view'.buffers[d].joined = view.buffers[d].joined
      /\ \A d \in Chans : view'.buffers[d].joined => view'.buffers[d].exists
      /\ msg.cmd \notin {"353", "366"} => view'.names = view.names
      /\ msg.cmd = "366" => view'.names = FALSE
  BY Handles
<1>5. ListsEnd(inbox)'
  BY <1>1, EndsKept
<1>6. msg.cmd = "353" => Tail(inbox) # <<>> /\ Head(Tail(inbox)).cmd \in {"353", "366"}
  <2> SUFFICES ASSUME inbox[1].cmd = "353"
               PROVE  Tail(inbox) # <<>> /\ Head(Tail(inbox)).cmd \in {"353", "366"}
    BY <1>3
  <2> DEFINE q == Tail(inbox)
             n == Len(inbox)
             k == Len(q)
  <2>1. k \in Nat /\ n = k + 1 /\ \A i \in 1..k : q[i] = inbox[i + 1]
    BY <1>1, Read
  <2>2. \A i \in 1..n : inbox[i].cmd = "353" => i + 1 \in 1..n /\ inbox[i + 1].cmd \in {"353", "366"}
    BY DEF ListsEnd
  <2> HIDE DEF q, n, k
  <2>3. 1 \in 1..n
    BY <2>1
  <2>4. 2 \in 1..n /\ inbox[2].cmd \in {"353", "366"}
    <3>1. 1 + 1 \in 1..n /\ inbox[1 + 1].cmd \in {"353", "366"}
      BY <2>2, <2>3
    <3>2. QED
      BY <3>1
  <2>5. k # 0 /\ q[1] = inbox[2]
    BY <2>1, <2>4
  <2>6. q \in Seq(Heard) /\ Len(q) # 0
    BY <1>3, <2>5 DEF q, k
  <2>7. q # <<>> /\ Head(q) = q[1]
    BY <2>6, First
  <2>8. QED
    BY <2>4, <2>5, <2>7 DEF q
<1>7. msg.cmd = "353" => msg.chan \in Chans
  BY <1>1, LineKinds
<1> HIDE DEF msg
<1>8. ViewTyped'
  <2>1. row \in States /\ late \in BOOLEAN /\ stopping \in BOOLEAN /\ began \subseteq Chans
        /\ listed \subseteq Chans /\ synced \in BOOLEAN /\ crashed \in BOOLEAN
        /\ members \in [Chans -> SUBSET Names] /\ ops \in [Chans -> SUBSET Names]
        /\ nick \in Names
    BY TypedStates DEF ViewTyped, ViewTypeOK
  <2>2. late' \in BOOLEAN /\ synced' \in BOOLEAN /\ began' \subseteq Chans /\ listed' \subseteq Chans
    <3>1. late' \in BOOLEAN
      BY <1>1, <2>1
    <3>2. synced' \in BOOLEAN
      BY <1>1, <2>1
    <3>3. began' \subseteq Chans
      BY <1>1, <1>7, <2>1
    <3>4. listed' \subseteq Chans
      BY <1>2, <1>7, <2>1
    <3>5. QED
      BY <3>1, <3>2, <3>3, <3>4
  <2>3. QED
    BY <1>1, <1>3, <1>4, <2>1, <2>2 DEF ViewTyped, ViewTypeOK, States
<1>9. JoinedExist'
  BY <1>1, <1>4 DEF JoinedExist
<1>10. Saved'
  <2>1. stopping' /\ ~late' => ~stopping
    BY <1>1
  <2>2. ~(stopping' /\ ~late')
    BY <1>1
  <2>3. ~dirty' => /\ row'.nick = view'.nick
                   /\ \A c \in Chans : row'.buffers[c].joined = view'.buffers[c].joined
    BY <1>1, <1>4 DEF Saved
  <2>4. QED
    BY <2>2, <2>3 DEF Saved
<1>11. NoListOpen'
  <2>1. began' # {} /\ ~synced' => inbox' # <<>> /\ Head(inbox').cmd \in {"353", "366"}
    <3>1. CASE msg.cmd = "353"
      BY <1>1, <1>6, <3>1
    <3>2. CASE msg.cmd = "366"
      BY <1>1, <3>2
    <3>3. CASE msg.cmd \notin {"353", "366"}
      BY <1>1, <3>3 DEF NoListOpen, msg
    <3>4. QED
      BY <3>1, <3>2, <3>3
  <2>2. synced' => ~view'.names
    BY <1>1, <1>4 DEF NoListOpen
  <2>3. QED
    BY <2>1, <2>2 DEF NoListOpen
<1>12. QED
  BY <1>5, <1>8, <1>9, <1>10, <1>11

\* Every handler keeps the view on the trajectory.
LEMMA HandleTracks ==
    ASSUME ViewInv, Handle
    PROVE  Tracked'
<1> SUFFICES ASSUME NEW c \in Chans \union {"*"}
             PROVE  \E U : Trajectory(c, U)' /\ Follows(c, U[0])'
  BY DEF Tracked
<1>1. /\ ViewTyped /\ JoinedExist /\ NoListOpen
      /\ inbox # <<>> /\ inbox' = Tail(inbox) /\ UNCHANGED <<members, ops, nick>>
      /\ late' = (late \/ stopping) /\ UNCHANGED crashed
      /\ (Head(inbox).cmd # "353" => began' = began)
  BY Treated DEF ViewInv
<1>2. PICK T : Trajectory(c, T) /\ Follows(c, T[0])
  BY DEF ViewInv, Tracked
<1>3. /\ T[0] \in Sights /\ T[1] \in Sights
      /\ Explains(Head(inbox), c, T[0], T[1]) /\ ListNext(Head(inbox), c, T[0], 1, inbox)
      /\ \E U : Trajectory(c, U)' /\ U[0] = T[1]
  BY <1>1, <1>2, Shorter
<1>4. PICK U : Trajectory(c, U)' /\ U[0] = T[1]
  BY <1>3
<1>5. ~crashed' /\ ~late' => Agree(c, T[1])'
  <2>1. ~crashed' /\ ~late' => ~crashed /\ ~late
    BY <1>1
  <2>2. Agree(c, T[0]) => Agree(c, T[1])'
    <3> DEFINE s == T[0]
               t == T[1]
    <3>1. s \in Sights /\ t \in Sights /\ Explains(Head(inbox), c, s, t)
      BY <1>3
    <3> HIDE DEF s, t
    <3>2. QED
      BY <1>1, <3>1, AgreesAfter DEF s, t
  <2>3. QED
    BY <1>2, <2>1, <2>2 DEF Follows
<1>6. c \in began' => Exact(c, T[1])'
  <2> SUFFICES ASSUME c \in began' PROVE Exact(c, T[1])'
    OBVIOUS
  <2>1. c \in Chans
    <3>1. ViewTyped'
      BY HandleKeeps DEF ViewInv
    <3>2. QED
      BY <3>1 DEF ViewTyped
  <2>2. c \in began => Exact(c, T[0])
    BY <1>2 DEF Follows
  <2>3. QED
    BY <1>1, <1>3, <2>1, <2>2, ExactAfter
<1>7. QED
  BY <1>4, <1>5, <1>6 DEF Follows

\* The next worker has the row, and the lines that were not handled or lost.
LEMMA LoadedTracks ==
    ASSUME ViewInv, Loaded, Exit \/ Crash
    PROVE  ViewInv'
<1>1. /\ view' = row /\ dirty' = FALSE /\ stopping' = FALSE /\ synced' = FALSE /\ began' = {}
      /\ listed' = {} /\ UNCHANGED <<members, ops, nick, row, late>>
  BY DEF Loaded, channelVars
<1>2. \/ inbox' = inbox /\ crashed' = crashed /\ stopping
      \/ inbox' = inbox /\ crashed' = TRUE
      \/ inbox # <<>> /\ inbox' = Tail(inbox) /\ crashed' = TRUE
  BY DEF Exit, Crash
<1>3. /\ ViewTyped /\ OpsAreMembers /\ ListsEnd(inbox) /\ NoListOpen /\ JoinedExist /\ Saved
      /\ Tracked /\ inbox \in Seq(Heard)
  BY DEF ViewInv, ViewTyped
<1>4. ListsEnd(inbox)' /\ inbox' \in Seq(Heard)
  BY <1>2, <1>3, EndsKept, Read
<1>5. ViewTyped'
  BY <1>1, <1>2, <1>3, <1>4 DEF ViewTyped, ViewTypeOK
<1>6. OpsAreMembers' /\ NoListOpen' /\ JoinedExist' /\ Saved'
  BY <1>1, <1>3 DEF OpsAreMembers, NoListOpen, JoinedExist, Saved
<1>7. Tracked'
  <2> SUFFICES ASSUME NEW c \in Chans \union {"*"}
               PROVE  \E U : Trajectory(c, U)' /\ Follows(c, U[0])'
    BY DEF Tracked
  <2>1. PICK T : Trajectory(c, T) /\ Follows(c, T[0])
    BY <1>3 DEF Tracked
  <2>2. CASE inbox' = inbox /\ crashed' = crashed /\ stopping
    <3>1. Trajectory(c, T)'
      BY <1>1, <2>1, <2>2, Same
    <3>2. ~crashed' /\ ~late' => Agree(c, T[0])'
      <4> SUFFICES ASSUME ~crashed', ~late' PROVE Agree(c, T[0])'
        OBVIOUS
      <4>1. Agree(c, T[0]) /\ ~dirty
        BY <1>1, <1>3, <2>1, <2>2 DEF Follows, Saved
      <4>2. /\ row.nick = view.nick
            /\ \A d \in Chans : row.buffers[d].joined = view.buffers[d].joined
        BY <1>3, <4>1 DEF Saved
      <4>3. QED
        BY <1>1, <4>1, <4>2 DEF Agree
    <3>3. QED
      BY <1>1, <3>1, <3>2 DEF Follows
  <2>3. CASE inbox' = inbox /\ crashed' = TRUE
    <3>1. Trajectory(c, T)'
      BY <1>1, <2>1, <2>3, Same
    <3>2. QED
      BY <1>1, <2>3, <3>1 DEF Follows
  <2>4. CASE inbox # <<>> /\ inbox' = Tail(inbox) /\ crashed' = TRUE
    <3>1. \E U : Trajectory(c, U)' /\ U[0] = T[1]
      BY <1>1, <1>3, <2>1, <2>4, Shorter
    <3>2. QED
      BY <1>1, <2>4, <3>1 DEF Follows
  <2>5. QED
    BY <1>2, <2>2, <2>3, <2>4
<1>8. QED
  BY <1>4, <1>5, <1>6, <1>7 DEF ViewInv

\* The server goes on.
LEMMA ServerTracks ==
    ASSUME ViewInv, Server
    PROVE  ViewInv'
<1>1. /\ ViewTyped /\ OpsAreMembers /\ ListsEnd(inbox) /\ NoListOpen /\ JoinedExist /\ Saved
      /\ Tracked /\ inbox \in Seq(Heard)
  BY DEF ViewInv, ViewTyped
<1>2. ServerDoes /\ UNCHANGED <<view, row, dirty, stopping, synced, began, listed, late, crashed>>
  BY <1>1, ServerSteps
<1>3. PICK ls \in Seq(Heard) : /\ inbox' = inbox \o ls /\ ListsEnd(ls)
                               /\ \A c \in Chans \union {"*"} : Tells(c, ls)
  BY <1>2 DEF ServerDoes
<1>4. /\ inbox' \in Seq(Heard)
      /\ inbox # <<>> => inbox' # <<>> /\ Head(inbox') = Head(inbox)
  BY <1>1, <1>3, Joined
<1>5. ListsEnd(inbox)'
  BY <1>1, <1>3, EndsKept
<1>6. ViewTyped'
  BY <1>1, <1>2, <1>4 DEF ViewTyped, ViewTypeOK, ServerDoes
<1>7. OpsAreMembers'
  BY <1>2 DEF ServerDoes
<1>8. NoListOpen' /\ JoinedExist' /\ Saved'
  BY <1>1, <1>2, <1>4 DEF NoListOpen, JoinedExist, Saved
<1>9. Tracked'
  <2> SUFFICES ASSUME NEW c \in Chans \union {"*"}
               PROVE  \E U : Trajectory(c, U)' /\ Follows(c, U[0])'
    BY DEF Tracked
  <2>1. PICK T : Trajectory(c, T) /\ Follows(c, T[0])
    BY <1>1 DEF Tracked
  <2>2. Tells(c, ls)
    BY <1>3
  <2>3. PICK U : Trajectory(c, U)' /\ U[0] = T[0]
    BY <1>1, <1>3, <1>6, <2>1, <2>2, Longer
  <2>4. Follows(c, T[0])'
    BY <1>2, <1>4, <2>1 DEF Follows, Agree, Exact, ListComes
  <2>5. QED
    BY <2>3, <2>4
<1>10. QED
  BY <1>5, <1>6, <1>7, <1>8, <1>9 DEF ViewInv

\* A step that neither the server nor the view takes part in.
LEMMA OthersTrack ==
    ASSUME ViewInv, Save \/ Flush \/ UNCHANGED viewVars
    PROVE  ViewInv'
<1>1. /\ UNCHANGED <<members, ops, nick, inbox, view, synced, began, listed, late, crashed>>
      /\ \/ row' = view /\ dirty' = FALSE /\ stopping' = stopping
         \/ row' = (IF dirty THEN view ELSE row) /\ dirty' = FALSE /\ stopping' = TRUE
         \/ UNCHANGED <<row, dirty, stopping>>
  BY DEF Save, Flush, viewVars, channelVars, history, listing
<1>2. /\ ViewTyped /\ OpsAreMembers /\ ListsEnd(inbox) /\ NoListOpen /\ JoinedExist /\ Saved
      /\ Tracked
  BY DEF ViewInv
<1>3. ViewTyped'
  BY <1>1, <1>2 DEF ViewTyped, ViewTypeOK
<1>4. OpsAreMembers' /\ ListsEnd(inbox)' /\ NoListOpen'
  BY <1>1, <1>2 DEF OpsAreMembers, NoListOpen
<1>5. JoinedExist'
  BY <1>1, <1>2 DEF JoinedExist
<1>6. Saved'
  BY <1>1, <1>2 DEF Saved
<1>7. Tracked'
  <2> SUFFICES ASSUME NEW c \in Chans \union {"*"}
               PROVE  \E U : Trajectory(c, U)' /\ Follows(c, U[0])'
    BY DEF Tracked
  <2>1. PICK T : Trajectory(c, T) /\ Follows(c, T[0])
    BY <1>2 DEF Tracked
  <2>2. Trajectory(c, T)'
    BY <1>1, <2>1, Same
  <2>3. Follows(c, T[0])'
    BY <1>1, <2>1 DEF Follows, Agree, Exact, ListComes
  <2>4. QED
    BY <2>2, <2>3
<1>8. QED
  BY <1>3, <1>4, <1>5, <1>6, <1>7 DEF ViewInv

\* The first worker knows what there is to know.
LEMMA ViewStarts == ViewInit => ViewInv
<1> SUFFICES ASSUME ViewInit PROVE ViewInv
  OBVIOUS
<1>1. /\ members = [c \in Chans |-> {n \in Names : n = "you"}] /\ ops = members
      /\ nick = "me" /\ inbox = <<>>
      /\ view = [nick |-> "me", names |-> FALSE, buffers |-> [c \in Chans |-> NoBuffer]]
      /\ row = view /\ dirty = FALSE /\ stopping = FALSE
      /\ synced = TRUE /\ began = {} /\ listed = {} /\ late = FALSE /\ crashed = FALSE
  BY DEF ViewInit
<1>2. "me" \in Names
  BY ViewAssumption
<1>3. NoBuffer \in Buffer /\ NoBuffer.joined = FALSE
  BY DEF NoBuffer, Buffer
<1>4. view \in States /\ view.nick = nick /\ view.names = FALSE
      /\ \A c \in Chans : view.buffers[c] = NoBuffer
  BY <1>1, <1>2, <1>3 DEF States
<1>5. members \in [Chans -> SUBSET Names] /\ ops \in [Chans -> SUBSET Names] /\ OpsAreMembers
  BY <1>1 DEF OpsAreMembers
<1>6. ViewTyped
  <2>1. row \in States /\ nick \in Names /\ inbox \in Seq(Heard)
    BY <1>1, <1>2, <1>4
  <2>2. /\ dirty \in BOOLEAN /\ stopping \in BOOLEAN /\ late \in BOOLEAN /\ crashed \in BOOLEAN
        /\ synced \in BOOLEAN /\ began \subseteq Chans /\ listed \subseteq Chans
    BY <1>1
  <2>3. ViewTypeOK
    BY <1>4, <1>5, <2>1, <2>2 DEF ViewTypeOK, States
  <2>4. QED
    BY <2>1, <2>2, <2>3 DEF ViewTyped
<1>7. ListsEnd(inbox) /\ NoListOpen /\ JoinedExist /\ Saved
  BY <1>1, <1>3, <1>4 DEF ListsEnd, NoListOpen, JoinedExist, Saved
<1>8. Tracked
  <2> SUFFICES ASSUME NEW c \in Chans \union {"*"}
               PROVE  \E T : Trajectory(c, T) /\ Follows(c, T[0])
    BY DEF Tracked
  <2>1. Seen(c) = [nick |-> nick, users |-> {}, ops |-> {}]
    BY <1>1 DEF Seen
  <2>2. PICK T : T = [i \in 0..0 |-> Seen(c)]
    OBVIOUS
  <2>3. T \in [0..0 -> Sights] /\ T[0] = Seen(c)
    BY <1>6, <2>2, SeenIs
  <2>4. Len(inbox) = 0
    BY <1>1
  <2>5. Trajectory(c, T)
    BY <2>3, <2>4 DEF Trajectory
  <2>6. ~In(Seen(c)) /\ Seen(c).nick = nick
    BY <2>1 DEF In
  <2>7. Follows(c, T[0])
    BY <1>1, <1>3, <1>4, <2>3, <2>6 DEF Follows, Agree
  <2>8. QED
    BY <2>5, <2>7
<1>9. QED
  BY <1>5, <1>6, <1>7, <1>8 DEF ViewInv

\* Every step of the server and of the workers keeps the invariant.
LEMMA ViewSteps == ViewInv /\ [ViewNext]_viewVars => ViewInv'
<1> SUFFICES ASSUME ViewInv, [ViewNext]_viewVars PROVE ViewInv'
  OBVIOUS
<1>1. CASE Server
  BY <1>1, ServerTracks
<1>2. CASE Handle
  <2>1. ViewTyped' /\ JoinedExist' /\ Saved' /\ NoListOpen' /\ ListsEnd(inbox)'
    BY <1>2, HandleKeeps DEF ViewInv
  <2>2. OpsAreMembers'
    BY <1>2, Treated DEF ViewInv, OpsAreMembers
  <2>3. QED
    BY <1>2, <2>1, <2>2, HandleTracks DEF ViewInv
<1>3. CASE Save \/ Flush \/ UNCHANGED viewVars
  BY <1>3, OthersTrack
<1>4. CASE Exit \/ Crash
  BY <1>4, LoadedTracks DEF Exit, Crash
<1>5. QED
  BY <1>1, <1>2, <1>3, <1>4 DEF ViewNext

\* When all lines are handled the view is what the user sees.
LEMMA ViewArrives ==
    ASSUME ViewInv, inbox = <<>>, NEW c \in Chans \union {"*"}
    PROVE  Follows(c, Seen(c)) /\ ~ListComes(c)
<1>1. PICK T : Trajectory(c, T) /\ Follows(c, T[0])
  BY DEF ViewInv, Tracked
<1>2. Len(inbox) = 0
  OBVIOUS
<1>3. T[0] = Seen(c)
  BY <1>1, <1>2 DEF Trajectory
<1>4. QED
  BY <1>1, <1>3 DEF ListComes

\* The types.
THEOREM ViewIsTyped == ViewSpec => []ViewTypeOK
<1>1. ViewInv => ViewTypeOK
  BY DEF ViewInv, ViewTyped
<1>2. QED
  BY <1>1, ViewStarts, ViewSteps, PTL DEF ViewSpec

\* The channels that are joined, and the nick, are known to the worker whenever all lines
\* are handled, as long as no worker crashed and none handled a line after its flush: a
\* worker that is stopped hands them to the next one.
THEOREM StopsKeepChannels == ViewSpec => []AgreesUntilLate
<1>1. ViewInv => AgreesUntilLate
  <2> SUFFICES ASSUME ViewInv, inbox = <<>>, ~crashed, ~late PROVE Agrees
    BY DEF AgreesUntilLate
  <2>1. \A c \in Chans \union {"*"} : Agree(c, Seen(c))
    BY ViewArrives DEF Follows
  <2>2. view.nick = nick
    <3>1. Agree("*", Seen("*"))
      BY <2>1
    <3>2. QED
      BY <3>1 DEF Agree, Seen
  <2>3. ASSUME NEW c \in Chans PROVE view.buffers[c].joined <=> nick \in members[c]
    <3>1. view.buffers[c].joined <=> In(Seen(c))
      BY <2>1 DEF Agree
    <3>2. In(Seen(c)) <=> nick \in members[c]
      BY DEF In, Seen
    <3>3. QED
      BY <3>1, <3>2
  <2>4. QED
    BY <2>2, <2>3 DEF Agrees
<1>2. QED
  BY <1>1, ViewStarts, ViewSteps, PTL DEF ViewSpec

\* A channel that a NAMES list began with, as that of each JOIN does, is known exactly,
\* users and prefixes, whenever all lines are handled, if the worker knew that no list was
\* open (RPL_NAMEREPLY, upstreamcommands.js:541): whatever was lost before it, and however
\* many lists of other channels were added to what was there.
THEOREM ListsMakeKnown == ViewSpec => []KnownOnceListedAgain
<1>1. ViewInv => KnownOnceListedAgain
  <2> SUFFICES ASSUME ViewInv, inbox = <<>>, NEW c \in began, nick \in members[c]
               PROVE  Knows(c)
    BY DEF KnownOnceListedAgain
  <2>1. c \in Chans
    BY DEF ViewInv, ViewTyped
  <2>2. Exact(c, Seen(c)) /\ ~ListComes(c)
    BY <2>1, ViewArrives DEF Follows
  <2>3. Seen(c).nick = nick /\ Seen(c).users = members[c] /\ Seen(c).ops = ops[c]
    BY <2>1 DEF Seen
  <2>4. QED
    BY <2>2, <2>3 DEF Exact, In, Knows
<1>2. QED
  BY <1>1, ViewStarts, ViewSteps, PTL DEF ViewSpec

=============================================================================
