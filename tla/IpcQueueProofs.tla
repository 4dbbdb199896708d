--------------------------- MODULE IpcQueueProofs ---------------------------
(***************************************************************************)
(* Proofs about IpcQueue for any number of messages, crashes and stops:    *)
(* every message is in exactly one place, and a worker that crashes takes  *)
(* at most one message with it.                                            *)
(***************************************************************************)
EXTENDS IpcQueue, FiniteSetTheorems, SequenceTheorems, TLAPS

\* Workers that have asked and were not answered: their request is in the pipe or waits.
Unanswered == requests \union ToSet(waits)

\* ... of which these will not read an answer any more.
Orphaned == {w \in Unanswered : w < worker \/ phase = "dead"}

\* A request is in one place.
AskedOnce == IsInjective(waits) /\ requests \intersect ToSet(waits) = {}

\* The worker asks for one thing at a time: it holds its answer, or it waits for one, or the
\* answer is in the pipe.
OneAtATime ==
    /\ worker \in Unanswered => phase \in {"asking", "dead"} /\ reply = <<>>
    /\ phase = "asking" => worker \in Unanswered \/ reply # <<>>
    /\ reply # <<>> => phase = "asking"
    /\ current # <<>> <=> phase = "handling"

\* What was lost, and what may be lost to an orphaned request, was paid for by a crash.
PaidFor == Len(lost) + Cardinality(Orphaned) <= crashes

\* The places where a message may be, and that it is in one of them, once.
Place == 1..6
Places == <<queue, failed, Real(reply), Real(current), handled, lost>>

Placed(P, n) ==
    /\ \A m \in 1..n : \E p \in Place : \E i \in DOMAIN P[p] : P[p][i] = m
    /\ \A p \in Place : \A i \in DOMAIN P[p] : P[p][i] \in 1..n
    /\ \A p, q \in Place : \A i \in DOMAIN P[p], j \in DOMAIN P[q] :
          P[p][i] = P[q][j] => p = q /\ i = j

\* The head of place p goes to the end of place q.
Moved(P, Q, p, q) ==
    /\ p # q /\ P[p] # <<>>
    /\ Q[p] = Tail(P[p]) /\ Q[q] = Append(P[q], Head(P[p]))
    /\ \A r \in Place \ {p, q} : Q[r] = P[r]

\* Message m is put at the end of place q.
Put(P, Q, q, m) == Q[q] = Append(P[q], m) /\ \A r \in Place \ {q} : Q[r] = P[r]

IInv == TypeOK /\ AskedOnce /\ OneAtATime /\ PaidFor /\ Placed(Places, sent)

----------------------------------------------------------------------------
(* Moving messages between places.                                         *)

LEMMA TailOf ==
    ASSUME NEW s \in Seq(Nat), s # <<>>
    PROVE  /\ Tail(s) \in Seq(Nat) /\ Head(s) = s[1] /\ Head(s) \in Nat
           /\ DOMAIN s = 1..Len(s) /\ Len(s) \in Nat \ {0}
           /\ DOMAIN Tail(s) = 1..(Len(s) - 1)
           /\ \A i \in 1..(Len(s) - 1) : Tail(s)[i] = s[i + 1]
OBVIOUS

LEMMA AppendOf ==
    ASSUME NEW s \in Seq(Nat), NEW m \in Nat
    PROVE  /\ Append(s, m) \in Seq(Nat)
           /\ DOMAIN s = 1..Len(s) /\ Len(s) \in Nat
           /\ DOMAIN Append(s, m) = 1..(Len(s) + 1)
           /\ \A i \in 1..Len(s) : Append(s, m)[i] = s[i]
           /\ Append(s, m)[Len(s) + 1] = m
OBVIOUS

LEMMA MovedStaysPlaced ==
    ASSUME NEW P \in [Place -> Seq(Nat)], NEW Q, NEW n \in Nat, NEW p \in Place, NEW q \in Place,
           Placed(P, n), Moved(P, Q, p, q)
    PROVE  Placed(Q, n)
<1>. DEFINE a == Len(P[p])
            b == Len(P[q])
<1>1. /\ P[p] \in Seq(Nat) /\ P[q] \in Seq(Nat) /\ P[p] # <<>> /\ p # q
      /\ Q[p] = Tail(P[p]) /\ Q[q] = Append(P[q], Head(P[p]))
      /\ \A r \in Place : r \notin {p, q} => Q[r] = P[r]
  BY DEF Moved
<1>2. /\ a \in Nat \ {0} /\ DOMAIN P[p] = 1..a /\ DOMAIN Q[p] = 1..(a - 1)
      /\ \A i \in 1..(a - 1) : Q[p][i] = P[p][i + 1]
      /\ Head(P[p]) = P[p][1] /\ Head(P[p]) \in Nat
  BY <1>1, TailOf
<1>3. /\ b \in Nat /\ DOMAIN P[q] = 1..b /\ DOMAIN Q[q] = 1..(b + 1)
      /\ \A i \in 1..b : Q[q][i] = P[q][i]
      /\ Q[q][b + 1] = P[p][1]
  BY <1>1, <1>2, AppendOf
<1>. HIDE DEF a, b
\* The i-th message of place r was the j-th of place s.
<1>. DEFINE Was(r, i, s, j) ==
               \/ r = p /\ s = p /\ j = i + 1
               \/ r = q /\ i = b + 1 /\ s = p /\ j = 1
               \/ r = q /\ i # b + 1 /\ s = q /\ j = i
               \/ r \notin {p, q} /\ s = r /\ j = i
<1>4. ASSUME NEW r \in Place, NEW i \in DOMAIN Q[r]
      PROVE  \E s \in Place : \E j \in DOMAIN P[s] : Was(r, i, s, j) /\ Q[r][i] = P[s][j]
  <2>1. CASE r = p
    <3>1. i + 1 \in DOMAIN P[p] /\ Q[r][i] = P[p][i + 1]
      BY <1>2, <2>1
    <3>. QED
      BY <3>1, <2>1
  <2>2. CASE r = q /\ i = b + 1
    <3>1. 1 \in DOMAIN P[p] /\ Q[r][i] = P[p][1]
      BY <1>2, <1>3, <2>2
    <3>. QED
      BY <3>1, <2>2
  <2>3. CASE r = q /\ i # b + 1
    <3>1. i \in DOMAIN P[q] /\ Q[r][i] = P[q][i]
      BY <1>3, <2>3
    <3>. QED
      BY <3>1, <2>3
  <2>4. CASE r \notin {p, q}
    BY <1>1, <2>4
  <2>. QED
    BY <2>1, <2>2, <2>3, <2>4
<1>5. ASSUME NEW r \in Place, NEW i \in DOMAIN Q[r], NEW s \in Place, NEW j \in DOMAIN Q[s],
             NEW t \in Place, NEW k \in DOMAIN P[t], Was(r, i, t, k), Was(s, j, t, k)
      PROVE  r = s /\ i = j
  <2>1. CASE r = p
    <3>1. i \in 1..(a - 1) /\ t = p /\ k = i + 1
      BY <1>1, <1>2, <1>5, <2>1
    <3>2. s = p /\ k = j + 1
      BY <1>1, <1>2, <1>5, <3>1
    <3>3. j \in 1..(a - 1)
      BY <1>2, <3>2
    <3>. QED
      BY <1>2, <2>1, <3>1, <3>2, <3>3
  <2>2. CASE s = p
    <3>1. j \in 1..(a - 1) /\ t = p /\ k = j + 1
      BY <1>1, <1>2, <1>5, <2>2
    <3>2. r = p /\ k = i + 1
      BY <1>1, <1>2, <1>5, <3>1
    <3>3. i \in 1..(a - 1)
      BY <1>2, <3>2
    <3>. QED
      BY <1>2, <2>2, <3>1, <3>2, <3>3
  <2>3. CASE r # p /\ s # p
    BY <1>1, <1>5, <2>3
  <2>. QED
    BY <2>1, <2>2, <2>3
<1>6. ASSUME NEW m \in 1..n
      PROVE  \E r \in Place : \E i \in DOMAIN Q[r] : Q[r][i] = m
  <2>1. PICK s \in Place : \E k \in DOMAIN P[s] : P[s][k] = m
    BY DEF Placed
  <2>2. PICK j \in DOMAIN P[s] : P[s][j] = m
    BY <2>1
  <2>3. CASE s = p /\ j = 1
    BY <1>1, <1>3, <2>2, <2>3
  <2>4. CASE s = p /\ j # 1
    <3>1. j - 1 \in 1..(a - 1) /\ (j - 1) + 1 = j
      BY <1>2, <2>2, <2>4
    <3>2. j - 1 \in DOMAIN Q[p] /\ Q[p][j - 1] = m
      BY <1>2, <2>2, <2>4, <3>1
    <3>. QED
      BY <3>2
  <2>5. CASE s = q
    <3>1. j \in DOMAIN Q[q] /\ Q[q][j] = m
      BY <1>3, <2>2, <2>5
    <3>. QED
      BY <3>1
  <2>6. CASE s \notin {p, q}
    BY <1>1, <2>2, <2>6
  <2>. QED
    BY <2>3, <2>4, <2>5, <2>6
<1>. HIDE DEF Was
<1>7. \A r \in Place : \A i \in DOMAIN Q[r] : Q[r][i] \in 1..n
  BY <1>4 DEF Placed
<1>8. ASSUME NEW r \in Place, NEW s \in Place, NEW i \in DOMAIN Q[r], NEW j \in DOMAIN Q[s],
             Q[r][i] = Q[s][j]
      PROVE  r = s /\ i = j
  <2>1. PICK t \in Place : \E k \in DOMAIN P[t] : Was(r, i, t, k) /\ Q[r][i] = P[t][k]
    BY <1>4
  <2>2. PICK k \in DOMAIN P[t] : Was(r, i, t, k) /\ Q[r][i] = P[t][k]
    BY <2>1
  <2>3. PICK u \in Place : \E l \in DOMAIN P[u] : Was(s, j, u, l) /\ Q[s][j] = P[u][l]
    BY <1>4
  <2>4. PICK l \in DOMAIN P[u] : Was(s, j, u, l) /\ Q[s][j] = P[u][l]
    BY <2>3
  <2>5. P[t][k] = P[u][l]
    BY <1>8, <2>2, <2>4
  <2>6. t = u /\ k = l
    BY <2>5 DEF Placed
  <2>. QED
    BY <1>5, <2>2, <2>4, <2>6
<1>. QED
  BY <1>6, <1>7, <1>8 DEF Placed

LEMMA PutStaysPlaced ==
    ASSUME NEW P \in [Place -> Seq(Nat)], NEW Q, NEW n \in Nat, NEW q \in Place,
           Placed(P, n), Put(P, Q, q, n + 1)
    PROVE  Placed(Q, n + 1)
<1>. DEFINE b == Len(P[q])
<1>1. /\ P[q] \in Seq(Nat) /\ Q[q] = Append(P[q], n + 1)
      /\ \A r \in Place : r # q => Q[r] = P[r]
  BY DEF Put
<1>2. /\ b \in Nat /\ DOMAIN P[q] = 1..b /\ DOMAIN Q[q] = 1..(b + 1)
      /\ \A i \in 1..b : Q[q][i] = P[q][i]
      /\ Q[q][b + 1] = n + 1
  BY <1>1, AppendOf
<1>. HIDE DEF b
<1>3. ASSUME NEW r \in Place, NEW i \in DOMAIN Q[r]
      PROVE  \/ r = q /\ i = b + 1 /\ Q[r][i] = n + 1
             \/ i \in DOMAIN P[r] /\ Q[r][i] = P[r][i] /\ Q[r][i] \in 1..n
  <2>1. CASE r = q
    BY <1>2, <2>1 DEF Placed
  <2>2. CASE r # q
    BY <1>1, <2>2 DEF Placed
  <2>. QED
    BY <2>1, <2>2
<1>4. ASSUME NEW m \in 1..(n + 1)
      PROVE  \E r \in Place : \E i \in DOMAIN Q[r] : Q[r][i] = m
  <2>1. CASE m = n + 1
    BY <1>2, <2>1
  <2>2. CASE m \in 1..n
    <3>1. PICK s \in Place : \E k \in DOMAIN P[s] : P[s][k] = m
      BY <2>2 DEF Placed
    <3>2. PICK j \in DOMAIN P[s] : P[s][j] = m
      BY <3>1
    <3>3. CASE s = q
      BY <1>2, <3>2, <3>3
    <3>4. CASE s # q
      BY <1>1, <3>2, <3>4
    <3>. QED
      BY <3>3, <3>4
  <2>. QED
    BY <2>1, <2>2
<1>5. ASSUME NEW r \in Place, NEW s \in Place, NEW i \in DOMAIN Q[r], NEW j \in DOMAIN Q[s],
             Q[r][i] = Q[s][j]
      PROVE  r = s /\ i = j
  <2>1. n + 1 \notin 1..n
    OBVIOUS
  <2>2. CASE Q[r][i] = n + 1
    <3>1. r = q /\ i = b + 1
      BY <1>3, <2>1, <2>2
    <3>2. Q[s][j] = n + 1
      BY <1>5, <2>2
    <3>3. s = q /\ j = b + 1
      BY <1>3, <2>1, <3>2
    <3>. QED
      BY <3>1, <3>3
  <2>3. CASE Q[r][i] # n + 1
    <3>1. i \in DOMAIN P[r] /\ j \in DOMAIN P[s] /\ P[r][i] = P[s][j]
      BY <1>3, <1>5, <2>3
    <3>. QED
      BY <3>1 DEF Placed
  <2>. QED
    BY <2>2, <2>3
<1>6. \A r \in Place : \A i \in DOMAIN Q[r] : Q[r][i] \in 1..(n + 1)
  BY <1>3
<1>. QED
  BY <1>4, <1>5, <1>6 DEF Placed

\* Two sequences without repetition and without a common element.
LEMMA Concatenated ==
    ASSUME NEW s \in Seq(Nat), NEW t \in Seq(Nat), IsInjective(s), IsInjective(t),
           ToSet(s) \intersect ToSet(t) = {}
    PROVE  s \o t \in Seq(Nat) /\ IsInjective(s \o t) /\ ToSet(s \o t) = ToSet(s) \union ToSet(t)
<1>1. /\ s \o t \in Seq(Nat) /\ Len(s) \in Nat /\ Len(t) \in Nat
      /\ DOMAIN s = 1..Len(s) /\ DOMAIN t = 1..Len(t) /\ DOMAIN (s \o t) = 1..(Len(s) + Len(t))
      /\ \A i \in 1..Len(s) : (s \o t)[i] = s[i]
      /\ \A i \in 1..Len(t) : (s \o t)[Len(s) + i] = t[i]
  OBVIOUS
<1>2. \A i \in DOMAIN (s \o t) :
         \/ i \in DOMAIN s /\ (s \o t)[i] = s[i]
         \/ i - Len(s) \in DOMAIN t /\ (s \o t)[i] = t[i - Len(s)]
  <2>. SUFFICES ASSUME NEW i \in 1..(Len(s) + Len(t)), i \notin 1..Len(s)
                PROVE  i - Len(s) \in 1..Len(t) /\ (s \o t)[i] = t[i - Len(s)]
    BY <1>1
  <2>1. i - Len(s) \in 1..Len(t) /\ Len(s) + (i - Len(s)) = i
    BY <1>1
  <2>. QED
    BY <1>1, <2>1
<1>3. IsInjective(s \o t)
  <2>. SUFFICES ASSUME NEW i \in DOMAIN (s \o t), NEW j \in DOMAIN (s \o t),
                       (s \o t)[i] = (s \o t)[j]
                PROVE  i = j
    BY DEF IsInjective
  <2>1. CASE i \in DOMAIN s /\ j \in DOMAIN s
    BY <1>1, <2>1 DEF IsInjective
  <2>2. CASE i \notin DOMAIN s /\ j \notin DOMAIN s
    <3>1. i - Len(s) = j - Len(s)
      BY <1>2, <2>2 DEF IsInjective
    <3>. QED
      BY <3>1, <1>1
  <2>3. CASE i \in DOMAIN s /\ j \notin DOMAIN s
    <3>1. (s \o t)[i] \in ToSet(s) /\ (s \o t)[j] \in ToSet(t)
      BY <1>1, <1>2, <2>3 DEF ToSet
    <3>. QED
      BY <3>1
  <2>4. CASE i \notin DOMAIN s /\ j \in DOMAIN s
    <3>1. (s \o t)[i] \in ToSet(t) /\ (s \o t)[j] \in ToSet(s)
      BY <1>1, <1>2, <2>4 DEF ToSet
    <3>. QED
      BY <3>1
  <2>. QED
    BY <2>1, <2>2, <2>3, <2>4
<1>4. ToSet(s \o t) \subseteq ToSet(s) \union ToSet(t)
  BY <1>2 DEF ToSet
<1>5. ASSUME NEW x \in ToSet(s) PROVE x \in ToSet(s \o t)
  <2>1. PICK i \in DOMAIN s : x = s[i]
    BY DEF ToSet
  <2>. QED
    BY <1>1, <2>1 DEF ToSet
<1>6. ASSUME NEW x \in ToSet(t) PROVE x \in ToSet(s \o t)
  <2>1. PICK i \in DOMAIN t : x = t[i]
    BY DEF ToSet
  <2>2. Len(s) + i \in DOMAIN (s \o t)
    BY <1>1
  <2>. QED
    BY <1>1, <2>1, <2>2 DEF ToSet
<1>. QED
  BY <1>1, <1>3, <1>4, <1>5, <1>6

----------------------------------------------------------------------------
(* Requests and answers.                                                   *)

LEMMA OrphanedFinite ==
    ASSUME TypeOK
    PROVE  /\ Unanswered \subseteq 1..worker
           /\ IsFiniteSet(Orphaned) /\ Cardinality(Orphaned) \in Nat
<1>1. Unanswered \subseteq 1..worker
  <2>1. \A i \in DOMAIN waits : waits[i] \in 1..worker
    BY DEF TypeOK
  <2>2. ToSet(waits) \subseteq 1..worker
    BY <2>1 DEF ToSet
  <2>. QED
    BY <2>2 DEF TypeOK, Unanswered
<1>2. IsFiniteSet(1..worker)
  BY FS_Interval DEF TypeOK
<1>3. Orphaned \subseteq 1..worker
  BY <1>1 DEF Orphaned
<1>. QED
  BY <1>1, <1>2, <1>3, FS_Subset, FS_CardinalityType

LEMMA OldestWaitTaken ==
    ASSUME NEW s \in Seq(Nat), s # <<>>, IsInjective(s)
    PROVE  /\ IsInjective(Tail(s)) /\ Head(s) \in ToSet(s)
           /\ ToSet(Tail(s)) = ToSet(s) \ {Head(s)}
<1>1. /\ Head(s) = s[1] /\ DOMAIN s = 1..Len(s) /\ Len(s) \in Nat \ {0}
      /\ DOMAIN Tail(s) = 1..(Len(s) - 1)
      /\ \A i \in 1..(Len(s) - 1) : Tail(s)[i] = s[i + 1]
  BY TailOf
<1>2. IsInjective(Tail(s))
  <2>. SUFFICES ASSUME NEW i \in 1..(Len(s) - 1), NEW j \in 1..(Len(s) - 1), s[i + 1] = s[j + 1]
                PROVE  i = j
    BY <1>1 DEF IsInjective
  <2>1. i + 1 = j + 1
    BY <1>1 DEF IsInjective
  <2>. QED
    BY <2>1, <1>1
<1>3. ToSet(Tail(s)) \subseteq ToSet(s) \ {Head(s)}
  <2>. SUFFICES ASSUME NEW i \in 1..(Len(s) - 1)
                PROVE  s[i + 1] \in ToSet(s) /\ s[i + 1] # s[1]
    BY <1>1 DEF ToSet
  <2>1. i + 1 \in DOMAIN s /\ 1 \in DOMAIN s /\ i + 1 # 1
    BY <1>1
  <2>. QED
    BY <2>1 DEF ToSet, IsInjective
<1>4. ToSet(s) \ {Head(s)} \subseteq ToSet(Tail(s))
  <2>. SUFFICES ASSUME NEW k \in DOMAIN s, s[k] # s[1]
                PROVE  s[k] \in ToSet(Tail(s))
    BY <1>1 DEF ToSet
  <2>1. k - 1 \in 1..(Len(s) - 1) /\ (k - 1) + 1 = k
    BY <1>1
  <2>2. k - 1 \in DOMAIN Tail(s) /\ Tail(s)[k - 1] = s[k]
    BY <1>1, <2>1
  <2>. QED
    BY <2>2 DEF ToSet
<1>5. Head(s) \in ToSet(s)
  BY <1>1 DEF ToSet
<1>. QED
  BY <1>2, <1>3, <1>4, <1>5

LEMMA WaitAdded ==
    ASSUME NEW s \in Seq(Nat), NEW w \in Nat, IsInjective(s), w \notin ToSet(s)
    PROVE  /\ IsInjective(Append(s, w))
           /\ ToSet(Append(s, w)) = ToSet(s) \union {w}
<1>1. /\ DOMAIN s = 1..Len(s) /\ Len(s) \in Nat
      /\ DOMAIN Append(s, w) = 1..(Len(s) + 1)
      /\ \A i \in 1..Len(s) : Append(s, w)[i] = s[i]
      /\ Append(s, w)[Len(s) + 1] = w
  BY AppendOf
<1>2. \A i \in 1..(Len(s) + 1) : i \in 1..Len(s) \/ i = Len(s) + 1
  BY <1>1
<1>3. \A i \in 1..Len(s) : s[i] # w
  BY <1>1 DEF ToSet
<1>4. IsInjective(Append(s, w))
  BY <1>1, <1>2, <1>3 DEF IsInjective
<1>5. ToSet(Append(s, w)) \subseteq ToSet(s) \union {w}
  BY <1>1, <1>2 DEF ToSet
<1>6. Len(s) + 1 \in DOMAIN Append(s, w) /\ \A i \in DOMAIN s : i \in DOMAIN Append(s, w)
  BY <1>1
<1>7. w \in ToSet(Append(s, w))
  BY <1>1, <1>6 DEF ToSet
<1>8. ToSet(s) \subseteq ToSet(Append(s, w))
  BY <1>1, <1>6 DEF ToSet
<1>. QED
  BY <1>4, <1>5, <1>7, <1>8

\* A request is answered, or what it should get is kept: if the answer is lost, the request
\* was one that its worker's death had orphaned.
LEMMA AnsweredOnce ==
    ASSUME TypeOK, OneAtATime, PaidFor,
           NEW w \in Unanswered, NEW m \in Message \union {Empty},
           Unanswered' = Unanswered \ {w},
           UNCHANGED <<worker, phase, current, crashes>>,
           ReplyTo(w, m) \/ (w < worker /\ UNCHANGED <<reply, lost>>)
    PROVE  /\ OneAtATime' /\ PaidFor'
           /\ reply' \in Seq(Message \union {Empty}) /\ Len(reply') <= 1
           /\ lost' \in Seq(Message)
<1>1. /\ w \in 1..worker /\ worker \in Nat /\ Len(lost) \in Nat /\ crashes \in Nat
      /\ IsFiniteSet(Orphaned) /\ Cardinality(Orphaned) \in Nat
  BY OrphanedFinite DEF TypeOK
<1>2. CASE w = worker /\ phase # "dead"
  <2>1. reply' = <<m>> /\ lost' = lost /\ phase = "asking"
    BY <1>1, <1>2 DEF ReplyTo, OneAtATime
  <2>2. Orphaned' = Orphaned
    BY <1>1, <1>2, <2>1 DEF Orphaned
  <2>3. worker' \notin Unanswered'
    BY <1>2
  <2>4. OneAtATime'
    BY <2>1, <2>3 DEF OneAtATime
  <2>. QED
    BY <2>1, <2>2, <2>4 DEF PaidFor, TypeOK
<1>3. CASE w < worker \/ phase = "dead"
  <2>1. w \in Orphaned /\ Orphaned' = Orphaned \ {w}
    BY <1>3 DEF Orphaned
  <2>2. Cardinality(Orphaned') = Cardinality(Orphaned) - 1
    BY <1>1, <2>1, FS_RemoveElement
  <2>3. /\ reply' = reply
        /\ lost' = lost \/ (m \in Message /\ lost' = Append(lost, m))
    BY <1>1, <1>3 DEF ReplyTo
  <2>4. lost' \in Seq(Message) /\ Len(lost') \in Nat /\ Len(lost') <= Len(lost) + 1
    <3>1. lost \in Seq(Message)
      BY DEF TypeOK
    <3>2. CASE lost' = lost
      BY <3>1, <3>2
    <3>3. CASE m \in Message /\ lost' = Append(lost, m)
      BY <3>1, <3>3
    <3>. QED
      BY <2>3, <3>2, <3>3
  <2>5. OneAtATime'
    <3>1. worker \in Unanswered' => worker \in Unanswered
      OBVIOUS
    <3>2. phase = "asking" /\ worker \in Unanswered => worker \in Unanswered'
      BY <1>1, <1>3
    <3>. QED
      BY <2>3, <3>1, <3>2 DEF OneAtATime
  <2>. QED
    BY <1>1, <2>2, <2>3, <2>4, <2>5 DEF PaidFor, TypeOK
<1>. QED
  BY <1>1, <1>2, <1>3

\* Where the message of an answer goes: to the pipe, or it is lost.
LEMMA AnswerPlaced ==
    ASSUME TypeOK, OneAtATime, NEW w \in Unanswered, NEW m \in Message, ReplyTo(w, m)
    PROVE  \/ Real(reply)' = Append(Real(reply), m) /\ lost' = lost
           \/ Real(reply)' = Real(reply) /\ lost' = Append(lost, m)
<1>0. m # Empty
  BY DEF Message, Empty
<1>1. CASE w = worker /\ phase # "dead"
  <2>1. reply' = <<m>> /\ lost' = lost /\ reply = <<>>
    BY <1>1 DEF ReplyTo, OneAtATime
  <2>2. <<m>> # <<Empty>> /\ <<>> # <<Empty>> /\ Append(<<>>, m) = <<m>>
    BY <1>0
  <2>3. Real(reply)' = <<m>> /\ Real(reply) = <<>>
    BY <2>1, <2>2, Zenon DEF Real
  <2>. QED
    BY <2>1, <2>2, <2>3, Zenon
<1>2. CASE ~(w = worker /\ phase # "dead")
  <2>1. reply' = reply /\ lost' = Append(lost, m)
    BY <1>0, <1>2 DEF ReplyTo
  <2>. QED
    BY <2>1 DEF Real
<1>. QED
  BY <1>1, <1>2

\* What the places are.
LEMMA PlacesAre ==
    /\ Place = {1, 2, 3, 4, 5, 6}
    /\ Places[1] = queue /\ Places[2] = failed /\ Places[3] = Real(reply)
    /\ Places[4] = Real(current) /\ Places[5] = handled /\ Places[6] = lost
    /\ Places'[1] = queue' /\ Places'[2] = failed' /\ Places'[3] = Real(reply)'
    /\ Places'[4] = Real(current)' /\ Places'[5] = handled' /\ Places'[6] = lost'
<1>1. Place = {1, 2, 3, 4, 5, 6}
  BY DEF Place
<1>. QED
  BY <1>1 DEF Places

LEMMA AtMostOne ==
    ASSUME NEW S, NEW s \in Seq(S), Len(s) <= 1, s # <<>>
    PROVE  s[1] \in S /\ s = <<s[1]>>
<1>1. Len(s) \in Nat \ {0}
  OBVIOUS
<1>2. Len(s) = 1
  BY <1>1
<1>. QED
  BY <1>2

LEMMA RealTyped ==
    ASSUME NEW s \in Seq(Message \union {Empty}), Len(s) <= 1
    PROVE  /\ Real(s) \in Seq(Message)
           /\ s = <<>> \/ s = <<Empty>> \/ \E m \in Message : s = <<m>>
           /\ s # <<Empty>> => Real(s) = s
<1>1. CASE s = <<>>
  <2>1. <<>> # <<Empty>> /\ <<>> \in Seq(Message)
    OBVIOUS
  <2>2. Real(s) = <<>>
    <3>1. s # <<Empty>>
      BY <1>1, <2>1, Zenon
    <3>. QED
      BY <1>1, <3>1, Zenon DEF Real
  <2>. QED
    BY <1>1, <2>1, <2>2, Zenon
<1>2. CASE s # <<>>
  <2>1. s[1] \in Message \union {Empty} /\ s = <<s[1]>>
    BY <1>2, AtMostOne
  <2>2. CASE s[1] = Empty
    BY <2>1, <2>2 DEF Real
  <2>3. CASE s[1] \in Message /\ s[1] # Empty
    <3>1. s # <<Empty>>
      BY <2>1, <2>3
    <3>2. Real(s) = <<s[1]>>
      BY <2>1, <3>1 DEF Real
    <3>. QED
      BY <2>1, <2>3, <3>1, <3>2
  <2>. QED
    BY <2>1, <2>2, <2>3
<1>. QED
  BY <1>1, <1>2

LEMMA PlacesTyped == TypeOK => Places \in [Place -> Seq(Nat)]
<1>. SUFFICES ASSUME TypeOK PROVE Places \in [Place -> Seq(Nat)]
  OBVIOUS
<1>1. Message \subseteq Nat
  BY DEF Message
<1>2. /\ queue \in Seq(Message) /\ failed \in Seq(Message) /\ handled \in Seq(Message)
      /\ lost \in Seq(Message) /\ Real(reply) \in Seq(Message) /\ Real(current) \in Seq(Message)
  BY RealTyped DEF TypeOK
<1>3. ASSUME NEW s \in Seq(Message) PROVE s \in Seq(Nat)
  BY <1>1, SeqMonotonic
<1>4. \A r \in {1, 2, 3, 4, 5, 6} : Places[r] \in Seq(Nat)
  BY <1>2, <1>3, PlacesAre
<1>5. Places = [r \in Place |-> Places[r]]
  BY DEF Places, Place
<1>. QED
  BY <1>4, <1>5, PlacesAre

----------------------------------------------------------------------------
(* The steps.                                                              *)

LEMMA WaitsTyped == TypeOK => waits \in Seq(Nat)
<1>. SUFFICES ASSUME TypeOK PROVE waits \in Seq(Nat)
  OBVIOUS
<1>1. waits \in Seq(1..worker) /\ 1..worker \subseteq Nat
  BY DEF TypeOK
<1>. QED
  BY <1>1, SeqMonotonic

\* Nothing moves.
LEMMA NothingMoved ==
    ASSUME Placed(Places, sent),
           UNCHANGED <<sent, queue, failed, reply, current, handled, lost>>
    PROVE  Placed(Places, sent)'
<1>1. Places' = Places
  BY DEF Places, Real
<1>. QED
  BY <1>1 DEF Placed

\* A message that is answered leaves the queue, or the kept ones, or is new.
LEMMA NewAnswered ==
    ASSUME IInv, sent' = sent + 1, sent + 1 \in Message, NEW w \in Unanswered,
           AnswerOrKeep(w, sent + 1), UNCHANGED <<queue, current, handled>>
    PROVE  Placed(Places, sent)'
<1>. DEFINE m == sent + 1
<1>0. /\ TypeOK /\ sent \in Nat /\ Placed(Places, sent) /\ Places \in [Place -> Seq(Nat)]
      /\ Real(current)' = Real(current)
  BY PlacesTyped DEF IInv, TypeOK, Real
<1>1. CASE failed' = Append(failed, m) /\ UNCHANGED <<reply, lost>>
  <2>1. Real(reply)' = Real(reply)
    BY <1>1 DEF Real
  <2>2. 2 \in Place /\ Put(Places, Places', 2, m)
    BY <1>0, <1>1, <2>1, PlacesAre DEF Put
  <2>. QED
    BY <1>0, <2>2, PutStaysPlaced
<1>2. CASE failed' = failed /\ ReplyTo(w, m)
  <2>1. \/ Real(reply)' = Append(Real(reply), m) /\ lost' = lost
        \/ Real(reply)' = Real(reply) /\ lost' = Append(lost, m)
    BY <1>2, AnswerPlaced DEF IInv
  <2>2. CASE Real(reply)' = Append(Real(reply), m) /\ lost' = lost
    <3>1. 3 \in Place /\ Put(Places, Places', 3, m)
      BY <1>0, <1>2, <2>2, PlacesAre DEF Put
    <3>. QED
      BY <1>0, <3>1, PutStaysPlaced
  <2>3. CASE Real(reply)' = Real(reply) /\ lost' = Append(lost, m)
    <3>1. 6 \in Place /\ Put(Places, Places', 6, m)
      BY <1>0, <1>2, <2>3, PlacesAre DEF Put
    <3>. QED
      BY <1>0, <3>1, PutStaysPlaced
  <2>. QED
    BY <2>1, <2>2, <2>3
<1>. QED
  BY <1>1, <1>2 DEF AnswerOrKeep

LEMMA QueuedAnswered ==
    ASSUME IInv, sent' = sent, queue # <<>>, queue' = Tail(queue), NEW w \in Unanswered,
           AnswerOrKeep(w, Head(queue)), UNCHANGED <<current, handled>>
    PROVE  Placed(Places, sent)'
<1>. DEFINE m == Head(queue)
<1>0. /\ TypeOK /\ sent \in Nat /\ Placed(Places, sent) /\ Places \in [Place -> Seq(Nat)]
      /\ Real(current)' = Real(current) /\ m \in Message
  BY PlacesTyped DEF IInv, TypeOK, Real
<1>1. CASE failed' = Append(failed, m) /\ UNCHANGED <<reply, lost>>
  <2>1. Real(reply)' = Real(reply)
    BY <1>1 DEF Real
  <2>2. 1 \in Place /\ 2 \in Place /\ Moved(Places, Places', 1, 2)
    BY <1>0, <1>1, <2>1, PlacesAre DEF Moved
  <2>. QED
    BY <1>0, <2>2, MovedStaysPlaced
<1>2. CASE failed' = failed /\ ReplyTo(w, m)
  <2>1. \/ Real(reply)' = Append(Real(reply), m) /\ lost' = lost
        \/ Real(reply)' = Real(reply) /\ lost' = Append(lost, m)
    BY <1>0, <1>2, AnswerPlaced DEF IInv
  <2>2. CASE Real(reply)' = Append(Real(reply), m) /\ lost' = lost
    <3>1. 1 \in Place /\ 3 \in Place /\ Moved(Places, Places', 1, 3)
      BY <1>0, <1>2, <2>2, PlacesAre DEF Moved
    <3>. QED
      BY <1>0, <3>1, MovedStaysPlaced
  <2>3. CASE Real(reply)' = Real(reply) /\ lost' = Append(lost, m)
    <3>1. 1 \in Place /\ 6 \in Place /\ Moved(Places, Places', 1, 6)
      BY <1>0, <1>2, <2>3, PlacesAre DEF Moved
    <3>. QED
      BY <1>0, <3>1, MovedStaysPlaced
  <2>. QED
    BY <2>1, <2>2, <2>3
<1>. QED
  BY <1>1, <1>2 DEF AnswerOrKeep

LEMMA KeptAnswered ==
    ASSUME IInv, sent' = sent, failed # <<>>, failed' = Tail(failed), NEW w \in Unanswered,
           ReplyTo(w, Head(failed)), UNCHANGED <<queue, current, handled>>
    PROVE  Placed(Places, sent)'
<1>. DEFINE m == Head(failed)
<1>0. /\ TypeOK /\ sent \in Nat /\ Placed(Places, sent) /\ Places \in [Place -> Seq(Nat)]
      /\ Real(current)' = Real(current) /\ m \in Message
  BY PlacesTyped DEF IInv, TypeOK, Real
<1>1. \/ Real(reply)' = Append(Real(reply), m) /\ lost' = lost
      \/ Real(reply)' = Real(reply) /\ lost' = Append(lost, m)
  BY <1>0, AnswerPlaced DEF IInv
<1>2. CASE Real(reply)' = Append(Real(reply), m) /\ lost' = lost
  <2>1. 2 \in Place /\ 3 \in Place /\ Moved(Places, Places', 2, 3)
    BY <1>0, <1>2, PlacesAre DEF Moved
  <2>. QED
    BY <1>0, <2>1, MovedStaysPlaced
<1>3. CASE Real(reply)' = Real(reply) /\ lost' = Append(lost, m)
  <2>1. 2 \in Place /\ 6 \in Place /\ Moved(Places, Places', 2, 6)
    BY <1>0, <1>3, PlacesAre DEF Moved
  <2>. QED
    BY <1>0, <2>1, MovedStaysPlaced
<1>. QED
  BY <1>1, <1>2, <1>3

\* What the pipe or the handler holds goes to the end of place q.
LEMMA HeldMoved ==
    ASSUME IInv, NEW p \in {3, 4}, NEW q \in Place, q # p, sent' = sent,
           Places'[p] = <<>>,
           Places'[q] = Places[q] \o Places[p],
           \A r \in Place \ {p, q} : Places'[r] = Places[r]
    PROVE  Placed(Places, sent)'
<1>0. /\ TypeOK /\ sent \in Nat /\ Placed(Places, sent) /\ Places \in [Place -> Seq(Nat)]
  BY PlacesTyped DEF IInv, TypeOK
<1>. p \in Place
  BY PlacesAre
<1>1. Places[p] = <<>> \/ \E m \in Message : Places[p] = <<m>>
  BY <1>0, RealTyped, PlacesAre DEF TypeOK, Real
<1>2. CASE Places[p] = <<>>
  <2>1. Places[q] \o <<>> = Places[q]
    BY <1>0
  <2>2. \A r \in Place : Places'[r] = Places[r]
    BY <1>2, <2>1
  <2>3. Places = [r \in Place |-> Places[r]] /\ Places' = [r \in Place |-> Places'[r]]
    BY DEF Places, Place
  <2>4. Places' = Places
    BY <2>2, <2>3
  <2>. QED
    BY <1>0, <2>4
<1>3. CASE \E m \in Message : Places[p] = <<m>>
  <2>1. PICK m \in Message : Places[p] = <<m>>
    BY <1>3
  <2>2. /\ Tail(<<m>>) = <<>> /\ Head(<<m>>) = m /\ <<m>> # <<>>
        /\ Places[q] \o <<m>> = Append(Places[q], m)
    BY <1>0
  <2>3. Moved(Places, Places', p, q)
    BY <1>0, <2>1, <2>2 DEF Moved
  <2>. QED
    BY <1>0, <2>3, MovedStaysPlaced
<1>. QED
  BY <1>1, <1>2, <1>3

\* The request of worker w is no longer waiting.
LEMMA WaitTaken ==
    ASSUME TypeOK, AskedOnce, waits # <<>>, waits' = Tail(waits), UNCHANGED requests
    PROVE  /\ Head(waits) \in Unanswered /\ Head(waits) \in 1..worker
           /\ Unanswered' = Unanswered \ {Head(waits)}
           /\ AskedOnce' /\ waits' \in Seq(1..worker)
<1>1. waits \in Seq(Nat) /\ waits \in Seq(1..worker)
  BY WaitsTyped DEF TypeOK
<1>2. /\ IsInjective(Tail(waits)) /\ Head(waits) \in ToSet(waits)
      /\ ToSet(Tail(waits)) = ToSet(waits) \ {Head(waits)}
  BY <1>1, OldestWaitTaken DEF AskedOnce
<1>3. Tail(waits) \in Seq(1..worker) /\ Head(waits) \in 1..worker
  BY <1>1, HeadTailProperties
<1>4. ToSet(waits)' = ToSet(waits) \ {Head(waits)} /\ IsInjective(waits)'
  BY <1>2
<1>. QED
  BY <1>2, <1>3, <1>4 DEF AskedOnce, Unanswered

LEMMA SendKeeps == IInv /\ SendToWorker => IInv'
<1>. SUFFICES ASSUME IInv, SendToWorker PROVE IInv'
  OBVIOUS
<1>0. /\ TypeOK /\ AskedOnce /\ OneAtATime /\ PaidFor /\ Placed(Places, sent)
      /\ Places \in [Place -> Seq(Nat)]
      /\ sent' = sent + 1 /\ sent + 1 \in Message /\ sent' \in 0..MaxMsgs /\ sent \in Nat
      /\ UNCHANGED <<requests, worker, phase, current, stopping, handled, crashes, stops>>
  <2>1. /\ sent \in 0..MaxMsgs /\ sent < MaxMsgs /\ sent' = sent + 1
        /\ UNCHANGED <<requests, worker, phase, current, stopping, handled, crashes, stops>>
    BY DEF IInv, SendToWorker, TypeOK
  <2>2. sent + 1 \in Message /\ sent' \in 0..MaxMsgs /\ sent \in Nat
    BY <2>1, IpcBounds DEF Message
  <2>. QED
    BY <2>1, <2>2, PlacesTyped DEF IInv
<1>1. CASE /\ waits # <<>> /\ AnswerOrKeep(Head(waits), sent + 1)
           /\ waits' = Tail(waits) /\ UNCHANGED queue
  <2>. DEFINE w == Head(waits)
  <2>1. /\ w \in Unanswered /\ Unanswered' = Unanswered \ {w}
        /\ AskedOnce' /\ waits' \in Seq(1..worker)
    BY <1>0, <1>1, WaitTaken
  <2>2. Placed(Places, sent)'
    BY <1>0, <1>1, <2>1, NewAnswered
  <2>3. /\ ReplyTo(w, sent + 1) \/ (w < worker /\ UNCHANGED <<reply, lost>>)
        /\ failed' = failed \/ failed' = Append(failed, sent + 1)
    BY <1>1 DEF AnswerOrKeep
  <2>4. /\ OneAtATime' /\ PaidFor'
        /\ reply' \in Seq(Message \union {Empty}) /\ Len(reply') <= 1
        /\ lost' \in Seq(Message)
    BY <1>0, <2>1, <2>3, AnsweredOnce
  <2>5. failed' \in Seq(Message)
    <3>1. failed \in Seq(Message)
      BY <1>0 DEF TypeOK
    <3>. QED
      BY <1>0, <2>3, <3>1
  <2>6. TypeOK'
    BY <1>0, <1>1, <2>1, <2>4, <2>5 DEF TypeOK
  <2>. QED
    BY <2>1, <2>2, <2>4, <2>6 DEF IInv
<1>2. CASE /\ waits = <<>> /\ queue' = Append(queue, sent + 1)
           /\ UNCHANGED <<waits, failed, reply, lost>>
  <2>1. Real(reply)' = Real(reply) /\ Real(current)' = Real(current)
    BY <1>0, <1>2 DEF Real
  <2>2. 1 \in Place /\ Put(Places, Places', 1, sent + 1)
    BY <1>0, <1>2, <2>1, PlacesAre DEF Put
  <2>3. Placed(Places, sent)'
    BY <1>0, <2>2, PutStaysPlaced
  <2>4. Unanswered' = Unanswered /\ Orphaned' = Orphaned
    BY <1>0, <1>2 DEF Unanswered, Orphaned
  <2>5. AskedOnce' /\ OneAtATime' /\ PaidFor'
    BY <1>0, <1>2, <2>4 DEF AskedOnce, OneAtATime, PaidFor
  <2>6. queue' \in Seq(Message)
    <3>1. queue \in Seq(Message)
      BY <1>0 DEF TypeOK
    <3>. QED
      BY <1>0, <1>2, <3>1
  <2>7. TypeOK'
    BY <1>0, <1>2, <2>6 DEF TypeOK
  <2>. QED
    BY <2>3, <2>5, <2>7 DEF IInv
<1>. QED
  BY <1>1, <1>2 DEF SendToWorker

LEMMA GetKeeps == ASSUME IInv, NEW w \in requests, GetMessage(w) PROVE IInv'
<1>0. /\ TypeOK /\ AskedOnce /\ OneAtATime /\ PaidFor /\ Placed(Places, sent)
      /\ requests' = requests \ {w} /\ w \in Unanswered /\ w \in 1..worker
      /\ UNCHANGED <<sent, worker, phase, current, stopping, handled, crashes, stops>>
  BY DEF IInv, GetMessage, Unanswered, TypeOK
<1>1. CASE \/ /\ failed # <<>> /\ failed' = Tail(failed)
              /\ ReplyTo(w, Head(failed)) /\ UNCHANGED <<queue, waits>>
           \/ /\ failed = <<>> /\ queue # <<>> /\ queue' = Tail(queue)
              /\ AnswerOrKeep(w, Head(queue)) /\ UNCHANGED waits
  <2>1. Unanswered' = Unanswered \ {w} /\ AskedOnce'
    <3>1. w \notin ToSet(waits) /\ waits' = waits
      BY <1>0, <1>1 DEF AskedOnce
    <3>. QED
      BY <1>0, <3>1 DEF Unanswered, AskedOnce
  <2>2. Placed(Places, sent)'
    BY <1>0, <1>1, QueuedAnswered, KeptAnswered
  <2>3. PICK m \in Message \union {Empty} :
           ReplyTo(w, m) \/ (w < worker /\ UNCHANGED <<reply, lost>>)
    <3>1. failed # <<>> => Head(failed) \in Message
      BY <1>0 DEF TypeOK
    <3>2. queue # <<>> => Head(queue) \in Message
      BY <1>0 DEF TypeOK
    <3>. QED
      BY <1>1, <3>1, <3>2 DEF AnswerOrKeep
  <2>4. /\ OneAtATime' /\ PaidFor'
        /\ reply' \in Seq(Message \union {Empty}) /\ Len(reply') <= 1
        /\ lost' \in Seq(Message)
    BY <1>0, <2>1, <2>3, AnsweredOnce
  <2>5. failed' \in Seq(Message) /\ queue' \in Seq(Message)
    <3>1. failed \in Seq(Message) /\ queue \in Seq(Message)
      BY <1>0 DEF TypeOK
    <3>2. CASE failed # <<>> /\ failed' = Tail(failed) /\ queue' = queue
      BY <3>1, <3>2
    <3>3. CASE /\ queue # <<>> /\ queue' = Tail(queue)
               /\ failed' = failed \/ failed' = Append(failed, Head(queue))
      <4>1. Head(queue) \in Message /\ Tail(queue) \in Seq(Message)
        BY <3>1, <3>3
      <4>. QED
        BY <3>1, <3>3, <4>1
    <3>. QED
      BY <1>1, <3>2, <3>3 DEF AnswerOrKeep
  <2>6. TypeOK'
    BY <1>0, <1>1, <2>4, <2>5 DEF TypeOK
  <2>. QED
    BY <2>1, <2>2, <2>4, <2>6 DEF IInv
<1>2. CASE waits' = Append(waits, w) /\ UNCHANGED <<queue, failed, reply, lost>>
  <2>1. /\ IsInjective(Append(waits, w))
        /\ ToSet(Append(waits, w)) = ToSet(waits) \union {w}
    <3>1. waits \in Seq(Nat) /\ w \in Nat
      BY <1>0, WaitsTyped
    <3>2. IsInjective(waits) /\ w \notin ToSet(waits)
      BY <1>0 DEF AskedOnce
    <3>. QED
      BY <3>1, <3>2, WaitAdded
  <2>2. ToSet(waits)' = ToSet(waits) \union {w} /\ IsInjective(waits)'
    BY <1>2, <2>1
  <2>3. Unanswered' = Unanswered /\ AskedOnce'
    BY <1>0, <2>2 DEF Unanswered, AskedOnce
  <2>4. OneAtATime' /\ PaidFor'
    BY <1>0, <1>2, <2>3 DEF OneAtATime, PaidFor, Orphaned
  <2>5. waits' \in Seq(1..worker)
    <3>1. waits \in Seq(1..worker)
      BY <1>0 DEF TypeOK
    <3>. QED
      BY <1>0, <1>2, <3>1
  <2>6. TypeOK'
    BY <1>0, <1>2, <2>5 DEF TypeOK
  <2>7. Placed(Places, sent)'
    BY <1>0, <1>2, NothingMoved
  <2>. QED
    BY <2>3, <2>4, <2>6, <2>7 DEF IInv
<1>. QED
  BY <1>1, <1>2 DEF GetMessage

LEMMA TimeoutKeeps == IInv /\ Timeout => IInv'
<1>. SUFFICES ASSUME IInv, Timeout PROVE IInv'
  OBVIOUS
<1>. DEFINE w == Head(waits)
<1>0. /\ TypeOK /\ AskedOnce /\ OneAtATime /\ PaidFor /\ Placed(Places, sent)
      /\ waits # <<>> /\ waits' = Tail(waits)
      /\ UNCHANGED <<sent, queue, failed, requests, worker, phase, current, stopping, handled,
                     crashes, stops>>
  BY DEF IInv, Timeout
<1>1. /\ w \in Unanswered /\ w \in 1..worker /\ Unanswered' = Unanswered \ {w}
      /\ AskedOnce' /\ waits' \in Seq(1..worker)
  BY <1>0, WaitTaken
<1>2. \/ w < worker /\ UNCHANGED <<reply, lost>>
      \/ w = worker /\ ReplyTo(w, Empty)
  BY DEF Timeout
<1>3. /\ OneAtATime' /\ PaidFor'
      /\ reply' \in Seq(Message \union {Empty}) /\ Len(reply') <= 1
      /\ lost' \in Seq(Message)
  BY <1>0, <1>1, <1>2, AnsweredOnce
<1>4. Real(reply)' = Real(reply) /\ lost' = lost /\ Real(current)' = Real(current)
  <2>1. CASE w = worker /\ phase # "dead" /\ ReplyTo(w, Empty)
    <3>1. reply' = <<Empty>> /\ lost' = lost /\ reply = <<>>
      BY <1>0, <1>1, <2>1 DEF ReplyTo, OneAtATime
    <3>2. <<>> # <<Empty>>
      OBVIOUS
    <3>3. Real(reply)' = <<>> /\ Real(reply) = <<>>
      BY <3>1, <3>2, Zenon DEF Real
    <3>. QED
      BY <1>0, <3>1, <3>3 DEF Real
  <2>2. CASE UNCHANGED <<reply, lost>>
    BY <1>0, <2>2 DEF Real
  <2>3. CASE ~(w = worker /\ phase # "dead") /\ ReplyTo(w, Empty)
    BY <1>0, <2>3 DEF ReplyTo, Real
  <2>. QED
    BY <1>2, <2>1, <2>2, <2>3
<1>5. Placed(Places, sent)'
  <2>1. Places' = Places
    BY <1>0, <1>4, Zenon DEF Places
  <2>. QED
    BY <1>0, <2>1
<1>6. TypeOK'
  BY <1>0, <1>1, <1>3 DEF TypeOK
<1>. QED
  BY <1>1, <1>3, <1>5, <1>6 DEF IInv

\* The worker's own steps.
LEMMA ListenKeeps == IInv /\ Listen => IInv'
<1>. SUFFICES ASSUME IInv, Listen PROVE IInv'
  OBVIOUS
<1>0. /\ TypeOK /\ AskedOnce /\ OneAtATime /\ PaidFor /\ Placed(Places, sent)
      /\ phase = "booting" /\ phase' = "asking" /\ requests' = requests \union {worker}
      /\ UNCHANGED <<sockets, reply, worker, current, stopping, handled, lost, crashes, stops>>
  BY DEF IInv, Listen
<1>. USE DEF sockets
<1>1. worker \notin Unanswered /\ worker \in 1..worker /\ reply = <<>> /\ current = <<>>
  BY <1>0 DEF OneAtATime, TypeOK
<1>2. Unanswered' = Unanswered \union {worker} /\ Orphaned' = Orphaned
  BY <1>0, <1>1, OrphanedFinite DEF Unanswered, Orphaned, TypeOK
<1>3. AskedOnce' /\ OneAtATime' /\ PaidFor'
  BY <1>0, <1>1, <1>2 DEF AskedOnce, OneAtATime, PaidFor, Unanswered
<1>4. TypeOK'
  BY <1>0, <1>1 DEF TypeOK
<1>5. Placed(Places, sent)'
  BY <1>0, NothingMoved
<1>. QED
  BY <1>3, <1>4, <1>5 DEF IInv

LEMMA ReceiveKeeps == IInv /\ Receive => IInv'
<1>. SUFFICES ASSUME IInv, Receive PROVE IInv'
  OBVIOUS
<1>0. /\ TypeOK /\ AskedOnce /\ OneAtATime /\ PaidFor /\ Placed(Places, sent)
      /\ phase = "asking" /\ reply # <<>> /\ phase' = "handling"
      /\ current' = reply /\ reply' = <<>>
      /\ UNCHANGED <<sockets, requests, worker, stopping, handled, lost, crashes, stops>>
  BY DEF IInv, Receive
<1>. USE DEF sockets
<1>1. worker \notin Unanswered /\ current = <<>>
  BY <1>0 DEF OneAtATime
<1>2. Unanswered' = Unanswered /\ Orphaned' = Orphaned
  BY <1>0, <1>1 DEF Unanswered, Orphaned
<1>3. AskedOnce' /\ OneAtATime' /\ PaidFor'
  BY <1>0, <1>1, <1>2 DEF AskedOnce, OneAtATime, PaidFor
<1>4. TypeOK'
  BY <1>0 DEF TypeOK
<1>5. Placed(Places, sent)'
  <2>1. Real(<<>>) = <<>>
    <3>1. <<>> # <<Empty>>
      OBVIOUS
    <3>. QED
      BY <3>1, Zenon DEF Real
  <2>2. Real(current) = <<>> /\ Real(current)' = Real(reply) /\ Real(reply)' = <<>>
    BY <1>0, <1>1, <2>1 DEF Real
  <2>3. <<>> \o Real(reply) = Real(reply)
    BY <1>0, RealTyped DEF TypeOK
  <2>4. /\ Places'[3] = <<>> /\ Places'[4] = Places[4] \o Places[3]
        /\ \A r \in Place \ {3, 4} : Places'[r] = Places[r]
    BY <1>0, <2>2, <2>3, PlacesAre
  <2>5. 3 \in {3, 4} /\ 4 \in Place /\ 4 # 3
    BY PlacesAre
  <2>. QED
    BY <1>0, <2>4, <2>5, HeldMoved
<1>. QED
  BY <1>3, <1>4, <1>5 DEF IInv

LEMMA HandledKeeps == IInv /\ Handled => IInv'
<1>. SUFFICES ASSUME IInv, Handled PROVE IInv'
  OBVIOUS
<1>0. /\ TypeOK /\ AskedOnce /\ OneAtATime /\ PaidFor /\ Placed(Places, sent)
      /\ phase = "handling" /\ current' = <<>> /\ handled' = handled \o Real(current)
      /\ \/ phase' = "dead" /\ UNCHANGED requests
         \/ phase' = "asking" /\ requests' = requests \union {worker}
      /\ UNCHANGED <<sockets, reply, worker, stopping, lost, crashes, stops>>
  BY DEF IInv, Handled
<1>. USE DEF sockets
<1>1. worker \notin Unanswered /\ worker \in 1..worker /\ reply = <<>>
  BY <1>0 DEF OneAtATime, TypeOK
<1>2. Orphaned' = Orphaned /\ Unanswered' \subseteq Unanswered \union {worker}
  BY <1>0, <1>1, OrphanedFinite DEF Unanswered, Orphaned, TypeOK
<1>3. AskedOnce'
  BY <1>0, <1>1 DEF AskedOnce, Unanswered
<1>4. OneAtATime' /\ PaidFor'
  BY <1>0, <1>1, <1>2 DEF OneAtATime, PaidFor, Unanswered
<1>5. Real(current) \in Seq(Message) /\ handled \in Seq(Message)
  BY <1>0, RealTyped DEF TypeOK
<1>6. handled' \in Seq(Message)
  BY <1>0, <1>5
<1>7. TypeOK'
  BY <1>0, <1>1, <1>6 DEF TypeOK
<1>8. Placed(Places, sent)'
  <2>1. Real(<<>>) = <<>>
    <3>1. <<>> # <<Empty>>
      OBVIOUS
    <3>. QED
      BY <3>1, Zenon DEF Real
  <2>2. Real(current)' = <<>> /\ Real(reply)' = Real(reply)
    BY <1>0, <2>1 DEF Real
  <2>3. /\ Places'[4] = <<>> /\ Places'[5] = Places[5] \o Places[4]
        /\ \A r \in Place \ {4, 5} : Places'[r] = Places[r]
    BY <1>0, <2>2, PlacesAre
  <2>4. 4 \in {3, 4} /\ 5 \in Place /\ 5 # 4
    BY PlacesAre
  <2>. QED
    BY <1>0, <2>3, <2>4, HeldMoved
<1>. QED
  BY <1>3, <1>4, <1>7, <1>8 DEF IInv

LEMMA CrashKeeps == IInv /\ Crash => IInv'
<1>. SUFFICES ASSUME IInv, Crash PROVE IInv'
  OBVIOUS
<1>0. /\ TypeOK /\ AskedOnce /\ OneAtATime /\ PaidFor /\ Placed(Places, sent)
      /\ crashes < MaxCrashes /\ crashes' = crashes + 1
      /\ phase # "dead" /\ phase' = "dead"
      /\ lost' = lost \o Real(reply) \o Real(current)
      /\ reply' = <<>> /\ current' = <<>>
      /\ UNCHANGED <<sockets, requests, worker, stopping, handled, stops>>
  BY DEF IInv, Crash
<1>. USE DEF sockets
<1>1. /\ reply \in Seq(Message \union {Empty}) /\ Len(reply) <= 1
      /\ current \in Seq(Message \union {Empty}) /\ Len(current) <= 1
      /\ lost \in Seq(Message) /\ crashes \in 0..MaxCrashes /\ worker \in Nat \ {0}
  BY <1>0 DEF TypeOK
<1>2. /\ Real(reply) \in Seq(Message) /\ Len(Real(reply)) <= 1
      /\ Real(current) \in Seq(Message) /\ Len(Real(current)) <= 1
  <2>1. \A s : s = <<Empty>> => Real(s) = <<>>
    BY DEF Real
  <2>. QED
    BY <1>1, <2>1, RealTyped, EmptySeq
<1>3. Real(<<>>) = <<>>
  <2>1. <<>> # <<Empty>>
    OBVIOUS
  <2>. QED
    BY <2>1, Zenon DEF Real
<1>4. \/ /\ current = <<>> /\ Real(current) = <<>> /\ lost' = lost \o Real(reply)
      \/ /\ reply = <<>> /\ Real(reply) = <<>> /\ lost' = lost \o Real(current)
  <2>1. CASE current = <<>>
    <3>1. lost \o Real(reply) \o <<>> = lost \o Real(reply)
      BY <1>1, <1>2
    <3>. QED
      BY <1>0, <1>3, <2>1, <3>1
  <2>2. CASE current # <<>>
    <3>1. reply = <<>>
      BY <1>0, <2>2 DEF OneAtATime
    <3>2. lost \o <<>> = lost
      BY <1>1
    <3>. QED
      BY <1>0, <1>3, <3>1, <3>2
  <2>. QED
    BY <2>1, <2>2
<1>5. /\ lost' \in Seq(Message) /\ Len(lost') \in Nat
      /\ Len(lost') <= Len(lost) + 1
      /\ reply = <<>> /\ current = <<>> => Len(lost') = Len(lost)
  <2>1. /\ Len(lost) \in Nat /\ Len(Real(reply)) \in Nat /\ Len(Real(current)) \in Nat
        /\ lost \o Real(reply) \in Seq(Message) /\ lost \o Real(current) \in Seq(Message)
        /\ Len(lost \o Real(reply)) = Len(lost) + Len(Real(reply))
        /\ Len(lost \o Real(current)) = Len(lost) + Len(Real(current))
    BY <1>1, <1>2
  <2>2. Len(<<>>) = 0
    OBVIOUS
  <2>. QED
    BY <1>2, <1>3, <1>4, <2>1, <2>2
<1>6. Unanswered' = Unanswered /\ AskedOnce' /\ OneAtATime'
  BY <1>0 DEF Unanswered, AskedOnce, OneAtATime
<1>7. PaidFor'
  <2>1. /\ IsFiniteSet(Orphaned) /\ Cardinality(Orphaned) \in Nat /\ Len(lost) \in Nat
        /\ crashes \in Nat /\ Len(lost) + Cardinality(Orphaned) <= crashes
    BY <1>0, <1>1, OrphanedFinite DEF PaidFor
  <2>2. CASE worker \in Unanswered
    <3>1. /\ worker \notin Orphaned
          /\ Orphaned' = Orphaned \union {worker}
      <4>1. \A w \in Unanswered : w \in 1..worker
        BY <1>0, OrphanedFinite
      <4>2. Orphaned' = Unanswered /\ Orphaned = {w \in Unanswered : w < worker}
        BY <1>0, <1>6 DEF Orphaned
      <4>3. ~(worker < worker) /\ \A w \in Unanswered : w < worker \/ w = worker
        BY <1>1, <4>1
      <4>. QED
        BY <2>2, <4>2, <4>3
    <3>2. Cardinality(Orphaned') = Cardinality(Orphaned) + 1
      BY <2>1, <3>1, FS_AddElement
    <3>3. reply = <<>> /\ current = <<>>
      BY <1>0, <2>2 DEF OneAtATime
    <3>. QED
      BY <1>0, <1>5, <2>1, <3>2, <3>3 DEF PaidFor
  <2>3. CASE worker \notin Unanswered
    <3>1. Orphaned' = Orphaned
      BY <1>0, <1>1, <1>6, <2>3, OrphanedFinite DEF Orphaned
    <3>. QED
      BY <1>0, <1>5, <2>1, <3>1 DEF PaidFor
  <2>. QED
    BY <2>2, <2>3
<1>8. TypeOK'
  <2>1. reply' \in Seq(Message \union {Empty}) /\ Len(reply') <= 1
    BY <1>0, EmptySeq
  <2>2. crashes' \in 0..MaxCrashes
    BY <1>0, <1>1, IpcBounds
  <2>. QED
    BY <1>0, <1>5, <2>1, <2>2 DEF TypeOK
<1>9. Placed(Places, sent)'
  <2>1. Real(current)' = <<>> /\ Real(reply)' = <<>>
    BY <1>0, <1>3 DEF Real
  <2>2. CASE Real(current) = <<>> /\ lost' = lost \o Real(reply)
    <3>1. /\ Places'[3] = <<>> /\ Places'[6] = Places[6] \o Places[3]
          /\ \A r \in Place \ {3, 6} : Places'[r] = Places[r]
      BY <1>0, <2>1, <2>2, PlacesAre
    <3>2. 3 \in {3, 4} /\ 6 \in Place /\ 6 # 3
      BY PlacesAre
    <3>. QED
      BY <1>0, <3>1, <3>2, HeldMoved
  <2>3. CASE Real(reply) = <<>> /\ lost' = lost \o Real(current)
    <3>1. /\ Places'[4] = <<>> /\ Places'[6] = Places[6] \o Places[4]
          /\ \A r \in Place \ {4, 6} : Places'[r] = Places[r]
      BY <1>0, <2>1, <2>3, PlacesAre
    <3>2. 4 \in {3, 4} /\ 6 \in Place /\ 6 # 4
      BY PlacesAre
    <3>. QED
      BY <1>0, <3>1, <3>2, HeldMoved
  <2>. QED
    BY <1>4, <2>2, <2>3
<1>. QED
  BY <1>6, <1>7, <1>8, <1>9 DEF IInv

LEMMA ExitKeeps == IInv /\ (Exit \/ StopListening) => IInv'
<1>. SUFFICES ASSUME IInv, Exit \/ StopListening PROVE IInv'
  OBVIOUS
<1>0. /\ TypeOK /\ AskedOnce /\ OneAtATime /\ PaidFor /\ Placed(Places, sent)
      /\ UNCHANGED <<sockets, requests, reply, current, handled, lost, crashes>>
  BY DEF IInv, Exit, StopListening
<1>. USE DEF sockets
<1>1. Placed(Places, sent)'
  BY <1>0, NothingMoved
<1>2. Unanswered' = Unanswered /\ AskedOnce'
  BY <1>0 DEF Unanswered, AskedOnce
<1>3. CASE Exit
  <2>1. /\ worker' = worker + 1 /\ phase = "dead" /\ phase' = "booting"
        /\ stopping' = FALSE /\ UNCHANGED stops /\ worker \in Nat \ {0}
    BY <1>0, <1>3 DEF Exit, TypeOK
  <2>2. Orphaned' = Orphaned /\ worker' \notin Unanswered
    BY <1>0, <1>2, <2>1, OrphanedFinite DEF Orphaned
  <2>3. OneAtATime' /\ PaidFor'
    BY <1>0, <1>2, <2>1, <2>2 DEF OneAtATime, PaidFor
  <2>4. waits' \in Seq(1..worker')
    <3>1. waits \in Seq(1..worker) /\ 1..worker \subseteq 1..(worker + 1)
      BY <1>0, <2>1 DEF TypeOK
    <3>2. waits \in Seq(1..(worker + 1))
      BY <3>1, SeqMonotonic
    <3>. QED
      BY <1>0, <2>1, <3>2
  <2>5. worker' \in Nat \ {0} /\ requests' \subseteq 1..worker'
    BY <1>0, <2>1 DEF TypeOK
  <2>6. TypeOK'
    BY <1>0, <2>1, <2>4, <2>5 DEF TypeOK
  <2>. QED
    BY <1>1, <1>2, <2>3, <2>6 DEF IInv
<1>4. CASE StopListening
  <2>1. UNCHANGED <<worker, phase>> /\ stopping' = TRUE /\ stops < MaxStops /\ stops' = stops + 1
    BY <1>4 DEF StopListening
  <2>2. OneAtATime' /\ PaidFor'
    BY <1>0, <1>2, <2>1 DEF OneAtATime, PaidFor, Orphaned
  <2>3. stops' \in 0..MaxStops
    BY <1>0, <2>1, IpcBounds DEF TypeOK
  <2>4. TypeOK'
    BY <1>0, <2>1, <2>3 DEF TypeOK
  <2>. QED
    BY <1>1, <1>2, <2>2, <2>4 DEF IInv
<1>. QED
  BY <1>3, <1>4

----------------------------------------------------------------------------
(* The theorems.                                                           *)

LEMMA InitIInv == Init => IInv
<1>. SUFFICES ASSUME Init PROVE IInv
  OBVIOUS
<1>1. TypeOK
  <2>1. sent \in 0..MaxMsgs /\ crashes \in 0..MaxCrashes /\ stops \in 0..MaxStops
    BY IpcBounds DEF Init
  <2>2. <<>> \in Seq(Message) /\ <<>> \in Seq(Message \union {Empty}) /\ Len(<<>>) = 0
    BY EmptySeq
  <2>3. worker \in Nat \ {0} /\ waits \in Seq(1..worker)
    BY EmptySeq DEF Init
  <2>. QED
    <3>1. /\ queue \in Seq(Message) /\ failed \in Seq(Message)
          /\ handled \in Seq(Message) /\ lost \in Seq(Message)
          /\ reply \in Seq(Message \union {Empty}) /\ Len(reply) <= 1
          /\ current \in Seq(Message \union {Empty}) /\ Len(current) <= 1
      BY <2>2 DEF Init
    <3>2. /\ requests \subseteq 1..worker /\ phase \in {"booting", "asking", "handling", "dead"}
          /\ stopping \in BOOLEAN
      BY DEF Init
    <3>. QED
      BY <2>1, <2>3, <3>1, <3>2 DEF TypeOK
<1>2. Unanswered = {} /\ Orphaned = {}
  BY DEF Init, Unanswered, Orphaned, ToSet
<1>3. AskedOnce /\ OneAtATime
  BY <1>2 DEF Init, AskedOnce, OneAtATime, IsInjective, Unanswered
<1>4. PaidFor
  BY <1>2, FS_EmptySet DEF Init, PaidFor
<1>5. Placed(Places, sent)
  <2>1. Real(<<>>) = <<>>
    <3>1. <<>> # <<Empty>>
      OBVIOUS
    <3>. QED
      BY <3>1, Zenon DEF Real
  <2>2. \A r \in Place : Places[r] = <<>>
    BY <2>1, PlacesAre DEF Init
  <2>3. DOMAIN <<>> = {} /\ sent = 0 /\ 1..0 = {}
    BY DEF Init
  <2>. QED
    BY <2>2, <2>3 DEF Placed
<1>. QED
  BY <1>1, <1>3, <1>4, <1>5 DEF IInv

LEMMA NextIInv == IInv /\ [Next]_vars => IInv'
<1>. SUFFICES ASSUME IInv, [Next]_vars PROVE IInv'
  OBVIOUS
<1>1. CASE UNCHANGED vars
  <2>1. Placed(Places, sent)'
    BY <1>1, NothingMoved DEF IInv, vars, sockets
  <2>2. TypeOK'
    BY <1>1 DEF IInv, TypeOK, vars, sockets
  <2>3. AskedOnce' /\ OneAtATime' /\ PaidFor'
    BY <1>1 DEF IInv, AskedOnce, OneAtATime, PaidFor, Unanswered, Orphaned, vars, sockets
  <2>. QED
    BY <2>1, <2>2, <2>3 DEF IInv
<1>. QED
  BY <1>1, SendKeeps, GetKeeps, TimeoutKeeps, ListenKeeps, ReceiveKeeps, HandledKeeps, CrashKeeps,
     ExitKeeps DEF Next

THEOREM Invariance == Spec => []IInv
<1>. QED
  BY InitIInv, NextIInv, PTL DEF Spec

\* The types of the variables.
THEOREM TypeCorrect == Spec => []TypeOK
<1>1. IInv => TypeOK
  BY DEF IInv
<1>. QED
  BY <1>1, Invariance, PTL

\* A worker that crashes takes at most one message with it, whenever it dies and whatever of it
\* is still in the pipe (ipcqueue.js: initServer(), getNextItem()).
THEOREM CrashCostsOne == Spec => []AtMostOneLostPerCrash
<1>1. IInv => AtMostOneLostPerCrash
  <2>. SUFFICES ASSUME IInv PROVE Len(lost) <= crashes
    BY DEF AtMostOneLostPerCrash
  <2>1. Cardinality(Orphaned) \in Nat /\ Len(lost) \in Nat /\ crashes \in Nat
    BY OrphanedFinite DEF IInv, TypeOK
  <2>. QED
    BY <2>1 DEF IInv, PaidFor
<1>. QED
  BY <1>1, Invariance, PTL


\* Every message sent is in exactly one place, whenever workers die and exits are seen
\* (ipcqueue.js: sendToWorker(), initServer(), getNextItem()).
THEOREM NothingLostOrDoubled == Spec => []OnePlace
<1>1. ASSUME IInv PROVE OnePlace
  <2>1. Places \in [Place -> Seq(Nat)] /\ sent \in Nat /\ Placed(Places, sent)
    BY <1>1, PlacesTyped DEF IInv, TypeOK
  <2>2. \A p \in Place : Places[p] \in Seq(Nat) /\ IsInjective(Places[p])
    BY <2>1 DEF Placed, IsInjective
  <2>3. \A p, q \in Place : p # q => ToSet(Places[p]) \intersect ToSet(Places[q]) = {}
    <3>. SUFFICES ASSUME NEW p \in Place, NEW q \in Place, p # q,
                         NEW i \in DOMAIN Places[p], NEW j \in DOMAIN Places[q],
                         Places[p][i] = Places[q][j]
                  PROVE  FALSE
      BY DEF ToSet
    <3>. QED
      BY <2>1 DEF Placed
  <2>. DEFINE s1 == Places[1]
              s2 == s1 \o Places[2]
              s3 == s2 \o Places[3]
              s4 == s3 \o Places[4]
              s5 == s4 \o Places[5]
              s6 == s5 \o Places[6]
              S(p) == ToSet(Places[p])
  <2>4. s1 \in Seq(Nat) /\ IsInjective(s1) /\ ToSet(s1) = S(1)
    BY <2>2, PlacesAre
  <2>. HIDE DEF s1
  <2>5. /\ s2 \in Seq(Nat) /\ IsInjective(s2)
        /\ ToSet(s2) = S(1) \union S(2)
    <3>1. ToSet(s1) \intersect S(2) = {}
      BY <2>3, <2>4, PlacesAre
    <3>. QED
      BY <2>2, <2>4, <3>1, Concatenated, PlacesAre
  <2>. HIDE DEF s2
  <2>6. /\ s3 \in Seq(Nat) /\ IsInjective(s3)
        /\ ToSet(s3) = S(1) \union S(2) \union S(3)
    <3>1. ToSet(s2) \intersect S(3) = {}
      BY <2>3, <2>5, PlacesAre
    <3>. QED
      BY <2>2, <2>5, <3>1, Concatenated, PlacesAre
  <2>. HIDE DEF s3
  <2>7. /\ s4 \in Seq(Nat) /\ IsInjective(s4)
        /\ ToSet(s4) = S(1) \union S(2) \union S(3) \union S(4)
    <3>1. ToSet(s3) \intersect S(4) = {}
      BY <2>3, <2>6, PlacesAre
    <3>. QED
      BY <2>2, <2>6, <3>1, Concatenated, PlacesAre
  <2>. HIDE DEF s4
  <2>8. /\ s5 \in Seq(Nat) /\ IsInjective(s5)
        /\ ToSet(s5) = S(1) \union S(2) \union S(3) \union S(4) \union S(5)
    <3>1. ToSet(s4) \intersect S(5) = {}
      <4>1. /\ S(1) \intersect S(5) = {} /\ S(2) \intersect S(5) = {}
             /\ S(3) \intersect S(5) = {} /\ S(4) \intersect S(5) = {}
        BY <2>3, PlacesAre
      <4>. HIDE DEF S
      <4>. QED
        BY <2>7, <4>1
    <3>. QED
      BY <2>2, <2>7, <3>1, Concatenated, PlacesAre
  <2>. HIDE DEF s5
  <2>9. /\ IsInjective(s6)
        /\ ToSet(s6) = S(1) \union S(2) \union S(3) \union S(4) \union S(5) \union S(6)
    <3>1. ToSet(s5) \intersect S(6) = {}
      <4>1. /\ S(1) \intersect S(6) = {} /\ S(2) \intersect S(6) = {}
             /\ S(3) \intersect S(6) = {} /\ S(4) \intersect S(6) = {}
             /\ S(5) \intersect S(6) = {}
        BY <2>3, PlacesAre
      <4>. HIDE DEF S
      <4>. QED
        BY <2>8, <4>1
    <3>. QED
      BY <2>2, <2>8, <3>1, Concatenated, PlacesAre
  <2>. HIDE DEF s6
  <2>10. ToSet(s6) = 1..sent
    <3>1. ASSUME NEW m \in 1..sent PROVE \E p \in Place : m \in S(p)
      BY <2>1 DEF Placed, ToSet
    <3>2. ASSUME NEW p \in Place, NEW m \in S(p) PROVE m \in 1..sent
      BY <2>1 DEF Placed, ToSet
    <3>. HIDE DEF S
    <3>. QED
      BY <2>9, <3>1, <3>2, PlacesAre
  <2>11. s6 = queue \o failed \o Real(reply) \o Real(current) \o handled \o lost
    BY PlacesAre DEF s6, s5, s4, s3, s2, s1
  <2>. QED
    BY <2>9, <2>10, <2>11 DEF OnePlace
<1>2. IInv => OnePlace
  BY <1>1
<1>. QED
  BY <1>2, Invariance, PTL

=============================================================================
