------------------------- MODULE MessageStoreProofs -------------------------
(***************************************************************************)
(* Proofs about the message store and what clients are given of it.        *)
(*                                                                         *)
(* MessageStore, for every set of users, buffers and texts, every size of  *)
(* batch and chunk and every bound: one inductive invariant, from which    *)
(* come the types, the agreement of the cache with the table of strings,   *)
(* that every stored row reads back, that no string is left behind, that a *)
(* busy database costs one message at most, and that retention deletes     *)
(* from no other buffers than it is set for.                               *)
(*                                                                         *)
(* History, for every set of client ids, every limit and size of a dump    *)
(* and every bound: a plain client misses no message, the history of a     *)
(* bouncer client has no hole, and the count of unread messages is exact.  *)
(***************************************************************************)
EXTENDS MessageStore, History, FiniteSetTheorems, SequenceTheorems, WellFoundedInduction, TLAPS

\* A table of strings: ids are natural numbers with a largest one.
IsTable(d) ==
    /\ d = [i \in DOMAIN d |-> d[i]]
    /\ DOMAIN d \subseteq Nat
    /\ \E b \in Nat : \A i \in DOMAIN d : i <= b

\* Cache c leads to the strings of table d.
Agrees(d, c) ==
    \A v \in DOMAIN c : c[v] \in DOMAIN d /\ d[c[v]] = v

\* Table e has all of d under the same ids.
Keeps(d, e) ==
    \A i \in DOMAIN d : i \in DOMAIN e /\ e[i] = d[i]

\* Row r reads back from table d as nothing but its message.
RowReads(d, r) ==
    /\ r.bufferref # 0 => r.bufferref \in DOMAIN d /\ d[r.bufferref] = r.buffer
    /\ r.dataref # 0 => r.dataref \in DOMAIN d /\ d[r.dataref] = r.text

\* A bounded set of naturals with 0 has a largest element, which Max returns.
LEMMA MaxOfBounded ==
    ASSUME NEW S, S \subseteq Nat, 0 \in S, NEW b \in Nat, \A i \in S : i <= b
    PROVE  Max(S) \in S /\ \A i \in S : i <= Max(S)
<1> DEFINE U == {n \in Nat : \A i \in S : i <= n}
<1>1. PICK m \in U : \A n \in U : ~ (<<n, m>> \in OpToRel(<, Nat))
  <2>1. U \subseteq Nat /\ U # {}
    OBVIOUS
  <2>2. QED
    BY <2>1, NatLessThanWellFounded, WFMin
<1>2. \A n \in U : ~ (n < m)
  BY <1>1 DEF OpToRel
<1>3. m \in S
  <2>1. CASE m = 0
    BY <2>1
  <2>2. CASE m # 0
    <3>1. m - 1 \in Nat /\ m - 1 < m
      BY <2>2
    <3>2. m - 1 \notin U
      BY <3>1, <1>2
    <3>3. PICK i \in S : ~ (i <= m - 1)
      BY <3>1, <3>2
    <3>4. i <= m /\ i \in Nat
      BY <3>3
    <3>5. i = m
      BY <3>1, <3>3, <3>4
    <3>6. QED
      BY <3>5
  <2>3. QED
    BY <2>1, <2>2
<1>4. \A i \in S : m >= i
  OBVIOUS
<1>5. Max(S) \in S /\ \A i \in S : Max(S) >= i
  BY <1>3, <1>4 DEF Max
<1>6. QED
  BY <1>5

\* The id SQLite gives to a new string is no other string's.
LEMMA NewIdIsFree ==
    ASSUME NEW d, IsTable(d)
    PROVE  NextId(d) \in Nat /\ \A i \in DOMAIN d : i < NextId(d)
<1>1. PICK b \in Nat : \A i \in DOMAIN d : i <= b
  BY DEF IsTable
<1> DEFINE S == DOMAIN d \cup {0}
<1>2. S \subseteq Nat /\ 0 \in S /\ \A i \in S : i <= b
  BY <1>1 DEF IsTable
<1>3. Max(S) \in S /\ \A i \in S : i <= Max(S)
  BY <1>2, MaxOfBounded
<1> HIDE DEF S
<1>4. Max(S) + 1 \in Nat /\ \A i \in S : i < Max(S) + 1
  <2>1. Max(S) \in Nat /\ \A i \in S : i \in Nat
    BY <1>2, <1>3
  <2> DEFINE m == Max(S)
  <2>2. m \in Nat /\ \A i \in S : i \in Nat /\ i <= m
    BY <2>1, <1>3
  <2> HIDE DEF m
  <2>3. m + 1 \in Nat /\ \A i \in S : i < m + 1
    BY <2>2
  <2>4. QED
    BY <2>3 DEF m
<1>5. NextId(d) = Max(S) + 1 /\ DOMAIN d \subseteq S
  BY DEF NextId, S
<1>6. QED
  BY <1>4, <1>5

\* The id looked up for a string that is in the table leads to it.
LEMMA IdInLeads ==
    ASSUME NEW d, NEW v, v \in Range(d)
    PROVE  IdIn(d, v) \in DOMAIN d /\ d[IdIn(d, v)] = v
BY DEF Range, IdIn

\* An insert adds the string and disturbs no other.
LEMMA InsertKeeps ==
    ASSUME NEW d, IsTable(d), NEW v
    PROVE  /\ IsTable(With(d, NextId(d), v))
           /\ Keeps(d, With(d, NextId(d), v))
           /\ v \in Range(With(d, NextId(d), v))
<1> DEFINE k == NextId(d)
<1> DEFINE e == With(d, k, v)
<1>1. k \in Nat /\ \A i \in DOMAIN d : i < k
  BY NewIdIsFree
<1>2. DOMAIN d \subseteq Nat
  BY DEF IsTable
<1> HIDE DEF k
<1>3. DOMAIN e = DOMAIN d \cup {k}
  BY DEF With
<1>4. \A i \in DOMAIN e : e[i] = IF i = k THEN v ELSE d[i]
  BY DEF With
<1>5. e = [i \in DOMAIN e |-> e[i]]
  BY DEF With
<1> HIDE DEF e
<1>6. \A i \in DOMAIN e : i \in Nat /\ i <= k
  BY <1>1, <1>2, <1>3
<1>7. IsTable(e)
  BY <1>1, <1>5, <1>6 DEF IsTable
<1>8. Keeps(d, e)
  <2>1. \A i \in DOMAIN d : i # k
    BY <1>1, <1>2
  <2>2. QED
    BY <2>1, <1>3, <1>4 DEF Keeps
<1>9. v \in Range(e)
  BY <1>3, <1>4 DEF Range
<1>10. QED
  BY <1>7, <1>8, <1>9 DEF k, e

\* A found id may be remembered.
LEMMA RememberAgrees ==
    ASSUME NEW d, NEW c, Agrees(d, c), NEW v, v \in Range(d)
    PROVE  Agrees(d, With(c, v, IdIn(d, v)))
<1>1. IdIn(d, v) \in DOMAIN d /\ d[IdIn(d, v)] = v
  BY IdInLeads
<1> DEFINE i == IdIn(d, v)
<1> DEFINE e == With(c, v, i)
<1> HIDE DEF i
<1>2. DOMAIN e = DOMAIN c \cup {v} /\ \A x \in DOMAIN e : e[x] = IF x = v THEN i ELSE c[x]
  BY DEF With
<1> HIDE DEF e
<1>3. ASSUME NEW x \in DOMAIN e
      PROVE  e[x] \in DOMAIN d /\ d[e[x]] = x
  <2>1. CASE x = v
    BY <2>1, <1>1, <1>2 DEF i
  <2>2. CASE x # v
    BY <2>2, <1>2 DEF Agrees
  <2>3. QED
    BY <2>1, <2>2
<1>4. QED
  BY <1>3 DEF Agrees, e, i

\* A lookup finds its string in the cache, or finds nothing; adds the empty row of a
\* message without a text; or caches the id of a string that is or now is in the table.
LEMMA LookupCases ==
    ASSUME NEW s, s = [data |-> s.data, cache |-> s.cache], IsTable(s.data), NEW v,
           NEW t \in {DataId(s, v), DataIdWhenBusy(s, v)}
    PROVE  \/ t = s
           \/ t = [data |-> With(s.data, NextId(s.data), Null), cache |-> s.cache]
           \/ \E d : /\ v \in Range(d) /\ v \notin DOMAIN s.cache
                     /\ d = s.data \/ (v \notin Range(s.data) /\ d = With(s.data, NextId(s.data), v))
                     /\ t = [data |-> d, cache |-> With(s.cache, v, IdIn(d, v))]
<1> DEFINE d == IF v \in Range(s.data) THEN s.data ELSE With(s.data, NextId(s.data), v)
<1>1. CASE t = DataId(s, v)
  <2>1. CASE v \in DOMAIN s.cache
    BY <1>1, <2>1 DEF DataId
  <2>2. CASE v \notin DOMAIN s.cache /\ v = Null
    <3>1. t = [s EXCEPT !.data = With(s.data, NextId(s.data), Null)]
      BY <1>1, <2>2 DEF DataId
    <3> DEFINE e == With(s.data, NextId(s.data), Null)
    <3> HIDE DEF e
    <3>2. [s EXCEPT !.data = e] = [data |-> e, cache |-> s.cache]
      OBVIOUS
    <3>3. QED
      BY <3>1, <3>2 DEF e
  <2>3. CASE v \notin DOMAIN s.cache /\ v # Null
    <3>1. t = [data |-> d, cache |-> With(s.cache, v, IdIn(d, v))]
      BY <1>1, <2>3 DEF DataId
    <3>2. v \in Range(d)
      BY InsertKeeps
    <3>3. d = s.data \/ (v \notin Range(s.data) /\ d = With(s.data, NextId(s.data), v))
      OBVIOUS
    <3> HIDE DEF d
    <3>4. QED
      BY <2>3, <3>1, <3>2, <3>3
  <2>4. QED
    BY <2>1, <2>2, <2>3
<1>2. CASE t = DataIdWhenBusy(s, v)
  <2>1. CASE v \in DOMAIN s.cache \/ v = Null \/ v \notin Range(s.data)
    BY <1>2, <2>1 DEF DataIdWhenBusy
  <2>2. CASE ~ (v \in DOMAIN s.cache \/ v = Null \/ v \notin Range(s.data))
    <3>1. t = [s EXCEPT !.cache = With(s.cache, v, IdIn(s.data, v))]
      BY <1>2, <2>2 DEF DataIdWhenBusy
    <3> DEFINE e == With(s.cache, v, IdIn(s.data, v))
    <3> HIDE DEF e
    <3>2. [s EXCEPT !.cache = e] = [data |-> s.data, cache |-> e]
      OBVIOUS
    <3>3. t = [data |-> s.data, cache |-> With(s.cache, v, IdIn(s.data, v))]
      BY <3>1, <3>2 DEF e
    <3>4. QED
      BY <2>2, <3>3
  <2>3. QED
    BY <2>1, <2>2
<1>3. QED
  BY <1>1, <1>2

\* A lookup makes the table no smaller and disturbs no string of it; the id it returns is
\* the only one that can be new, but for an empty row.
LEMMA LookupGrows ==
    ASSUME NEW s, s = [data |-> s.data, cache |-> s.cache], IsTable(s.data), NEW v,
           NEW t \in {DataId(s, v), DataIdWhenBusy(s, v)}
    PROVE  /\ t = [data |-> t.data, cache |-> t.cache]
           /\ IsTable(t.data)
           /\ Keeps(s.data, t.data)
           /\ \A w \in DOMAIN s.cache : w \in DOMAIN t.cache /\ t.cache[w] = s.cache[w]
           /\ \A i \in DOMAIN t.data : i \in DOMAIN s.data \/ t.data[i] = Null \/ i = Ref(t, v)
<1> DEFINE k == NextId(s.data)
<1>1. CASE t = s
  BY <1>1 DEF Keeps
<1>2. CASE t = [data |-> With(s.data, k, Null), cache |-> s.cache]
  <2> DEFINE e == With(s.data, k, Null)
  <2>1. IsTable(e) /\ Keeps(s.data, e)
    BY InsertKeeps
  <2>2. \A i \in DOMAIN e : i \in DOMAIN s.data \/ e[i] = Null
    <3> HIDE DEF k
    <3>1. QED
      BY DEF With
  <2> HIDE DEF e
  <2>3. t = [data |-> e, cache |-> s.cache]
    BY <1>2 DEF e
  <2>4. QED
    BY <2>1, <2>2, <2>3
<1>3. ASSUME NEW d, v \in Range(d), v \notin DOMAIN s.cache,
             d = s.data \/ (v \notin Range(s.data) /\ d = With(s.data, k, v)),
             t = [data |-> d, cache |-> With(s.cache, v, IdIn(d, v))]
      PROVE  /\ t = [data |-> t.data, cache |-> t.cache]
             /\ IsTable(t.data)
             /\ Keeps(s.data, t.data)
             /\ \A w \in DOMAIN s.cache : w \in DOMAIN t.cache /\ t.cache[w] = s.cache[w]
             /\ \A i \in DOMAIN t.data : i \in DOMAIN s.data \/ t.data[i] = Null \/ i = Ref(t, v)
  <2> DEFINE c == With(s.cache, v, IdIn(d, v))
  <2>1. IsTable(d) /\ Keeps(s.data, d)
    <3>1. CASE d = s.data
      BY <3>1 DEF Keeps
    <3>2. CASE d = With(s.data, k, v)
      BY <3>2, InsertKeeps
    <3>3. QED
      BY <1>3, <3>1, <3>2
  <2>2. v \in DOMAIN c /\ c[v] = IdIn(d, v)
        /\ \A w \in DOMAIN s.cache : w \in DOMAIN c /\ c[w] = s.cache[w]
    BY <1>3 DEF With
  <2> HIDE DEF c
  <2>3. t = [data |-> d, cache |-> c]
    BY <1>3 DEF c
  <2>4. Ref(t, v) = IdIn(d, v)
    BY <2>2, <2>3 DEF Ref
  <2>5. ASSUME NEW i \in DOMAIN d, i \notin DOMAIN s.data
        PROVE  i = IdIn(d, v)
    <3>1. v \notin Range(s.data) /\ d = With(s.data, k, v)
      BY <1>3, <2>5
    <3> HIDE DEF k
    <3>2. DOMAIN d = DOMAIN s.data \cup {k} /\ \A j \in DOMAIN d : j # k => d[j] = s.data[j]
      BY <3>1 DEF With
    <3>3. IdIn(d, v) \in DOMAIN d /\ d[IdIn(d, v)] = v
      BY <1>3, IdInLeads
    <3>4. IdIn(d, v) = k
      BY <3>1, <3>2, <3>3 DEF Range
    <3>5. QED
      BY <2>5, <3>2, <3>4
  <2>6. QED
    BY <2>1, <2>2, <2>3, <2>4, <2>5
<1>4. QED
  BY <1>1, <1>2, <1>3, LookupCases

\* The cache it leaves agrees with the table it leaves.
LEMMA LookupAgrees ==
    ASSUME NEW s, s = [data |-> s.data, cache |-> s.cache], IsTable(s.data),
           Agrees(s.data, s.cache), NEW v, NEW t \in {DataId(s, v), DataIdWhenBusy(s, v)}
    PROVE  Agrees(t.data, t.cache)
<1>1. Agrees(t.data, s.cache)
  BY LookupGrows DEF Agrees, Keeps
<1>2. t.cache = s.cache \/ (v \in Range(t.data) /\ t.cache = With(s.cache, v, IdIn(t.data, v)))
  <2>1. t = [data |-> With(s.data, NextId(s.data), Null), cache |-> s.cache] => t.cache = s.cache
    OBVIOUS
  <2>2. QED
    BY <2>1, LookupCases
<1>3. QED
  BY <1>1, <1>2, RememberAgrees

\* A table of strings with its cache.
StringTypes(d, c) ==
    /\ d \in [DOMAIN d -> Values \cup {Null}] /\ DOMAIN d \subseteq Nat \ {0}
    /\ c \in [DOMAIN c -> Nat \ {0}] /\ DOMAIN c \subseteq Values

\* A found id may be remembered: the cache keeps its type.
LEMMA RememberTyped ==
    ASSUME NEW d, NEW c, StringTypes(d, c), NEW v \in Values, v \in Range(d)
    PROVE  StringTypes(d, With(c, v, IdIn(d, v)))
<1> DEFINE e == With(c, v, IdIn(d, v))
<1>1. IdIn(d, v) \in Nat \ {0}
  BY IdInLeads DEF StringTypes
<1>2. e = [x \in DOMAIN c \cup {v} |-> IF x = v THEN IdIn(d, v) ELSE c[x]]
  BY DEF With
<1>3. \A x \in DOMAIN c : c[x] \in Nat \ {0}
  BY DEF StringTypes
<1>4. e \in [DOMAIN c \cup {v} -> Nat \ {0}]
  BY <1>1, <1>2, <1>3
<1> HIDE DEF e
<1>5. DOMAIN e \subseteq Values /\ e \in [DOMAIN e -> Nat \ {0}]
  BY <1>4 DEF StringTypes
<1>6. QED
  BY <1>5 DEF StringTypes, e

\* So does the table that a string, or an empty row, is inserted in.
LEMMA InsertTyped ==
    ASSUME NEW d, NEW c, IsTable(d), StringTypes(d, c), NEW v \in Values \cup {Null}
    PROVE  StringTypes(With(d, NextId(d), v), c)
<1> DEFINE k == NextId(d)
<1> DEFINE e == With(d, k, v)
<1>1. k \in Nat \ {0}
  <2>1. NextId(d) \in Nat /\ NextId(d) = Max(DOMAIN d \cup {0}) + 1
    BY NewIdIsFree DEF NextId
  <2>2. PICK b \in Nat : \A i \in DOMAIN d : i <= b
    BY DEF IsTable
  <2>3. Max(DOMAIN d \cup {0}) \in DOMAIN d \cup {0}
    <3> DEFINE S == DOMAIN d \cup {0}
    <3>1. S \subseteq Nat /\ 0 \in S /\ \A i \in S : i <= b
      BY <2>2 DEF IsTable
    <3> HIDE DEF S
    <3>2. Max(S) \in S
      BY <3>1, MaxOfBounded
    <3>3. QED
      BY <3>2 DEF S
  <2>4. Max(DOMAIN d \cup {0}) \in Nat
    BY <2>3 DEF IsTable
  <2>5. QED
    BY <2>1, <2>4
<1> HIDE DEF k
<1>2. e = [x \in DOMAIN d \cup {k} |-> IF x = k THEN v ELSE d[x]]
  BY DEF With
<1>3. \A x \in DOMAIN d : d[x] \in Values \cup {Null}
  BY DEF StringTypes
<1>4. e \in [DOMAIN d \cup {k} -> Values \cup {Null}]
  BY <1>2, <1>3
<1> HIDE DEF e
<1>5. e \in [DOMAIN e -> Values \cup {Null}] /\ DOMAIN e \subseteq Nat \ {0}
  BY <1>1, <1>4 DEF StringTypes
<1>6. QED
  BY <1>5 DEF StringTypes, e, k

LEMMA LookupTyped ==
    ASSUME NEW s, s = [data |-> s.data, cache |-> s.cache], IsTable(s.data),
           StringTypes(s.data, s.cache), NEW v \in Values \cup {Null},
           NEW t \in {DataId(s, v), DataIdWhenBusy(s, v)}
    PROVE  /\ StringTypes(t.data, t.cache)
           /\ Ref(t, v) \in Nat
           /\ t = DataId(s, v) /\ v # Null => Ref(t, v) # 0
<1>1. StringTypes(With(s.data, NextId(s.data), Null), s.cache)
  BY InsertTyped
<1>2. v # Null => StringTypes(With(s.data, NextId(s.data), v), s.cache)
  BY InsertTyped
<1>3. StringTypes(t.data, t.cache)
  <2>1. CASE t = s
    BY <2>1
  <2>2. CASE t = [data |-> With(s.data, NextId(s.data), Null), cache |-> s.cache]
    BY <2>2, <1>1
  <2>3. ASSUME NEW d, v \in Range(d), v \notin DOMAIN s.cache,
               d = s.data \/ (v \notin Range(s.data) /\ d = With(s.data, NextId(s.data), v)),
               t = [data |-> d, cache |-> With(s.cache, v, IdIn(d, v))], v # Null
        PROVE  StringTypes(t.data, t.cache)
    <3>1. StringTypes(d, s.cache) /\ v \in Values
      BY <1>2, <2>3
    <3>2. StringTypes(d, With(s.cache, v, IdIn(d, v)))
      BY <2>3, <3>1, RememberTyped
    <3>3. QED
      BY <2>3, <3>2
  <2>4. v = Null => t = s \/ t = [data |-> With(s.data, NextId(s.data), Null), cache |-> s.cache]
    <3> SUFFICES ASSUME v = Null PROVE t = s \/ t = [data |-> With(s.data, NextId(s.data), Null), cache |-> s.cache]
      OBVIOUS
    <3>1. CASE t = DataId(s, v)
      <4>1. t = s \/ t = [s EXCEPT !.data = With(s.data, NextId(s.data), Null)]
        BY <3>1 DEF DataId
      <4> DEFINE e == With(s.data, NextId(s.data), Null)
      <4> HIDE DEF e
      <4>2. [s EXCEPT !.data = e] = [data |-> e, cache |-> s.cache]
        OBVIOUS
      <4>3. QED
        BY <4>1, <4>2 DEF e
    <3>2. CASE t = DataIdWhenBusy(s, v)
      BY <3>2 DEF DataIdWhenBusy
    <3>3. QED
      BY <3>1, <3>2
  <2>5. QED
    BY <2>1, <2>2, <2>3, <2>4, LookupCases
<1>4. Ref(t, v) \in Nat
  BY <1>3 DEF Ref, StringTypes
<1>5. t = DataId(s, v) /\ v # Null => v \in DOMAIN t.cache
  <2> SUFFICES ASSUME t = DataId(s, v), v # Null PROVE v \in DOMAIN t.cache
    OBVIOUS
  <2>1. CASE v \in DOMAIN s.cache
    BY <2>1 DEF DataId
  <2>2. CASE v \notin DOMAIN s.cache
    <3> DEFINE d == IF v \in Range(s.data) THEN s.data ELSE With(s.data, NextId(s.data), v)
    <3>1. t = [data |-> d, cache |-> With(s.cache, v, IdIn(d, v))]
      BY <2>2 DEF DataId
    <3> HIDE DEF d
    <3>2. QED
      BY <3>1 DEF With
  <2>3. QED
    BY <2>1, <2>2
<1>6. QED
  BY <1>3, <1>4, <1>5 DEF Ref, StringTypes

\* A lookup while another process holds the lock leaves the table alone.
LEMMA BusyKeepsTable ==
    ASSUME NEW s, s = [data |-> s.data, cache |-> s.cache], NEW v
    PROVE  DataIdWhenBusy(s, v).data = s.data
BY DEF DataIdWhenBusy

\* What reads back from a table reads back from one that keeps it.
LEMMA KeptRowReads ==
    ASSUME NEW d, NEW e, Keeps(d, e), NEW r, RowReads(d, r)
    PROVE  RowReads(e, r)
BY DEF Keeps, RowReads

-----------------------------------------------------------------------------
(* The inductive invariant.                                                *)

\* Every waiting message has its number and kind in the history.
Numbered(q, p) ==
    \A i \in DOMAIN q : q[i].n \in DOMAIN p /\ p[q[i].n] = q[i].kind

\* The retention task has a list of rows only while it runs.
OffIsDone == phase = "off" => deletedRows = {}

\* String v looks like a buffer of kind k.
Names(k, v) == v # Null /\ (v \in Channels <=> k = "channels")

\* The temp table names buffers of the kind the task is deleting from.
BufsNameBuffers ==
    bufs # {} => /\ phase \in Retained
                 /\ \A i \in bufs : i \in DOMAIN data /\ Names(phase, data[i])

\* The cache and the rows agree with the table of strings.
Sound ==
    /\ Agrees(data, dataCache)
    /\ \A r \in logs : RowReads(data, r)

\* The inductive invariant of the store: each conjunct below is disturbed by few steps.
IInv ==
    /\ TypeOK
    /\ IsTable(data)
    /\ Numbered(storeQueue, pushed)
    /\ OffIsDone
    /\ BufsNameBuffers
    /\ NoneRolledBack => Sound
    /\ CollectsOrphans
    /\ AtMostOneLostPerBusy

\* The lookups of a transaction: the table grows by no string that the row does not
\* refer to.
LEMMA LookupsGrow ==
    ASSUME IsTable(data), NEW m, NEW k, NEW u, u = Lookups(m, k)
    PROVE  /\ IsTable(u.data)
           /\ Keeps(data, u.data)
           /\ \A i \in DOMAIN u.data :
                  i \in DOMAIN data \/ u.data[i] = Null \/ i \in {u.row.bufferref, u.row.dataref}
           /\ Agrees(data, dataCache) => Agrees(u.data, u.cache) /\ RowReads(u.data, u.row)
<1> DEFINE one == IF k > 0 THEN DataIdWhenBusy(Here, m.buffer) ELSE DataId(Here, m.buffer)
<1> DEFINE two == IF k > 1 THEN DataIdWhenBusy(one, m.text) ELSE DataId(one, m.text)
<1> DEFINE new == [n |-> m.n, user |-> m.user, buffer |-> m.buffer, text |-> m.text,
                   bufferref |-> Ref(one, m.buffer), dataref |-> Ref(two, m.text)]
<1>1. Here = [data |-> Here.data, cache |-> Here.cache] /\ Here.data = data
      /\ Here.cache = dataCache
  BY DEF Here
<1>2. one \in {DataId(Here, m.buffer), DataIdWhenBusy(Here, m.buffer)}
      /\ two \in {DataId(one, m.text), DataIdWhenBusy(one, m.text)}
  OBVIOUS
<1>3. u = [data |-> two.data, cache |-> two.cache, row |-> new]
  BY DEF Lookups
<1> HIDE DEF one
<1>4. /\ one = [data |-> one.data, cache |-> one.cache]
      /\ IsTable(one.data) /\ Keeps(data, one.data)
      /\ \A i \in DOMAIN one.data :
             i \in DOMAIN data \/ one.data[i] = Null \/ i = Ref(one, m.buffer)
      /\ Agrees(data, dataCache) => Agrees(one.data, one.cache)
  BY <1>1, <1>2, LookupGrows, LookupAgrees
<1> HIDE DEF two
<1>5. /\ IsTable(two.data) /\ Keeps(one.data, two.data)
      /\ \A i \in DOMAIN two.data :
             i \in DOMAIN one.data \/ two.data[i] = Null \/ i = Ref(two, m.text)
      /\ Agrees(data, dataCache) => Agrees(two.data, two.cache)
  BY <1>2, <1>4, LookupGrows, LookupAgrees
<1>6. /\ new.bufferref = Ref(one, m.buffer) /\ new.dataref = Ref(two, m.text)
      /\ new.buffer = m.buffer /\ new.text = m.text
  OBVIOUS
<1> HIDE DEF new
<1>7. u.data = two.data /\ u.cache = two.cache /\ u.row = new
  BY <1>3
<1>8. Keeps(data, two.data)
  BY <1>4, <1>5 DEF Keeps
<1>9. ASSUME NEW i \in DOMAIN two.data
      PROVE  i \in DOMAIN data \/ two.data[i] = Null \/ i \in {new.bufferref, new.dataref}
  BY <1>4, <1>5, <1>6 DEF Keeps
<1>10. ASSUME Agrees(data, dataCache)
       PROVE  RowReads(two.data, new)
  <2>1. Agrees(one.data, one.cache) /\ Agrees(two.data, two.cache)
    BY <1>4, <1>5, <1>10
  <2>2. new.bufferref # 0 => new.bufferref \in DOMAIN one.data /\ one.data[new.bufferref] = m.buffer
    BY <1>6, <2>1 DEF Ref, Agrees
  <2>3. new.dataref # 0 => new.dataref \in DOMAIN two.data /\ two.data[new.dataref] = m.text
    BY <1>6, <2>1 DEF Ref, Agrees
  <2>4. QED
    BY <1>5, <1>6, <2>2, <2>3 DEF RowReads, Keeps
<1>11. QED
  BY <1>5, <1>7, <1>8, <1>9, <1>10

\* Their types; and without another process all strings are found.
LEMMA LookupsTyped ==
    ASSUME IsTable(data), StringTypes(data, dataCache), NEW m \in Message, NEW k, NEW u,
           u = Lookups(m, k)
    PROVE  /\ StringTypes(u.data, u.cache)
           /\ u.row \in Row /\ u.row.n = m.n
           /\ k = 0 => Whole(u.row)
<1> DEFINE one == IF k > 0 THEN DataIdWhenBusy(Here, m.buffer) ELSE DataId(Here, m.buffer)
<1> DEFINE two == IF k > 1 THEN DataIdWhenBusy(one, m.text) ELSE DataId(one, m.text)
<1> DEFINE new == [n |-> m.n, user |-> m.user, buffer |-> m.buffer, text |-> m.text,
                   bufferref |-> Ref(one, m.buffer), dataref |-> Ref(two, m.text)]
<1>1. Here = [data |-> Here.data, cache |-> Here.cache] /\ Here.data = data
      /\ Here.cache = dataCache
  BY DEF Here
<1>2. /\ m.n \in 1..MaxMsgs /\ m.user \in Users
      /\ m.buffer \in Channels \cup Nicks /\ m.text \in Texts \cup {Null}
      /\ m.buffer \in Values \cup {Null} /\ m.buffer # Null /\ m.text \in Values \cup {Null}
  BY StoreAssumption DEF Message, Values
<1>3. one \in {DataId(Here, m.buffer), DataIdWhenBusy(Here, m.buffer)}
      /\ two \in {DataId(one, m.text), DataIdWhenBusy(one, m.text)}
      /\ (k = 0 => one = DataId(Here, m.buffer) /\ two = DataId(one, m.text))
  OBVIOUS
<1>4. u = [data |-> two.data, cache |-> two.cache, row |-> new]
  BY DEF Lookups
<1> HIDE DEF one
<1>5. /\ one = [data |-> one.data, cache |-> one.cache]
      /\ IsTable(one.data) /\ StringTypes(one.data, one.cache) /\ Ref(one, m.buffer) \in Nat
      /\ k = 0 => Ref(one, m.buffer) # 0
  BY <1>1, <1>2, <1>3, LookupGrows, LookupTyped
<1> HIDE DEF two
<1>6. /\ StringTypes(two.data, two.cache) /\ Ref(two, m.text) \in Nat
      /\ k = 0 /\ m.text # Null => Ref(two, m.text) # 0
  BY <1>2, <1>3, <1>5, LookupTyped
<1>7. new \in Row
  BY <1>2, <1>5, <1>6 DEF Row
<1>8. k = 0 => Whole(new)
  BY <1>5, <1>6 DEF Whole
<1>9. new.n = m.n
  OBVIOUS
<1> HIDE DEF new
<1>10. QED
  BY <1>4, <1>6, <1>7, <1>8, <1>9

\* The transaction of a message commits, damaged by another process or not.
Commits(m) == \E k \in 0..2 : Commit(Lookups(m, k))

LEMMA CommitIs ==
    ASSUME NEW m, Commits(m)
    PROVE  \E u : /\ \E k : u = Lookups(m, k)
                  /\ data' = u.data /\ dataCache' = u.cache
                  /\ logs' = logs \cup {u.row}
BY DEF Commits, Commit

LEMMA CommitGrows ==
    ASSUME IsTable(data), NEW m, Commits(m)
    PROVE  /\ IsTable(data')
           /\ Keeps(data, data')
           /\ logs \subseteq logs'
           /\ \A i \in DOMAIN data' : i \in DOMAIN data \cup RefsOf(logs') \/ data'[i] = Null
<1>1. PICK u : /\ \E k : u = Lookups(m, k)
               /\ data' = u.data /\ logs' = logs \cup {u.row}
  BY CommitIs
<1>2. {u.row.bufferref, u.row.dataref} \subseteq RefsOf(logs')
  BY <1>1 DEF RefsOf
<1>3. /\ IsTable(u.data)
      /\ Keeps(data, u.data)
      /\ \A i \in DOMAIN u.data :
             i \in DOMAIN data \/ u.data[i] = Null \/ i \in {u.row.bufferref, u.row.dataref}
  BY <1>1, LookupsGrow
<1>4. QED
  BY ONLY <1>1, <1>2, <1>3

\* It keeps the tables and the cache sound.
LEMMA CommitKeepsSound ==
    ASSUME IsTable(data), Sound, NEW m, Commits(m)
    PROVE  Sound'
<1>1. PICK u : /\ \E k : u = Lookups(m, k)
               /\ data' = u.data /\ dataCache' = u.cache /\ logs' = logs \cup {u.row}
  BY CommitIs
<1>2. Keeps(data, u.data) /\ Agrees(u.data, u.cache) /\ RowReads(u.data, u.row)
  BY <1>1, LookupsGrow DEF Sound
<1>3. \A r \in logs : RowReads(u.data, r)
  BY <1>2, KeptRowReads DEF Sound
<1>4. QED
  BY <1>1, <1>2, <1>3 DEF Sound

\* And their types.
LEMMA CommitTyped ==
    ASSUME IsTable(data), StringTypes(data, dataCache), logs \subseteq Row,
           written \subseteq 1..MaxMsgs, NEW m \in Message, Commits(m)
    PROVE  /\ StringTypes(data', dataCache')
           /\ logs' \subseteq Row
           /\ written' \subseteq 1..MaxMsgs
<1>1. PICK k \in 0..2 : Commit(Lookups(m, k))
  BY DEF Commits
<1> DEFINE u == Lookups(m, k)
<1>2. /\ data' = u.data /\ dataCache' = u.cache /\ logs' = logs \cup {u.row}
      /\ written' \subseteq written \cup {u.row.n}
  BY <1>1 DEF Commit
<1>3. StringTypes(u.data, u.cache) /\ u.row \in Row /\ u.row.n = m.n
  BY LookupsTyped
<1>4. m.n \in 1..MaxMsgs
  BY DEF Message
<1> HIDE DEF u
<1>5. QED
  BY <1>2, <1>3, <1>4

\* A transaction the busy database refuses, and one that is rolled back, leave
\* the tables; the cache they leave has its type.
LEMMA RefusedTyped ==
    ASSUME IsTable(data), StringTypes(data, dataCache), NEW m \in Message,
           FailBusy(m) \/ RollBack(m)
    PROVE  StringTypes(data', dataCache')
<1>1. data' = data /\ \E k : dataCache' = Lookups(m, k).cache
  BY DEF FailBusy, RollBack, db
<1>2. PICK k : dataCache' = Lookups(m, k).cache
  BY <1>1
<1>3. StringTypes(Lookups(m, k).data, Lookups(m, k).cache)
  BY LookupsTyped
<1>4. QED
  BY <1>1, <1>2, <1>3 DEF StringTypes

\* A transaction the busy database refuses keeps the tables and the cache sound.
LEMMA FailBusyKeepsSound ==
    ASSUME IsTable(data), Sound, NEW m, FailBusy(m)
    PROVE  Sound'
<1> DEFINE one == DataIdWhenBusy(Here, m.buffer)
<1> DEFINE two == DataIdWhenBusy(one, m.text)
<1>1. Here = [data |-> Here.data, cache |-> Here.cache] /\ Here.data = data
  BY DEF Here
<1>2. one.data = data /\ one = [data |-> one.data, cache |-> one.cache]
  BY <1>1, BusyKeepsTable, LookupGrows
<1>3. Lookups(m, 2).data = two.data /\ Lookups(m, 2).cache = two.cache
  BY DEF Lookups
<1> HIDE DEF one
<1>4. two.data = data
  BY <1>2, BusyKeepsTable
<1> HIDE DEF two
<1>5. Agrees(Lookups(m, 2).data, Lookups(m, 2).cache)
  BY LookupsGrow DEF Sound
<1>6. data' = data /\ logs' = logs /\ dataCache' = Lookups(m, 2).cache
  BY DEF FailBusy, db
<1>7. QED
  BY <1>3, <1>4, <1>5, <1>6 DEF Sound

-----------------------------------------------------------------------------
(* The steps of the loop and of the retention task.                        *)

\* A round of the loop that finds a message.
LEMMA LoopTakes ==
    ASSUME NEW q \in Seq(Message), q # <<>>, NEW ticks, Loop(q, ticks)
    PROVE  /\ Head(q) \in Message
           /\ storeQueue' = Tail(q)
           /\ \/ /\ Head(q).kind = "ignored"
                 /\ UNCHANGED <<data, logs, dataCache, written, busies, errors>>
              \/ Write(Head(q))
              \/ WriteDamaged(Head(q))
              \/ RollBack(Head(q))
              \/ FailBusy(Head(q))
BY DEF Loop, db, trouble

LEMMA LoopIdles ==
    ASSUME NEW q \in Seq(Message), q = <<>>, NEW ticks, Loop(q, ticks)
    PROVE  UNCHANGED <<data, logs, dataCache, written, busies, errors>> /\ storeQueue' = <<>>
BY DEF Loop, db, trouble

LEMMA WritesCommit ==
    ASSUME NEW m, Write(m) \/ WriteDamaged(m)
    PROVE  /\ Commits(m)
           /\ UNCHANGED errors /\ (busies' = busies \/ busies' = busies + 1)
BY DEF Write, WriteDamaged, Commits, trouble

\* What a round of the loop may change.
StoreTypes ==
    /\ StringTypes(data, dataCache)
    /\ logs \subseteq Row /\ written \subseteq 1..MaxMsgs
    /\ storeQueue \in Seq(Message) /\ looping \in BOOLEAN /\ immediates \in Nat
    /\ busies \in Nat /\ errors \in Nat

\* What it leaves.
TaskTypes ==
    /\ phase \in {"off", "collect"} \cup Retained
    /\ bufs \subseteq Nat /\ deletedRows \subseteq Row
    /\ pushed \in Seq(Kinds) /\ dropped \subseteq 1..MaxMsgs /\ missed \subseteq Nat
    /\ {cleanups, restarts, deletes} \subseteq Nat

LEMMA TypesSplit == TypeOK <=> StoreTypes /\ TaskTypes
BY DEF TypeOK, StoreTypes, TaskTypes, StringTypes

LEMMA LoopTyped ==
    ASSUME IsTable(data), StoreTypes, NEW q \in Seq(Message), NEW ticks \in Nat, Loop(q, ticks)
    PROVE  StoreTypes'
<1>1. looping' \in BOOLEAN /\ immediates' \in Nat
  <2> DEFINE later == ticks + 1
  <2>1. later \in Nat
    OBVIOUS
  <2> HIDE DEF later
  <2>2. immediates' = ticks \/ immediates' = later
    BY Zenon DEF Loop, later
  <2>3. looping' = TRUE \/ looping' = FALSE
    BY Zenon DEF Loop
  <2>4. QED
    BY <2>1, <2>2, <2>3
<1>2. CASE q = <<>>
  BY <1>1, <1>2, LoopIdles DEF StoreTypes
<1>3. CASE q # <<>>
  <2> DEFINE m == Head(q)
  <2>1. m \in Message /\ storeQueue' = Tail(q)
    BY <1>3, LoopTakes
  <2>2. storeQueue' \in Seq(Message)
    BY <1>3, <2>1
  <2>3. \/ UNCHANGED <<data, logs, dataCache, written, busies, errors>>
        \/ Write(m) \/ WriteDamaged(m)
        \/ RollBack(m) \/ FailBusy(m)
    BY <1>3, LoopTakes
  <2> HIDE DEF m
  <2>4. CASE UNCHANGED <<data, logs, dataCache, written, busies, errors>>
    BY <1>1, <2>2, <2>4 DEF StoreTypes
  <2>5. CASE Write(m) \/ WriteDamaged(m)
    <3>1. Commits(m) /\ errors' = errors /\ busies' \in Nat
      BY <2>5, WritesCommit DEF StoreTypes
    <3>2. QED
      BY <1>1, <2>1, <2>2, <3>1, CommitTyped DEF StoreTypes
  <2>6. CASE RollBack(m) \/ FailBusy(m)
    <3>1. UNCHANGED <<logs, written>> /\ busies' \in Nat /\ errors' \in Nat
      BY <2>6 DEF RollBack, FailBusy, db, StoreTypes
    <3>2. StringTypes(data', dataCache')
      BY <2>1, <2>6, RefusedTyped DEF StoreTypes
    <3>3. QED
      BY <1>1, <2>2, <3>1, <3>2 DEF StoreTypes
  <2>7. QED
    BY <2>3, <2>4, <2>5, <2>6
<1>4. QED
  BY <1>2, <1>3

\* A round of the loop adds strings and rows, and deletes none.
LEMMA LoopGrows ==
    ASSUME IsTable(data), NEW q \in Seq(Message), NEW ticks, Loop(q, ticks)
    PROVE  /\ IsTable(data')
           /\ Keeps(data, data')
           /\ logs \subseteq logs'
           /\ \A i \in DOMAIN data' : i \in DOMAIN data \cup RefsOf(logs') \/ data'[i] = Null
<1>1. CASE UNCHANGED <<data, logs>>
  BY <1>1 DEF Keeps
<1>2. CASE q # <<>> /\ Commits(Head(q))
  BY <1>2, CommitGrows
<1>3. UNCHANGED <<data, logs>> \/ (q # <<>> /\ Commits(Head(q)))
  <2>1. CASE q = <<>>
    BY <2>1, LoopIdles
  <2>2. CASE q # <<>>
    BY <2>2, LoopTakes, WritesCommit DEF RollBack, FailBusy, db
  <2>3. QED
    BY <2>1, <2>2
<1>4. QED
  BY <1>1, <1>2, <1>3

\* What the retention task turns to next is a kind it is set for, or the
\* collection of strings.
LEMMA AfterIsRetained ==
    /\ \A k : After(k) \in Retained \cup {"collect"}
    /\ Retained # {} => After("off") \in Retained
BY StoreAssumption DEF After

\* One transaction of the deletion: rows of the table's buffers go, and are on
\* the list of the task, which does not end while that has any.
LEMMA BatchDeletes ==
    ASSUME NEW k \in Retained, NEW table, NEW found, DeleteBatch(k, table, found)
    PROVE  /\ logs' \subseteq logs
           /\ \A r \in logs \ logs' : r.bufferref \in table
           /\ deletedRows' = found \cup (logs \ logs')
           /\ phase' \in {"off", "collect"} \cup Retained
           /\ phase' = "off" => deletedRows' = {}
           /\ bufs' # {} => phase' = k /\ bufs' = table
           /\ bufs' \subseteq table
<1>1. PICK gone \in SUBSET {r \in logs : r.bufferref \in table} :
          /\ logs' = logs \ gone
          /\ deletedRows' = found \cup gone
          /\ \/ phase' = k /\ bufs' = table
             \/ /\ bufs' = {}
                /\ phase' = IF After(k) = "collect" /\ found \cup gone = {}
                               THEN "off" ELSE After(k)
  <2>1. PICK gone \in SUBSET {r \in logs : r.bufferref \in table} :
          /\ logs' = logs \ gone
          /\ deletedRows' = found \cup gone
          /\ IF Cardinality(gone) = BatchSize
                THEN phase' = k /\ bufs' = table
                ELSE /\ bufs' = {}
                     /\ phase' = IF After(k) = "collect" /\ found \cup gone = {}
                                    THEN "off" ELSE After(k)
    BY DEF DeleteBatch
  <2>2. QED
    BY <2>1
<1>2. logs \ logs' = gone
  BY <1>1
<1>3. k # "off" /\ After(k) # "off" /\ After(k) \in Retained \cup {"collect"}
  BY StoreAssumption, AfterIsRetained
<1>4. phase' \in {"off", "collect"} \cup Retained
  BY <1>1, <1>3
<1>5. phase' = "off" => deletedRows' = {}
  BY <1>1, <1>3
<1>6. QED
  BY <1>1, <1>2, <1>4, <1>5

\* A transaction of the task is one for a kind it is set for: the table names
\* its buffers and the list is the one found so far.
LEMMA BatchOf ==
    ASSUME TypeOK, BufsNameBuffers, OffIsDone, StartCleanup \/ NextBatch
    PROVE  \E k \in Retained : \E table \in SUBSET DOMAIN data :
               /\ \A i \in table : Names(k, data[i])
               /\ DeleteBatch(k, table, deletedRows)
<1>1. CASE StartCleanup
  <2>1. Retained # {} /\ deletedRows = {}
        /\ DeleteBatch(After("off"), BufferIds(After("off")), {})
    BY <1>1 DEF StartCleanup, OffIsDone
  <2>2. After("off") \in Retained
    BY <2>1, AfterIsRetained
  <2>3. BufferIds(After("off")) \in SUBSET DOMAIN data
        /\ \A i \in BufferIds(After("off")) : Names(After("off"), data[i])
    BY DEF BufferIds, Names
  <2>4. QED
    BY <2>1, <2>2, <2>3
<1>2. CASE NextBatch
  <2> DEFINE table == IF bufs = {} THEN BufferIds(phase) ELSE bufs
  <2>1. phase \in Retained
    BY <1>2 DEF NextBatch, TypeOK
  <2>2. table \in SUBSET DOMAIN data /\ \A i \in table : Names(phase, data[i])
    <3>1. CASE bufs = {}
      BY <3>1 DEF BufferIds, Names
    <3>2. CASE bufs # {}
      BY <3>2 DEF BufsNameBuffers
    <3>3. QED
      BY <3>1, <3>2
  <2>3. DeleteBatch(phase, table, deletedRows)
    BY <1>2 DEF NextBatch
  <2> HIDE DEF table
  <2>4. QED
    BY <2>1, <2>2, <2>3
<1>3. QED
  BY <1>1, <1>2

\* A chunk of the collection: what is removed from the table no row refers to,
\* and the chunk referred to it.
LEMMA CollectRemoves ==
    ASSUME IsTable(data), NEW chunk, Collect(chunk)
    PROVE  /\ IsTable(data')
           /\ DOMAIN data' = DOMAIN data \ (RefsOf(chunk) \ RefsOf(logs))
           /\ \A i \in DOMAIN data' : data'[i] = data[i]
           /\ dataCache' = Empty \/ (data' = data /\ dataCache' = dataCache)
           /\ missed \cap DOMAIN data' \subseteq missed' /\ missed' \subseteq missed
<1> DEFINE orphans == (RefsOf(chunk) \ RefsOf(logs)) \cap DOMAIN data
<1>1. /\ data' = Restrict(data, DOMAIN data \ orphans)
      /\ dataCache' = IF orphans # {} THEN Empty ELSE dataCache
      /\ missed' = missed \ orphans
  BY DEF Collect, Removed
<1>2. data' = [i \in DOMAIN data \ orphans |-> data[i]]
  BY <1>1 DEF Restrict
<1>3. DOMAIN data' = DOMAIN data \ orphans /\ \A i \in DOMAIN data' : data'[i] = data[i]
  BY <1>2
<1>4. data' = [i \in DOMAIN data' |-> data'[i]]
  BY <1>2
<1>5. IsTable(data')
  BY <1>3, <1>4 DEF IsTable
<1>6. orphans = {} => data' = data
  BY <1>2 DEF IsTable
<1>7. QED
  BY <1>1, <1>3, <1>5, <1>6

\* The rest of a chunk's step, whether its collection succeeds or not.
LEMMA ChunkIsTaken ==
    ASSUME NEW chunk, NextChunk(chunk)
    PROVE  /\ phase = "collect" /\ phase' \in {"off", "collect"}
           /\ deletedRows' = deletedRows \ chunk
           /\ phase' = "off" => deletedRows' = {}
           /\ UNCHANGED <<logs, bufs, storeQueue, looping, immediates, pushed, written,
                          dropped, errors, cleanups, restarts, deletes>>
BY DEF NextChunk, queueVars, bounds

-----------------------------------------------------------------------------
(* Types, and the table.                                                   *)

LEMMA RefsAreIds ==
    ASSUME NEW rows \in SUBSET Row
    PROVE  RefsOf(rows) \subseteq Nat
BY DEF RefsOf, Row

LEMMA TypesKept ==
    ASSUME TypeOK, IsTable(data), BufsNameBuffers, OffIsDone, [Next]_vars
    PROVE  TypeOK' /\ IsTable(data')
<1> USE DEF queueVars, cleanupVars, bounds, db, trouble
<1>0. StoreTypes /\ TaskTypes
  BY TypesSplit
<1>a. StoreTypes' /\ TaskTypes' => TypeOK'
  BY DEF TypeOK, StoreTypes, TaskTypes, StringTypes
<1>b. StringTypes(data, dataCache) /\ StringTypes(data, Empty)
  <2>1. Empty \in [{} -> Nat \ {0}] /\ DOMAIN Empty = {}
    BY DEF Empty
  <2>2. Empty \in [DOMAIN Empty -> Nat \ {0}]
    BY <2>1
  <2>3. QED
    BY <1>0, <2>1, <2>2 DEF StoreTypes, StringTypes
<1>1. ASSUME NEW q \in Seq(Message), NEW ticks \in Nat, Loop(q, ticks), TaskTypes'
      PROVE  TypeOK' /\ IsTable(data')
  BY <1>0, <1>a, <1>1, LoopTyped, LoopGrows
<1>2. ASSUME UNCHANGED <<data, dataCache, logs, written, errors>>, storeQueue' \in Seq(Message),
             looping' \in BOOLEAN, immediates' \in Nat, busies' \in Nat, TaskTypes'
      PROVE  TypeOK' /\ IsTable(data')
  <2>1. StoreTypes'
    BY <1>0, <1>2 DEF StoreTypes
  <2>2. QED
    BY <1>2, <1>a, <2>1
<1>3. ASSUME NEW m \in Message, StoreMessage(m)
      PROVE  TypeOK' /\ IsTable(data')
  <2>1. m.kind \in Kinds
    BY DEF Message
  <2>2. pushed' \in Seq(Kinds)
    BY <1>0, <1>3, <2>1, AppendProperties DEF StoreMessage, TaskTypes
  <2>3. TaskTypes'
    BY <1>0, <1>3, <2>2 DEF StoreMessage, TaskTypes
  <2>4. Append(storeQueue, m) \in Seq(Message)
    BY <1>0, AppendProperties DEF StoreTypes
  <2>5. CASE looping
    <3>1. storeQueue' = Append(storeQueue, m)
          /\ UNCHANGED <<data, logs, dataCache, looping, immediates, written, busies, errors>>
      BY <1>3, <2>5 DEF StoreMessage
    <3>2. QED
      BY <1>0, <1>2, <2>3, <2>4, <3>1 DEF StoreTypes
  <2>6. CASE ~looping
    <3>1. Loop(Append(storeQueue, m), immediates)
      BY <1>3, <2>6 DEF StoreMessage
    <3>2. QED
      BY <1>0, <1>1, <2>3, <2>4, <3>1 DEF StoreTypes
  <2>7. QED
    BY <2>5, <2>6
<1>4. CASE Immediate
  <2>1. TaskTypes' /\ immediates - 1 \in Nat
    BY <1>0, <1>4 DEF Immediate, TaskTypes, StoreTypes
  <2>2. CASE looping
    <3>1. immediates' = immediates - 1
          /\ UNCHANGED <<data, logs, dataCache, storeQueue, looping, written, busies, errors>>
      BY <1>4, <2>2 DEF Immediate
    <3>2. QED
      BY <1>0, <1>2, <2>1, <3>1 DEF StoreTypes
  <2>3. CASE ~looping
    <3>1. Loop(storeQueue, immediates - 1)
      BY <1>4, <2>3 DEF Immediate
    <3>2. QED
      BY <1>0, <1>1, <2>1, <3>1 DEF StoreTypes
  <2>4. QED
    BY <2>2, <2>3
<1>5. CASE Retry
  <2>1. TaskTypes' /\ Loop(storeQueue, immediates)
    BY <1>0, <1>5 DEF Retry, TaskTypes
  <2>2. QED
    BY <1>0, <1>1, <2>1 DEF StoreTypes
<1>6. CASE StartCleanup \/ NextBatch
  <2>1. PICK k \in Retained : \E table \in SUBSET DOMAIN data :
               DeleteBatch(k, table, deletedRows)
    BY <1>6, BatchOf
  <2>2. PICK table \in SUBSET DOMAIN data : DeleteBatch(k, table, deletedRows)
    BY <2>1
  <2>3. /\ logs' \subseteq logs /\ deletedRows' = deletedRows \cup (logs \ logs')
        /\ phase' \in {"off", "collect"} \cup Retained /\ bufs' \subseteq table
    BY <2>2, BatchDeletes
  <2>4. UNCHANGED <<data, dataCache, storeQueue, looping, immediates, pushed, written, dropped,
                    missed, busies, errors, restarts, deletes>> /\ (cleanups' = cleanups + 1 \/ cleanups' = cleanups)
    BY <1>6 DEF StartCleanup, NextBatch
  <2>5. logs' \subseteq Row /\ deletedRows' \subseteq Row /\ bufs' \subseteq Nat
    BY <1>0, <2>2, <2>3 DEF StoreTypes, TaskTypes, StringTypes
  <2>6. StoreTypes' /\ TaskTypes'
    <3>1. cleanups' \in Nat
      BY <1>0, <2>4 DEF TaskTypes
    <3>2. QED
      BY <1>0, <2>3, <2>4, <2>5, <3>1 DEF StoreTypes, TaskTypes
  <2>7. QED
    BY <1>a, <2>4, <2>6
<1>7. ASSUME NEW chunk \in SUBSET deletedRows, Collect(chunk)
      PROVE  TypeOK' /\ IsTable(data')
  <2>1. NextChunk(chunk) /\ busies' = busies /\ missed' \subseteq missed
    BY <1>7 DEF Collect, Removed
  <2>2. TaskTypes'
    BY <1>0, <2>1, ChunkIsTaken DEF TaskTypes
  <2>3. IsTable(data') /\ DOMAIN data' \subseteq DOMAIN data
        /\ (\A i \in DOMAIN data' : data'[i] = data[i])
        /\ (dataCache' = Empty \/ dataCache' = dataCache)
    BY <1>7, CollectRemoves
  <2>4. data' \in [DOMAIN data' -> Values \cup {Null}] /\ DOMAIN data' \subseteq Nat \ {0}
    <3>1. \A i \in DOMAIN data' : data'[i] \in Values \cup {Null}
      BY <1>b, <2>3 DEF StringTypes
    <3>2. data' = [i \in DOMAIN data' |-> data'[i]]
      BY <2>3 DEF IsTable
    <3>3. QED
      BY <1>b, <2>3, <3>1, <3>2 DEF StringTypes
  <2>5. StringTypes(data', dataCache')
    BY <1>b, <2>3, <2>4 DEF StringTypes
  <2>6. StoreTypes'
    BY <1>0, <2>1, <2>5, ChunkIsTaken DEF StoreTypes
  <2>7. QED
    BY <1>a, <2>2, <2>3, <2>6
<1>8. ASSUME NEW chunk \in SUBSET deletedRows, CollectFails(chunk)
      PROVE  TypeOK' /\ IsTable(data')
  <2>1. NextChunk(chunk) /\ busies' = busies + 1 /\ UNCHANGED <<data, dataCache>>
        /\ missed' = missed \cup RefsOf(chunk)
    BY <1>8 DEF CollectFails
  <2>2. TaskTypes'
    <3>1. chunk \subseteq Row
      BY <1>0 DEF TaskTypes
    <3>2. missed' \subseteq Nat
      BY <1>0, <2>1, <3>1, RefsAreIds DEF TaskTypes
    <3>3. QED
      BY <1>0, <2>1, <3>2, ChunkIsTaken DEF TaskTypes
  <2>3. busies' \in Nat
    BY <1>0, <2>1 DEF StoreTypes
  <2>4. QED
    BY <1>0, <1>2, <2>1, <2>2, <2>3, ChunkIsTaken DEF StoreTypes
<1>9. CASE BatchFails
  <2>1. /\ UNCHANGED <<data, logs, dataCache, storeQueue, looping, immediates, pushed, written,
                       dropped, errors, cleanups, restarts, deletes>>
        /\ busies' = busies + 1 /\ phase' = "off" /\ bufs' = {} /\ deletedRows' = {}
        /\ missed' = missed \cup RefsOf(deletedRows)
    BY <1>9 DEF BatchFails
  <2>2. dropped' = dropped
    BY <1>9 DEF BatchFails
  <2>3. RefsOf(deletedRows) \subseteq Nat
    BY <1>0, RefsAreIds DEF TaskTypes
  <2>4. busies' \in Nat
    BY <1>0, <2>1 DEF StoreTypes
  <2>5. TaskTypes'
    BY <1>0, <2>1, <2>2, <2>3 DEF TaskTypes
  <2>6. QED
    BY <1>0, <1>2, <2>1, <2>4, <2>5 DEF StoreTypes
<1>10. ASSUME NEW u \in Users, DeleteUser(u)
       PROVE  TypeOK' /\ IsTable(data')
  <2>1. /\ logs' \subseteq logs /\ deletes' = deletes + 1
        /\ missed' = missed \cup RefsOf(logs \ logs')
        /\ UNCHANGED <<data, dataCache, storeQueue, looping, immediates, phase, bufs,
                       deletedRows, pushed, written, dropped, busies, errors, cleanups, restarts>>
    BY <1>10 DEF DeleteUser
  <2>2. deletes' \in Nat /\ logs' \subseteq Row /\ logs \ logs' \subseteq Row
    BY <1>0, <2>1 DEF TaskTypes, StoreTypes
  <2>5. missed' \subseteq Nat
    BY <1>0, <2>1, <2>2, RefsAreIds DEF TaskTypes
  <2>3. StoreTypes' /\ TaskTypes'
    BY <1>0, <2>1, <2>2, <2>5 DEF TaskTypes, StoreTypes
  <2>4. QED
    BY <1>a, <2>1, <2>3
<1>11. CASE Restart
  <2>1. /\ dataCache' = Empty /\ storeQueue' = <<>> /\ looping' = FALSE /\ immediates' = 0
        /\ phase' = "off" /\ bufs' = {} /\ deletedRows' = {} /\ restarts' = restarts + 1
        /\ dropped' = dropped \cup Waiting /\ missed' = missed \cup RefsOf(deletedRows)
        /\ UNCHANGED <<data, logs, pushed, written, busies, errors, cleanups, deletes>>
    BY <1>11 DEF Restart
  <2>2. restarts' \in Nat /\ storeQueue' \in Seq(Message)
    BY <1>0, <2>1, EmptySeq DEF TaskTypes
  <2>5. missed' \subseteq Nat /\ dropped' \subseteq 1..MaxMsgs
    <3>1. \A i \in DOMAIN storeQueue : storeQueue[i] \in Message
      BY <1>0 DEF StoreTypes
    <3>2. Waiting \subseteq 1..MaxMsgs
      BY <3>1 DEF Waiting, Message
    <3>3. QED
      BY <1>0, <2>1, <3>2, RefsAreIds DEF TaskTypes
  <2>3. StoreTypes' /\ TaskTypes'
    BY <1>0, <1>b, <2>1, <2>2, <2>5 DEF TaskTypes, StoreTypes
  <2>4. QED
    BY <1>a, <2>1, <2>3
<1>12. CASE UNCHANGED vars
  BY <1>12 DEF vars, TypeOK
<1>13. QED
  BY <1>3, <1>4, <1>5, <1>6, <1>7, <1>8, <1>9, <1>10, <1>11, <1>12 DEF Next, Tasks

-----------------------------------------------------------------------------
(* What waits, and the retention task.                                     *)

\* A queue with a new message at its end, and a queue without its head.
LEMMA NumberedAppend ==
    ASSUME NEW q \in Seq(Message), NEW p \in Seq(Kinds), Numbered(q, p),
           NEW m \in Message, m.n = Len(p) + 1
    PROVE  /\ Append(q, m) \in Seq(Message)
           /\ Append(p, m.kind) \in Seq(Kinds)
           /\ Numbered(Append(q, m), Append(p, m.kind))
<1> DEFINE r == Append(q, m)
<1> DEFINE h == Append(p, m.kind)
<1>1. m.kind \in Kinds
  BY DEF Message
<1>2. /\ r \in Seq(Message) /\ DOMAIN r = 1..(Len(q) + 1) /\ DOMAIN q = 1..Len(q)
      /\ \A i \in DOMAIN r : IF i = Len(q) + 1 THEN r[i] = m ELSE i \in DOMAIN q /\ r[i] = q[i]
  <2>1. r \in Seq(Message) /\ Len(r) = Len(q) + 1 /\ Len(q) \in Nat
    BY AppendProperties, LenProperties
  <2>2. DOMAIN r = 1..(Len(q) + 1) /\ DOMAIN q = 1..Len(q)
    BY <2>1
  <2>3. QED
    BY <2>1, <2>2, AppendProperties
<1>3. /\ h \in Seq(Kinds) /\ Len(p) + 1 \in DOMAIN h /\ h[Len(p) + 1] = m.kind
      /\ \A i \in DOMAIN p : i \in DOMAIN h /\ h[i] = p[i]
  <2>1. h \in Seq(Kinds) /\ Len(h) = Len(p) + 1 /\ Len(p) \in Nat
    BY <1>1, AppendProperties, LenProperties
  <2>2. DOMAIN h = 1..(Len(p) + 1) /\ DOMAIN p = 1..Len(p)
    BY <2>1
  <2>3. QED
    BY <1>1, <2>1, <2>2, AppendProperties
<1> HIDE DEF r, h
<1>4. ASSUME NEW i \in DOMAIN r
      PROVE  r[i].n \in DOMAIN h /\ h[r[i].n] = r[i].kind
  <2>1. CASE i = Len(q) + 1
    BY <1>2, <1>3, <2>1
  <2>2. CASE i # Len(q) + 1
    BY <1>2, <1>3, <2>2 DEF Numbered
  <2>3. QED
    BY <2>1, <2>2
<1>5. QED
  BY <1>2, <1>3, <1>4 DEF Numbered, r, h

LEMMA NumberedTail ==
    ASSUME NEW q \in Seq(Message), q # <<>>, NEW p, Numbered(q, p)
    PROVE  /\ Tail(q) \in Seq(Message)
           /\ Numbered(Tail(q), p)
           /\ Head(q).n \in DOMAIN p /\ p[Head(q).n] = Head(q).kind
<1>1. /\ Tail(q) \in Seq(Message)
      /\ \A i \in DOMAIN Tail(q) : i + 1 \in DOMAIN q /\ Tail(q)[i] = q[i + 1]
  OBVIOUS
<1>2. 1 \in DOMAIN q /\ Head(q) = q[1]
  OBVIOUS
<1>3. QED
  BY <1>1, <1>2 DEF Numbered

\* A round of the loop leaves a queue numbered as it found it.
LEMMA LoopNumbered ==
    ASSUME NEW q \in Seq(Message), NEW p, Numbered(q, p), NEW ticks, Loop(q, ticks)
    PROVE  Numbered(storeQueue', p)
<1>1. CASE q = <<>>
  <2>1. storeQueue' = q
    BY <1>1, LoopIdles
  <2>2. QED
    BY <2>1
<1>2. CASE q # <<>>
  BY <1>2, LoopTakes, NumberedTail
<1>3. QED
  BY <1>1, <1>2

LEMMA NumberedKept ==
    ASSUME TypeOK, Numbered(storeQueue, pushed), [Next]_vars
    PROVE  Numbered(storeQueue', pushed')
<1> USE DEF queueVars, cleanupVars, bounds, db, trouble
<1>0. storeQueue \in Seq(Message) /\ pushed \in Seq(Kinds)
  BY DEF TypeOK
<1>1. ASSUME NEW m \in Message, StoreMessage(m)
      PROVE  Numbered(storeQueue', pushed')
  <2> DEFINE q == Append(storeQueue, m)
  <2>1. m.n = Len(pushed) + 1 /\ pushed' = Append(pushed, m.kind)
        /\ (storeQueue' = q \/ Loop(q, immediates))
    BY <1>1 DEF StoreMessage
  <2>2. q \in Seq(Message) /\ Numbered(q, pushed')
    BY <1>0, <2>1, NumberedAppend
  <2> HIDE DEF q
  <2>3. QED
    BY <2>1, <2>2, LoopNumbered
<1>2. CASE Immediate \/ Retry
  <2>1. pushed' = pushed
    BY <1>2 DEF Immediate, Retry
  <2>2. storeQueue' = storeQueue \/ (\E ticks : Loop(storeQueue, ticks))
    BY <1>2 DEF Immediate, Retry
  <2>3. QED
    BY <1>0, <2>1, <2>2, LoopNumbered
<1>3. ASSUME UNCHANGED <<storeQueue, pushed>>
      PROVE  Numbered(storeQueue', pushed')
  BY <1>3
<1>4. ASSUME NEW chunk, NextChunk(chunk)
      PROVE  Numbered(storeQueue', pushed')
  BY <1>4, <1>3, ChunkIsTaken
<1>5. CASE Restart
  <2>1. storeQueue' = <<>> /\ DOMAIN <<>> = {}
    BY <1>5 DEF Restart
  <2>2. QED
    BY <2>1 DEF Numbered
<1>6. CASE NextBatch \/ StartCleanup \/ BatchFails \/ (\E u \in Users : DeleteUser(u))
  BY <1>3, <1>6 DEF NextBatch, StartCleanup, BatchFails, DeleteUser
<1>7. CASE UNCHANGED vars
  BY <1>3, <1>7 DEF vars
<1>8. QED
  BY <1>1, <1>2, <1>4, <1>5, <1>6, <1>7 DEF Next, Tasks, Collect, CollectFails

LEMMA TaskKept ==
    ASSUME TypeOK, IsTable(data), BufsNameBuffers, OffIsDone, [Next]_vars
    PROVE  BufsNameBuffers' /\ OffIsDone'
<1> USE DEF queueVars, cleanupVars, bounds, db, trouble
<1>0. storeQueue \in Seq(Message)
  BY DEF TypeOK
<1>1. ASSUME NEW q \in Seq(Message), NEW ticks, Loop(q, ticks), UNCHANGED <<phase, bufs, deletedRows>>
      PROVE  BufsNameBuffers' /\ OffIsDone'
  <2>1. Keeps(data, data')
    BY <1>1, LoopGrows
  <2>2. QED
    BY <1>1, <2>1 DEF BufsNameBuffers, OffIsDone, Keeps
<1>2. ASSUME UNCHANGED <<data, phase, bufs, deletedRows>>
      PROVE  BufsNameBuffers' /\ OffIsDone'
  BY <1>2 DEF BufsNameBuffers, OffIsDone
<1>3. ASSUME NEW m \in Message, StoreMessage(m)
      PROVE  BufsNameBuffers' /\ OffIsDone'
  <2>1. Append(storeQueue, m) \in Seq(Message)
    BY <1>0, AppendProperties
  <2>2. /\ UNCHANGED <<phase, bufs, deletedRows>>
        /\ data' = data \/ Loop(Append(storeQueue, m), immediates)
    BY <1>3 DEF StoreMessage
  <2>3. QED
    BY <1>1, <1>2, <2>1, <2>2
<1>4. CASE Immediate \/ Retry
  <2>1. /\ UNCHANGED <<phase, bufs, deletedRows>>
        /\ data' = data \/ \E ticks : Loop(storeQueue, ticks)
    BY <1>4 DEF Immediate, Retry
  <2>2. QED
    BY <1>0, <1>1, <1>2, <2>1
<1>5. CASE StartCleanup \/ NextBatch
  <2>1. PICK k \in Retained : \E table \in SUBSET DOMAIN data :
               /\ \A i \in table : Names(k, data[i])
               /\ DeleteBatch(k, table, deletedRows)
    BY <1>5, BatchOf
  <2>2. PICK table \in SUBSET DOMAIN data :
               /\ \A i \in table : Names(k, data[i])
               /\ DeleteBatch(k, table, deletedRows)
    BY <2>1
  <2>3. /\ phase' = "off" => deletedRows' = {}
        /\ bufs' # {} => phase' = k /\ bufs' = table
    BY <2>2, BatchDeletes
  <2>4. data' = data
    BY <1>5 DEF StartCleanup, NextBatch
  <2>5. QED
    BY <2>2, <2>3, <2>4 DEF BufsNameBuffers, OffIsDone
<1>6. ASSUME NEW chunk, NextChunk(chunk)
      PROVE  BufsNameBuffers' /\ OffIsDone'
  <2>1. bufs = {} /\ bufs' = {}
    <3>1. "collect" \notin Retained
      BY StoreAssumption
    <3>2. QED
      BY <1>6, <3>1, ChunkIsTaken DEF BufsNameBuffers
  <2>2. QED
    BY <1>6, <2>1, ChunkIsTaken DEF BufsNameBuffers, OffIsDone
<1>7. CASE BatchFails \/ Restart
  BY <1>7 DEF BatchFails, Restart, BufsNameBuffers, OffIsDone
<1>8. CASE \E u \in Users : DeleteUser(u)
  BY <1>2, <1>8 DEF DeleteUser
<1>9. CASE UNCHANGED vars
  BY <1>2, <1>9 DEF vars
<1>10. QED
  BY <1>3, <1>4, <1>5, <1>6, <1>7, <1>8, <1>9 DEF Next, Tasks, Collect, CollectFails

-----------------------------------------------------------------------------
(* The cache and the rows.                                                 *)

\* A round of the loop keeps the cache and the rows sound, unless it rolls a transaction
\* back.
LEMMA LoopKeepsSound ==
    ASSUME TypeOK, IsTable(data), NoneRolledBack => Sound, NEW q \in Seq(Message), NEW ticks,
           Loop(q, ticks), errors' = 0
    PROVE  Sound'
<1>0. errors \in Nat
  BY DEF TypeOK
<1>1. ASSUME UNCHANGED <<data, logs, dataCache, errors>>
      PROVE  Sound'
  BY <1>1 DEF Sound, NoneRolledBack
<1>2. CASE q = <<>>
  BY <1>1, <1>2, LoopIdles
<1>3. CASE q # <<>>
  <2> DEFINE m == Head(q)
  <2> HIDE DEF m
  <2>1. \/ UNCHANGED <<data, logs, dataCache, errors>>
        \/ Commits(m) /\ errors' = errors
        \/ RollBack(m)
        \/ FailBusy(m)
    BY <1>3, LoopTakes, WritesCommit DEF m
  <2>2. ~RollBack(m)
    BY <1>0 DEF RollBack
  <2>3. errors = 0
    BY <2>1, <2>2 DEF FailBusy
  <2>4. QED
    BY <1>1, <2>1, <2>2, <2>3, CommitKeepsSound, FailBusyKeepsSound DEF NoneRolledBack
<1>4. QED
  BY <1>2, <1>3

\* Rows may go, and the cache be emptied, at any time.
LEMMA LessIsSound ==
    ASSUME Sound, data' = data, logs' \subseteq logs,
           dataCache' = dataCache \/ dataCache' = Empty
    PROVE  Sound'
<1>1. Agrees(data, dataCache')
  <2>1. CASE dataCache' = dataCache
    BY <2>1 DEF Sound
  <2>2. CASE dataCache' = Empty
    BY <2>2 DEF Agrees, Empty
  <2>3. QED
    BY <2>1, <2>2
<1>2. QED
  BY <1>1 DEF Sound

\* The collection of strings removes none a row refers to, and empties a cache
\* that could know a removed one.
LEMMA CollectKeepsSound ==
    ASSUME IsTable(data), Sound, NEW chunk, Collect(chunk)
    PROVE  Sound'
<1>1. /\ DOMAIN data' = DOMAIN data \ (RefsOf(chunk) \ RefsOf(logs))
      /\ \A i \in DOMAIN data' : data'[i] = data[i]
      /\ dataCache' = Empty \/ (data' = data /\ dataCache' = dataCache)
      /\ logs' = logs
  BY CollectRemoves DEF Collect, NextChunk
<1>2. Agrees(data', dataCache')
  <2>1. CASE dataCache' = Empty
    BY <2>1 DEF Agrees, Empty
  <2>2. CASE data' = data /\ dataCache' = dataCache
    BY <2>2 DEF Sound
  <2>3. QED
    BY <1>1, <2>1, <2>2
<1>3. ASSUME NEW r \in logs
      PROVE  RowReads(data', r)
  <2>1. r.bufferref \in RefsOf(logs) /\ r.dataref \in RefsOf(logs)
    BY DEF RefsOf
  <2>2. RowReads(data, r)
    BY DEF Sound
  <2>3. /\ r.bufferref # 0 => r.bufferref \in DOMAIN data'
        /\ r.dataref # 0 => r.dataref \in DOMAIN data'
    BY <1>1, <2>1, <2>2 DEF RowReads
  <2>4. QED
    BY <1>1, <2>2, <2>3 DEF RowReads
<1>4. QED
  BY <1>1, <1>2, <1>3 DEF Sound

LEMMA SoundKept ==
    ASSUME TypeOK, IsTable(data), NoneRolledBack => Sound, [Next]_vars
    PROVE  (NoneRolledBack => Sound)'
<1> SUFFICES ASSUME errors' = 0 PROVE Sound'
  BY DEF NoneRolledBack
<1> USE DEF queueVars, cleanupVars, bounds, db, trouble
<1>0. storeQueue \in Seq(Message)
  BY DEF TypeOK
<1>a. errors' = errors => Sound
  BY DEF NoneRolledBack
<1>1. ASSUME NEW m \in Message, StoreMessage(m)
      PROVE  Sound'
  <2> DEFINE q == Append(storeQueue, m)
  <2>1. UNCHANGED <<data, logs, dataCache, errors>> \/ Loop(q, immediates)
    BY <1>1 DEF StoreMessage
  <2>2. q \in Seq(Message)
    BY <1>0, AppendProperties
  <2> HIDE DEF q
  <2>3. QED
    BY <1>a, <2>1, <2>2, LoopKeepsSound, LessIsSound
<1>2. CASE Immediate \/ Retry
  <2>1. UNCHANGED <<data, logs, dataCache, errors>> \/ \E ticks : Loop(storeQueue, ticks)
    BY <1>2 DEF Immediate, Retry
  <2>2. QED
    BY <1>0, <1>a, <2>1, LoopKeepsSound, LessIsSound
<1>3. CASE NextBatch \/ StartCleanup
  <2>1. logs' \subseteq logs
    BY <1>3 DEF NextBatch, StartCleanup, DeleteBatch
  <2>2. UNCHANGED <<data, dataCache, errors>>
    BY <1>3 DEF NextBatch, StartCleanup
  <2>3. QED
    BY <1>a, <2>1, <2>2, LessIsSound
<1>4. ASSUME NEW chunk, Collect(chunk)
      PROVE  Sound'
  BY <1>a, <1>4, CollectKeepsSound DEF Collect, NextChunk
<1>5. ASSUME NEW chunk, CollectFails(chunk)
      PROVE  Sound'
  BY <1>a, <1>5, LessIsSound DEF CollectFails, NextChunk
<1>6. CASE BatchFails \/ Restart \/ \E u \in Users : DeleteUser(u)
  BY <1>a, <1>6, LessIsSound DEF BatchFails, Restart, DeleteUser
<1>7. CASE UNCHANGED vars
  BY <1>a, <1>7, LessIsSound DEF vars
<1>8. QED
  BY <1>1, <1>2, <1>3, <1>4, <1>5, <1>6, <1>7 DEF Next, Tasks

-----------------------------------------------------------------------------
(* Strings no row refers to.                                               *)

LEMMA RefsUnion ==
    ASSUME NEW R, NEW S
    PROVE  RefsOf(R \cup S) = RefsOf(R) \cup RefsOf(S)
BY DEF RefsOf

LEMMA RefsMonotone ==
    ASSUME NEW R, NEW S, R \subseteq S
    PROVE  RefsOf(R) \subseteq RefsOf(S)
BY DEF RefsOf

LEMMA ListedKept ==
    ASSUME TypeOK, IsTable(data), BufsNameBuffers, OffIsDone, CollectsOrphans, [Next]_vars
    PROVE  CollectsOrphans'
<1> USE DEF queueVars, cleanupVars, bounds, db, trouble
<1>0. storeQueue \in Seq(Message)
  BY DEF TypeOK
<1>a. \A i \in DOMAIN data :
          data[i] = Null \/ i \in RefsOf(logs) \cup RefsOf(deletedRows) \cup missed
  BY DEF CollectsOrphans
<1>1. ASSUME NEW q \in Seq(Message), NEW ticks, Loop(q, ticks), UNCHANGED <<deletedRows, missed>>
      PROVE  CollectsOrphans'
  <2>1. /\ logs \subseteq logs' /\ Keeps(data, data')
        /\ \A i \in DOMAIN data' : i \in DOMAIN data \cup RefsOf(logs') \/ data'[i] = Null
    BY <1>1, LoopGrows
  <2>2. RefsOf(logs) \subseteq RefsOf(logs')
    BY <2>1, RefsMonotone
  <2>3. QED
    BY <1>1, <1>a, <2>1, <2>2 DEF CollectsOrphans, Keeps
<1>2. ASSUME UNCHANGED data,
             RefsOf(logs) \cup RefsOf(deletedRows) \cup missed
                 \subseteq RefsOf(logs') \cup RefsOf(deletedRows') \cup missed'
      PROVE  CollectsOrphans'
  BY <1>a, <1>2 DEF CollectsOrphans
<1>3. ASSUME NEW m \in Message, StoreMessage(m)
      PROVE  CollectsOrphans'
  <2>1. Append(storeQueue, m) \in Seq(Message)
    BY <1>0, AppendProperties
  <2>2. /\ UNCHANGED <<deletedRows, missed>>
        /\ UNCHANGED <<data, logs>> \/ Loop(Append(storeQueue, m), immediates)
    BY <1>3 DEF StoreMessage
  <2>3. QED
    BY <1>1, <1>2, <2>1, <2>2
<1>4. CASE Immediate \/ Retry
  <2>1. /\ UNCHANGED <<deletedRows, missed>>
        /\ UNCHANGED <<data, logs>> \/ \E ticks : Loop(storeQueue, ticks)
    BY <1>4 DEF Immediate, Retry
  <2>2. QED
    BY <1>0, <1>1, <1>2, <2>1
<1>5. CASE StartCleanup \/ NextBatch
  <2>1. PICK k \in Retained : \E table \in SUBSET DOMAIN data :
               DeleteBatch(k, table, deletedRows)
    BY <1>5, BatchOf
  <2>2. PICK table \in SUBSET DOMAIN data : DeleteBatch(k, table, deletedRows)
    BY <2>1
  <2>3. logs' \subseteq logs /\ deletedRows' = deletedRows \cup (logs \ logs')
    BY <2>2, BatchDeletes
  <2>4. data' = data /\ missed' = missed
    BY <1>5 DEF StartCleanup, NextBatch
  <2>5. logs \cup deletedRows = logs' \cup deletedRows'
    BY <2>3
  <2>6. RefsOf(logs \cup deletedRows) = RefsOf(logs' \cup deletedRows')
    BY <2>5
  <2>7. /\ RefsOf(logs \cup deletedRows) = RefsOf(logs) \cup RefsOf(deletedRows)
        /\ RefsOf(logs' \cup deletedRows') = RefsOf(logs') \cup RefsOf(deletedRows')
    BY RefsUnion
  <2>8. QED
    BY <1>2, <2>4, <2>6, <2>7
<1>6. ASSUME NEW chunk \in SUBSET deletedRows, NextChunk(chunk)
      PROVE  /\ logs' = logs
             /\ RefsOf(deletedRows) = RefsOf(deletedRows') \cup RefsOf(chunk)
  <2>1. logs' = logs /\ deletedRows' = deletedRows \ chunk
    BY <1>6, ChunkIsTaken
  <2>2. deletedRows = deletedRows' \cup chunk
    BY <2>1
  <2>3. QED
    BY <2>1, <2>2, RefsUnion
<1>7. ASSUME NEW chunk \in SUBSET deletedRows, Collect(chunk)
      PROVE  CollectsOrphans'
  <2>1. /\ logs' = logs /\ RefsOf(deletedRows) = RefsOf(deletedRows') \cup RefsOf(chunk)
        /\ DOMAIN data' = DOMAIN data \ (RefsOf(chunk) \ RefsOf(logs))
        /\ \A i \in DOMAIN data' : data'[i] = data[i]
        /\ missed \cap DOMAIN data' \subseteq missed'
    BY <1>6, <1>7, CollectRemoves DEF Collect
  <2>2. QED
    BY <1>a, <2>1 DEF CollectsOrphans
<1>8. ASSUME NEW chunk \in SUBSET deletedRows, CollectFails(chunk)
      PROVE  CollectsOrphans'
  BY <1>2, <1>6, <1>8 DEF CollectFails
<1>9. CASE BatchFails \/ Restart
  <2>1. UNCHANGED <<data, logs>> /\ missed' = missed \cup RefsOf(deletedRows)
    BY <1>9 DEF BatchFails, Restart
  <2>2. QED
    BY <1>2, <2>1
<1>10. ASSUME NEW u \in Users, DeleteUser(u)
       PROVE  CollectsOrphans'
  <2>1. /\ UNCHANGED <<data, deletedRows>> /\ logs' \subseteq logs
        /\ missed' = missed \cup RefsOf(logs \ logs')
    BY <1>10 DEF DeleteUser
  <2>2. logs = logs' \cup (logs \ logs')
    BY <2>1
  <2>3. RefsOf(logs) = RefsOf(logs') \cup RefsOf(logs \ logs')
    BY <2>2, RefsUnion
  <2>4. QED
    BY <1>2, <2>1, <2>3
<1>11. CASE UNCHANGED vars
  BY <1>2, <1>11 DEF vars
<1>12. QED
  BY <1>3, <1>4, <1>5, <1>7, <1>8, <1>9, <1>10, <1>11 DEF Next, Tasks

-----------------------------------------------------------------------------
(* Messages lost.                                                          *)

\* The messages of history p that should be written and neither are nor wait.
LostOf(p, w, q) ==
    {i \in DOMAIN p : p[i] # "ignored"} \ (w \cup {q[i].n : i \in DOMAIN q})

\* What is lost when nothing is added to the loss, and when one message is.
LEMMA LossCounted ==
    ASSUME NEW S, IsFiniteSet(S), NEW b \in Nat, Cardinality(S) <= b
    PROVE  /\ \A T \in SUBSET S : Cardinality(T) <= b
           /\ \A x : \A T \in SUBSET (S \cup {x}) : Cardinality(T) <= b + 1
<1>1. ASSUME NEW T \in SUBSET S
      PROVE  Cardinality(T) <= b
  <2>1. Cardinality(T) <= Cardinality(S) /\ IsFiniteSet(T)
    BY FS_Subset
  <2>2. Cardinality(T) \in Nat /\ Cardinality(S) \in Nat
    BY <2>1, FS_CardinalityType
  <2>3. QED
    BY <2>1, <2>2
<1>2. ASSUME NEW x, NEW T \in SUBSET (S \cup {x})
      PROVE  Cardinality(T) <= b + 1
  <2>1. /\ IsFiniteSet(S \cup {x})
        /\ Cardinality(S \cup {x}) = IF x \in S THEN Cardinality(S) ELSE Cardinality(S) + 1
    BY FS_AddElement
  <2>2. Cardinality(T) <= Cardinality(S \cup {x}) /\ IsFiniteSet(T)
    BY <2>1, FS_Subset
  <2>3. Cardinality(T) \in Nat /\ Cardinality(S) \in Nat
    BY <2>2, FS_CardinalityType
  <2>4. QED
    BY <2>1, <2>2, <2>3
<1>3. QED
  BY <1>1, <1>2

\* A queue without its head waits for one message less.
LEMMA TailWaits ==
    ASSUME NEW q \in Seq(Message), q # <<>>
    PROVE  {q[i].n : i \in DOMAIN q} \subseteq {Tail(q)[i].n : i \in DOMAIN Tail(q)} \cup {Head(q).n}
<1>1. \A i \in DOMAIN q : i = 1 \/ (i - 1 \in DOMAIN Tail(q) /\ Tail(q)[i - 1] = q[i])
  OBVIOUS
<1>2. Head(q) = q[1]
  OBVIOUS
<1>3. QED
  BY <1>1, <1>2

\* A round of the loop loses at most the message it takes, and that one only
\* to a busy database or to a transaction that fails.
LEMMA LoopLoses ==
    ASSUME TypeOK, IsTable(data), NEW q \in Seq(Message), NEW p, Numbered(q, p), NEW ticks,
           Loop(q, ticks)
    PROVE  \/ /\ busies' + errors' = busies + errors
              /\ LostOf(p, written', storeQueue') \subseteq LostOf(p, written, q)
           \/ /\ busies' + errors' = busies + errors + 1
              /\ \E x : LostOf(p, written', storeQueue') \subseteq LostOf(p, written, q) \cup {x}
<1>0. busies \in Nat /\ errors \in Nat /\ StringTypes(data, dataCache)
  BY DEF TypeOK, StringTypes
<1>1. CASE q = <<>>
  BY <1>1, LoopIdles DEF LostOf
<1>2. CASE q # <<>>
  <2> DEFINE m == Head(q)
  <2>1. storeQueue' = Tail(q) /\ m.n \in DOMAIN p /\ p[m.n] = m.kind /\ m \in Message
    BY <1>2, LoopTakes, NumberedTail
  <2>2. \/ m.kind = "ignored" /\ UNCHANGED <<written, busies, errors>>
        \/ Write(m) \/ WriteDamaged(m) \/ RollBack(m) \/ FailBusy(m)
    BY <1>2, LoopTakes
  <2>3. {q[i].n : i \in DOMAIN q}
          \subseteq {storeQueue'[i].n : i \in DOMAIN storeQueue'} \cup {m.n}
    BY <1>2, <2>1, TailWaits
  <2> HIDE DEF m
  <2>4. CASE m.kind = "ignored" /\ UNCHANGED <<written, busies, errors>>
    BY <2>1, <2>3, <2>4 DEF LostOf
  <2>5. CASE Write(m)
    <3>1. Whole(Lookups(m, 0).row) /\ Lookups(m, 0).row.n = m.n
      BY <1>0, <2>1, LookupsTyped
    <3>2. written' = written \cup {m.n} /\ UNCHANGED <<busies, errors>>
      BY <2>5, <3>1 DEF Write, Commit, trouble
    <3>3. QED
      BY <2>3, <3>2 DEF LostOf
  <2>6. CASE WriteDamaged(m) \/ RollBack(m) \/ FailBusy(m)
    <3>1. /\ written \subseteq written'
          /\ \/ busies' = busies + 1 /\ errors' = errors
             \/ busies' = busies /\ errors' = errors + 1
      BY <2>6 DEF WriteDamaged, Commit, RollBack, FailBusy
    <3>2. LostOf(p, written', storeQueue') \subseteq LostOf(p, written, q) \cup {m.n}
      BY <2>3, <3>1 DEF LostOf
    <3>3. busies' + errors' = busies + errors + 1
      BY <1>0, <3>1
    <3>4. QED
      BY <3>2, <3>3
  <2>7. QED
    BY <2>2, <2>4, <2>5, <2>6
<1>3. QED
  BY <1>1, <1>2

LEMMA PaidKept ==
    ASSUME TypeOK, IsTable(data), Numbered(storeQueue, pushed), AtMostOneLostPerBusy, [Next]_vars
    PROVE  AtMostOneLostPerBusy'
<1> USE DEF queueVars, cleanupVars, bounds, db, trouble
<1> DEFINE L == LostOf(pushed, written, storeQueue) \ dropped
<1> DEFINE b == busies + errors
<1>0. /\ storeQueue \in Seq(Message) /\ pushed \in Seq(Kinds)
      /\ busies \in Nat /\ errors \in Nat /\ b \in Nat
  BY DEF TypeOK
<1>a. AtMostOneLostPerBusy <=> Cardinality(L) <= b
  <2>1. ToWrite \ (written \cup Waiting \cup dropped) = L
    BY DEF LostOf, ToWrite, Waiting
  <2>2. QED
    BY <2>1 DEF AtMostOneLostPerBusy
<1>b. ASSUME Cardinality(LostOf(pushed', written', storeQueue') \ dropped') <= busies' + errors'
      PROVE  AtMostOneLostPerBusy'
  <2>1. (ToWrite \ (written \cup Waiting \cup dropped))'
            = LostOf(pushed', written', storeQueue') \ dropped'
    BY DEF LostOf, ToWrite, Waiting
  <2>2. QED
    BY <1>b, <2>1 DEF AtMostOneLostPerBusy
<1>c. IsFiniteSet(L)
  <2>1. DOMAIN pushed = 1..Len(pushed) /\ Len(pushed) \in Nat
    BY <1>0
  <2>2. IsFiniteSet(DOMAIN pushed)
    BY <2>1, FS_Interval
  <2>3. QED
    BY <2>2, FS_Subset DEF LostOf
<1>d. /\ \A T \in SUBSET L : Cardinality(T) <= b
      /\ \A x : \A T \in SUBSET (L \cup {x}) : Cardinality(T) <= b + 1
  <2>1. Cardinality(L) <= b
    BY <1>a
  <2> HIDE DEF L, b
  <2>2. QED
    BY <1>0, <1>c, <2>1, LossCounted
<1>1. ASSUME NEW q \in Seq(Message), Numbered(q, pushed'), NEW ticks, Loop(q, ticks),
             LostOf(pushed', written, q) \ dropped \subseteq L, dropped' = dropped
      PROVE  AtMostOneLostPerBusy'
  <2> DEFINE T == LostOf(pushed', written', storeQueue') \ dropped'
  <2>1. \/ busies' + errors' = b /\ T \subseteq LostOf(pushed', written, q) \ dropped
        \/ busies' + errors' = b + 1 /\ \E x : T \subseteq (LostOf(pushed', written, q) \ dropped) \cup {x}
    BY <1>1, LoopLoses
  <2> HIDE DEF T, L, b
  <2>2. CASE busies' + errors' = b /\ T \subseteq LostOf(pushed', written, q) \ dropped
    <3>1. T \in SUBSET L
      BY <1>1, <2>2
    <3>2. Cardinality(T) <= busies' + errors'
      BY <1>d, <2>2, <3>1
    <3>3. QED
      BY <1>b, <3>2 DEF T
  <2>3. CASE busies' + errors' = b + 1 /\ \E x : T \subseteq (LostOf(pushed', written, q) \ dropped) \cup {x}
    <3>1. PICK x : T \subseteq (LostOf(pushed', written, q) \ dropped) \cup {x}
      BY <2>3
    <3>2. T \in SUBSET (L \cup {x})
      BY <1>1, <3>1
    <3>3. Cardinality(T) <= busies' + errors'
      BY <1>d, <2>3, <3>2
    <3>4. QED
      BY <1>b, <3>3 DEF T
  <2>4. QED
    BY <2>1, <2>2, <2>3
<1>2. ASSUME LostOf(pushed', written', storeQueue') \ dropped' \subseteq L, errors' = errors,
             busies' = busies \/ busies' = busies + 1
      PROVE  AtMostOneLostPerBusy'
  <2> DEFINE T == LostOf(pushed', written', storeQueue') \ dropped'
  <2>0. busies' + errors' = b \/ busies' + errors' = b + 1
    BY <1>0, <1>2
  <2>1. T \in SUBSET L /\ T \in SUBSET (L \cup {0})
    BY <1>2
  <2> HIDE DEF T, L, b
  <2>2. Cardinality(T) <= b /\ Cardinality(T) <= b + 1
    BY <1>d, <2>1
  <2>3. Cardinality(T) <= busies' + errors'
    BY <2>0, <2>2
  <2>4. QED
    BY <1>b, <2>3 DEF T
<1>3. ASSUME NEW m \in Message, StoreMessage(m)
      PROVE  AtMostOneLostPerBusy'
  <2> DEFINE q == Append(storeQueue, m)
  <2>1. /\ m.n = Len(pushed) + 1 /\ pushed' = Append(pushed, m.kind)
        /\ dropped' = dropped
        /\ \/ storeQueue' = q /\ UNCHANGED <<written, busies, errors>>
           \/ Loop(q, immediates)
    BY <1>3 DEF StoreMessage
  <2>2. q \in Seq(Message) /\ Numbered(q, pushed')
    BY <1>0, <2>1, NumberedAppend
  <2>3. LostOf(pushed', written, q) \ dropped \subseteq L
    <3>1. /\ \A i \in DOMAIN storeQueue : i \in DOMAIN q /\ q[i] = storeQueue[i]
          /\ Len(storeQueue) + 1 \in DOMAIN q /\ q[Len(storeQueue) + 1] = m
      BY <1>0
    <3>2. \A i \in DOMAIN pushed' : i = m.n \/ (i \in DOMAIN pushed /\ pushed[i] = pushed'[i])
      BY <1>0, <2>1
    <3> HIDE DEF q
    <3>3. {storeQueue[i].n : i \in DOMAIN storeQueue} \cup {m.n} \subseteq {q[i].n : i \in DOMAIN q}
      BY <3>1
    <3>4. QED
      BY <3>2, <3>3 DEF LostOf
  <2> HIDE DEF q, L
  <2>4. QED
    BY <1>1, <1>2, <2>1, <2>2, <2>3
<1>4. CASE Immediate \/ Retry
  <2>1. /\ pushed' = pushed /\ dropped' = dropped
        /\ \/ UNCHANGED <<storeQueue, written, busies, errors>>
           \/ \E ticks : Loop(storeQueue, ticks)
    BY <1>4 DEF Immediate, Retry
  <2>2. Numbered(storeQueue, pushed') /\ LostOf(pushed', written, storeQueue) \ dropped \subseteq L
    BY <2>1
  <2>3. QED
    BY <1>0, <1>1, <1>2, <2>1, <2>2
<1>5. ASSUME UNCHANGED <<pushed, written, dropped, storeQueue, errors>>,
             busies' = busies \/ busies' = busies + 1
      PROVE  AtMostOneLostPerBusy'
  BY <1>2, <1>5
<1>6. CASE StartCleanup \/ NextBatch \/ BatchFails \/ \E u \in Users : DeleteUser(u)
  BY <1>5, <1>6 DEF StartCleanup, NextBatch, BatchFails, DeleteUser
<1>7. ASSUME NEW chunk, Collect(chunk) \/ CollectFails(chunk)
      PROVE  AtMostOneLostPerBusy'
  <2>1. NextChunk(chunk) /\ (busies' = busies \/ busies' = busies + 1)
    BY <1>7 DEF Collect, CollectFails, Removed
  <2>2. QED
    BY <1>5, <2>1, ChunkIsTaken
<1>8. CASE Restart
  <2>1. /\ dropped' = dropped \cup Waiting /\ UNCHANGED <<pushed, written, busies, errors>>
    BY <1>8 DEF Restart
  <2>2. LostOf(pushed', written', storeQueue') \ dropped' \subseteq L
    BY <2>1 DEF LostOf, Waiting
  <2>3. QED
    BY <1>2, <2>1, <2>2
<1>9. CASE UNCHANGED vars
  BY <1>5, <1>9 DEF vars
<1>10. QED
  BY <1>3, <1>4, <1>6, <1>7, <1>8, <1>9 DEF Next, Tasks

-----------------------------------------------------------------------------
(* The theorems.                                                           *)

\* The inductive invariant holds for ever, for every value of the constants.
THEOREM Invariance == Spec => []IInv
<1>1. Init => IInv
  <2> SUFFICES ASSUME Init PROVE IInv
    OBVIOUS
  <2> USE DEF Init
  <2>1. DOMAIN Empty = {} /\ Empty = [i \in DOMAIN Empty |-> Empty[i]]
        /\ Empty \in [DOMAIN Empty -> Nat \ {0}] /\ Empty \in [DOMAIN Empty -> Values \cup {Null}]
    BY DEF Empty
  <2>2. TypeOK
    <3>1. storeQueue \in Seq(Message) /\ pushed \in Seq(Kinds)
      BY EmptySeq
    <3>2. StringTypes(data, dataCache)
      BY <2>1 DEF StringTypes
    <3>3. /\ logs \subseteq Row /\ written \subseteq 1..MaxMsgs /\ bufs \subseteq Nat
          /\ deletedRows \subseteq Row /\ looping \in BOOLEAN /\ phase \in {"off", "collect"} \cup Retained
      BY Zenon
    <3>4. immediates \in Nat /\ busies \in Nat /\ errors \in Nat /\ dropped \subseteq 1..MaxMsgs
          /\ missed \subseteq Nat /\ {cleanups, restarts, deletes} \subseteq Nat
      OBVIOUS
    <3> HIDE DEF Init
    <3>5. StoreTypes /\ TaskTypes
      BY <3>1, <3>2, <3>3, <3>4 DEF StoreTypes, TaskTypes
    <3>6. QED
      BY <3>5, TypesSplit
  <2>3. IsTable(data)
    <3>1. 0 \in Nat /\ \A i \in DOMAIN Empty : i <= 0
      BY <2>1
    <3>2. QED
      BY <2>1, <3>1 DEF IsTable
  <2>4. Numbered(storeQueue, pushed) /\ OffIsDone /\ BufsNameBuffers
    <3>1. DOMAIN storeQueue = {}
      OBVIOUS
    <3>2. QED
      BY <3>1 DEF Numbered, OffIsDone, BufsNameBuffers
  <2>5. Sound
    BY <2>1 DEF Sound, Agrees
  <2>6. CollectsOrphans
    BY <2>1 DEF CollectsOrphans
  <2>7. AtMostOneLostPerBusy
    <3>1. ToWrite \ (written \cup Waiting \cup dropped) = {}
      BY DEF ToWrite
    <3>2. Cardinality(ToWrite \ (written \cup Waiting \cup dropped)) = 0
      BY <3>1, FS_EmptySet
    <3>3. QED
      BY <3>2 DEF AtMostOneLostPerBusy
  <2>8. QED
    BY <2>2, <2>3, <2>4, <2>5, <2>6, <2>7 DEF IInv
<1>2. IInv /\ [Next]_vars => IInv'
  <2> SUFFICES ASSUME IInv, [Next]_vars PROVE IInv'
    OBVIOUS
  <2>1. /\ TypeOK /\ IsTable(data) /\ Numbered(storeQueue, pushed) /\ OffIsDone
        /\ BufsNameBuffers /\ (NoneRolledBack => Sound) /\ CollectsOrphans /\ AtMostOneLostPerBusy
    BY DEF IInv
  <2>2. TypeOK' /\ IsTable(data)'
    BY <2>1, TypesKept
  <2>3. Numbered(storeQueue, pushed)'
    BY <2>1, NumberedKept
  <2>4. BufsNameBuffers' /\ OffIsDone'
    BY <2>1, TaskKept
  <2>5. (NoneRolledBack => Sound)'
    BY <2>1, SoundKept
  <2>6. CollectsOrphans'
    BY <2>1, ListedKept
  <2>7. AtMostOneLostPerBusy'
    BY <2>1, PaidKept
  <2>8. QED
    BY <2>2, <2>3, <2>4, <2>5, <2>6, <2>7 DEF IInv
<1>3. QED
  BY <1>1, <1>2, PTL DEF Spec

\* Every variable of the store keeps its type.
THEOREM TypeCorrect == Spec => []TypeOK
<1>1. IInv => TypeOK
  BY DEF IInv
<1>2. QED
  BY <1>1, Invariance, PTL

\* Until a transaction is rolled back after its lookups, every string in the cache is in the
\* table under its id: across writes, busy databases, collections and restarts.
THEOREM CacheIsSound == Spec => []CacheAgrees
<1>1. IInv => CacheAgrees
  BY DEF IInv, Sound, Agrees, CacheAgrees, CacheLeads
<1>2. QED
  BY <1>1, Invariance, PTL

\* Until then, no row of logs reads back as anything but the message it was written for,
\* although ids are used again, the retention task works between the writes, and rows are
\* written while the database is busy.
THEOREM RowsReadBack == Spec => []ReadsBack
<1>1. IInv => ReadsBack
  BY DEF IInv, Sound, RowReads, ReadsBack, RowsRead
<1>2. QED
  BY <1>1, Invariance, PTL

\* Every string is referred to by a row or is on the list of the running retention task,
\* but for what failed chunks, tasks cut short and deletions of users forgot, and the empty
\* rows: messages written between the batches and the chunks leave no string behind.
THEOREM NoStringLeftBehind == Spec => []CollectsOrphans
<1>1. IInv => CollectsOrphans
  BY DEF IInv
<1>2. QED
  BY <1>1, Invariance, PTL

\* Each busy database and each failed transaction costs at most the one message it happened
\* to, whole or a string of it: storeMessageLoop loses none on its other paths.
THEOREM BusyCostsOne == Spec => []AtMostOneLostPerBusy
<1>1. IInv => AtMostOneLostPerBusy
  BY DEF IInv
<1>2. QED
  BY <1>1, Invariance, PTL

\* Where no user is deleted, rows disappear only from buffers of a kind that
\* retention is set for, although the table of buffer ids is made before the
\* batches and used after their awaits.
THEOREM RetainsTheRest == Spec => OnlyRetainedDeleted
<1> DEFINE Step == NoneRolledBack /\ UNCHANGED deletes =>
                    \A r \in logs \ logs' : \E k \in Retained : r.buffer \in Buffers(k)
<1>1. IInv /\ [Next]_vars => [Step]_vars
  <2> SUFFICES ASSUME IInv, Next, NoneRolledBack, deletes' = deletes, NEW r \in logs \ logs'
               PROVE  \E k \in Retained : r.buffer \in Buffers(k)
    OBVIOUS
  <2> USE DEF queueVars, cleanupVars, bounds, db, trouble
  <2>1. /\ TypeOK /\ IsTable(data) /\ OffIsDone /\ BufsNameBuffers /\ RowReads(data, r)
        /\ storeQueue \in Seq(Message) /\ deletes \in Nat /\ logs \subseteq Row
    BY DEF IInv, Sound, TypeOK
  <2>2. ~ (\E u \in Users : DeleteUser(u))
    <3>1. deletes + 1 # deletes
      BY <2>1
    <3>2. QED
      BY <3>1 DEF DeleteUser
  <2>3. ASSUME NEW q \in Seq(Message), NEW ticks, Loop(q, ticks)
        PROVE  FALSE
    <3>1. logs \subseteq logs'
      BY <2>1, <2>3, LoopGrows
    <3>2. QED
      BY <3>1
  <2>4. ASSUME NEW m \in Message, StoreMessage(m)
        PROVE  FALSE
    <3>1. Append(storeQueue, m) \in Seq(Message)
      BY <2>1, AppendProperties
    <3>2. logs' = logs \/ Loop(Append(storeQueue, m), immediates)
      BY <2>4 DEF StoreMessage
    <3>3. QED
      BY <2>3, <3>1, <3>2
  <2>5. ~ Immediate /\ ~ Retry
    <3>1. CASE Immediate \/ Retry
      <4>1. logs' = logs \/ \E ticks : Loop(storeQueue, ticks)
        BY <3>1 DEF Immediate, Retry
      <4>2. QED
        BY <2>1, <2>3, <4>1
    <3>2. QED
      BY <3>1
  <2>6. ~ BatchFails /\ ~ Restart
        /\ ~ (\E chunk \in SUBSET deletedRows : Collect(chunk) \/ CollectFails(chunk))
    BY DEF BatchFails, Restart, Collect, CollectFails, NextChunk
  <2>7. StartCleanup \/ NextBatch
    BY <2>2, <2>4, <2>5, <2>6 DEF Next, Tasks
  <2>8. PICK k \in Retained : \E table \in SUBSET DOMAIN data :
               /\ \A i \in table : Names(k, data[i])
               /\ DeleteBatch(k, table, deletedRows)
    BY <2>1, <2>7, BatchOf
  <2>9. PICK table \in SUBSET DOMAIN data :
               /\ \A i \in table : Names(k, data[i])
               /\ DeleteBatch(k, table, deletedRows)
    BY <2>8
  <2>10. r.bufferref \in table
    BY <2>9, BatchDeletes
  <2>11. r.buffer \in Buffers(k)
    <3>1. r.bufferref \in DOMAIN data /\ r.bufferref # 0
      BY <2>1, <2>9, <2>10 DEF TypeOK
    <3>2. Names(k, r.buffer) /\ r.buffer \in Channels \cup Nicks
      BY <2>1, <2>9, <2>10, <3>1 DEF RowReads, Row
    <3>3. QED
      BY <3>2, StoreAssumption DEF Names, Buffers
  <2>12. QED
    BY <2>11
<1>2. QED
  BY <1>1, Invariance, PTL DEF Spec, OnlyRetainedDeleted

-----------------------------------------------------------------------------
(* History.                                                                *)

\* A buffer: whether it exists, and its marks.
BufferStates == [exists : BOOLEAN, lastSeen : [Marks -> 0..MaxClock]]

\* The types, and no message is stamped later than it arrived.
HistoryTyped ==
    /\ HistoryTypeOK
    /\ early \in BOOLEAN /\ rare \in Nat
    /\ \A m \in 1..Len(times) : times[m] <= clock
    /\ buffer.exists => times # <<>>

\* What the plain client is still to be given is not older than its mark, belongs to a
\* query that exists, and is nothing once it has been sent its history.
OwesNothing ==
    /\ plain = "on" \/ ~buffer.exists => owed = {}
    /\ \A m \in owed : times[m] >= buffer.lastSeen["auto"]

\* How far the bouncer client has asked for what it missed.
Asked(m) ==
    \/ web = "on"
    \/ ref # 0 /\ m <= ref
    \/ web = "off" /\ ref = 0 /\ \E h \in held : m <= h

\* What it has asked for and does not hold is older than all it holds, if it was not a hole.
NoHoleSoFar ==
    InOrder =>
        \A m \in (log \union Unstored) \ (held \union holes) :
            Asked(m) => \A h \in held : m < h

\* The message it asks by is one that it holds; what comes while it is there is held.
AsksByHeld ==
    /\ ref # 0 => ref \in held
    /\ web = "filling" => ref # 0
    /\ web = "on" => ref = 0 /\ Unstored \subseteq held \union holes

\* The marks divide the messages where the user has read to.
MarksDivide ==
    /\ ~buffer.exists => read = NoMarks /\ buffer.lastSeen = NoMarks
    /\ read["auto"] = 0
    /\ \A k \in Ids : read[k] = 0 <=> buffer.lastSeen[k] = 0
    /\ InOrder /\ ~early =>
          /\ \A k \in Ids, m \in 1..Len(times) : m <= read[k] => times[m] <= buffer.lastSeen[k]
          /\ read["anchor"] <= stored /\ (read["anchor"] = 0 <=> buffer.lastSeen["anchor"] = 0)
          /\ \A m \in log : m <= read["anchor"] => times[m] <= buffer.lastSeen["anchor"]
          /\ read["anchor"] # 0 => times[read["anchor"]] >= buffer.lastSeen["anchor"]

HistoryInv ==
    /\ HistoryTyped /\ OwesNothing /\ NoHoleSoFar /\ AsksByHeld /\ MarksDivide

-----------------------------------------------------------------------------
(* Lemmas about sets of natural numbers.                                   *)

\* A bounded set has a largest element, which Max returns, and any set a least one.
LEMMA LargestOf ==
    ASSUME NEW b \in Nat, NEW S, S \subseteq 0..b, S # {}
    PROVE  Max(S) \in S /\ \A i \in S : i <= Max(S)
<1> DEFINE U == {m \in Nat : \A i \in S : i <= m}
<1>1. PICK m \in U : \A k \in U : ~ (<<k, m>> \in OpToRel(<, Nat))
  <2>1. b \in U
    OBVIOUS
  <2>2. U \subseteq Nat /\ U # {}
    BY <2>1
  <2>3. QED
    BY <2>2, NatLessThanWellFounded, WFMin
<1>2. \A k \in U : ~ (k < m)
  BY <1>1 DEF OpToRel
<1>3. m \in S
  <2>1. CASE m = 0
    <3>1. PICK i \in S : TRUE
      OBVIOUS
    <3>2. i \in Nat /\ i <= m
      BY <3>1
    <3>3. i = 0
      BY <2>1, <3>2
    <3>4. QED
      BY <2>1, <3>3
  <2>2. CASE m # 0
    <3>1. m - 1 \in Nat /\ m - 1 < m
      BY <2>2
    <3>2. m - 1 \notin U
      BY <3>1, <1>2
    <3>3. PICK i \in S : ~ (i <= m - 1)
      BY <3>1, <3>2
    <3>4. i <= m /\ i \in Nat
      OBVIOUS
    <3>5. i = m
      BY <3>3, <3>4, <3>1
    <3>6. QED
      BY <3>5
  <2>3. QED
    BY <2>1, <2>2
<1>4. \A y \in S : m >= y
  OBVIOUS
<1>5. Max(S) \in S /\ \A y \in S : Max(S) >= y
  BY <1>3, <1>4 DEF Max
<1>6. QED
  <2>1. \A y \in S : y \in Nat
    OBVIOUS
  <2>2. QED
    BY <1>5, <2>1

\* A set of natural numbers has a least one.
LEMMA LeastOf ==
    ASSUME NEW S, S \subseteq Nat, S # {}
    PROVE  \E m \in S : \A i \in S : m <= i
<1>1. PICK m \in S : \A k \in S : ~ (<<k, m>> \in OpToRel(<, Nat))
  BY NatLessThanWellFounded, WFMin
<1>2. \A k \in S : ~ (k < m)
  BY <1>1 DEF OpToRel
<1>3. QED
  BY <1>2

\* The smaller and the larger of two numbers.
LEMMA MinOfTwo ==
    ASSUME NEW a \in Nat, NEW b \in Nat
    PROVE  Min({a, b}) = IF a <= b THEN a ELSE b
<1> DEFINE s == IF a <= b THEN a ELSE b
<1>1. s \in {a, b} /\ \A y \in {a, b} : s =< y
  OBVIOUS
<1>2. Min({a, b}) \in {a, b} /\ \A y \in {a, b} : Min({a, b}) =< y
  <2> HIDE DEF s
  <2>1. QED
    BY <1>1 DEF Min
<1>3. QED
  BY <1>1, <1>2

\* The larger of two numbers.
LEMMA MaxOfTwo ==
    ASSUME NEW a \in Nat, NEW b \in Nat
    PROVE  Max({a, b}) = IF a <= b THEN b ELSE a
<1> DEFINE s == IF a <= b THEN b ELSE a
<1>1. s \in {a, b} /\ \A y \in {a, b} : s >= y
  OBVIOUS
<1>2. Max({a, b}) \in {a, b} /\ \A y \in {a, b} : Max({a, b}) >= y
  <2> HIDE DEF s
  <2>1. QED
    BY <1>1 DEF Max
<1>3. QED
  BY <1>1, <1>2

-----------------------------------------------------------------------------
(* Lemmas about the queries.                                               *)

\* A page is a part of the rows, and all of them when it is not full.
LEMMA PageOf ==
    ASSUME NEW rows, IsFiniteSet(rows), NEW n \in Nat,
           NEW p \in kSubset(Min({n, Cardinality(rows)}), rows)
    PROVE  /\ p \subseteq rows /\ Cardinality(p) \in Nat
           /\ Cardinality(p) # n => p = rows
           /\ Cardinality(p) # 0 => p # {}
<1>1. Cardinality(rows) \in Nat
  BY FS_CardinalityType
<1>2. p \in SUBSET rows /\ Cardinality(p) = Min({n, Cardinality(rows)})
  BY DEF kSubset
<1>3. IsFiniteSet(p) /\ (Cardinality(rows) = Cardinality(p) => rows = p)
  BY <1>2, FS_Subset
<1>4. Cardinality(p) # n => Cardinality(p) = Cardinality(rows)
  BY <1>1, <1>2, MinOfTwo
<1>5. Cardinality(p) \in Nat
  BY <1>3, FS_CardinalityType
<1>6. QED
  BY <1>2, <1>3, <1>4, <1>5, FS_EmptySet

\* The store is a finite set.
LEMMA LogIsFinite ==
    ASSUME HistoryTyped, NEW rows, rows \subseteq 1..Len(times)
    PROVE  IsFiniteSet(rows)
<1>1. Len(times) \in Nat
  BY LenProperties DEF HistoryTyped, HistoryTypeOK
<1>2. IsFiniteSet(1..Len(times))
  BY <1>1, FS_Interval
<1>3. QED
  BY <1>2, FS_Subset

\* Of some messages there is a last one, and a first.
LEMMA LastOf ==
    ASSUME HistoryTyped, NEW ms, ms \subseteq 1..Len(times), ms # {}
    PROVE  Last(ms) \in ms /\ (InOrder => \A o \in ms : o <= Last(ms))
<1> DEFINE n == Len(times)
<1>1. n \in Nat /\ MaxClock \in Nat /\ \A m \in ms : m \in 1..n /\ times[m] \in 0..MaxClock
  BY HistoryAssumption, LenProperties, ElementOfSeq
     DEF HistoryTyped, HistoryTypeOK, HistoryAssumption
<1>11. \A m \in ms : m \in Nat /\ m \in 0..n /\ times[m] \in Nat
  <2> SUFFICES ASSUME NEW m \in ms
               PROVE  m \in Nat /\ m \in 0..n /\ times[m] \in Nat
    OBVIOUS
  <2>1. m \in 1..n /\ times[m] \in 0..MaxClock
    BY <1>1
  <2> HIDE DEF n
  <2>2. QED
    BY <2>1, <1>1
<1>12. DOMAIN times = 1..n
  BY LenProperties DEF HistoryTyped, HistoryTypeOK
<1> DEFINE ts == {times[m] : m \in ms}
<1> DEFINE t == Max(ts)
<1>2. t \in ts /\ \A m \in ms : times[m] <= t
  <2>1. ts \subseteq 0..MaxClock /\ ts # {}
    BY <1>1
  <2>2. Max(ts) \in ts /\ \A i \in ts : i <= Max(ts)
    <3> HIDE DEF ts
    <3>1. QED
      BY <2>1, <1>1, LargestOf
  <2>3. QED
    BY <2>2
<1> HIDE DEF ts, t, n
<1> DEFINE ls == {m \in ms : times[m] = t}
<1> DEFINE l == Max(ls)
<1>3. l \in ls /\ \A m \in ls : m <= l
  <2>1. ls \subseteq 0..n /\ ls # {}
    BY <1>11, <1>2 DEF ts
  <2> HIDE DEF ls
  <2>2. QED
    BY <2>1, <1>1, LargestOf
<1> HIDE DEF l
<1>4. l \in ms /\ times[l] = t /\ l \in Nat
  BY <1>3, <1>1
<1>5. \A o \in ms : times[l] > times[o] \/ (times[l] = times[o] /\ l >= o)
  <2> SUFFICES ASSUME NEW o \in ms
               PROVE  times[l] > times[o] \/ (times[l] = times[o] /\ l >= o)
    OBVIOUS
  <2>1. times[o] \in Nat /\ times[l] \in Nat /\ o \in Nat /\ times[o] <= times[l]
    BY <1>11, <1>2, <1>4
  <2>2. times[o] = times[l] => o <= l
    BY <1>3, <1>4
  <2>3. QED
    BY <2>1, <2>2, <1>4
<1>6. /\ Last(ms) \in ms
      /\ \A o \in ms : times[Last(ms)] > times[o] \/ (times[Last(ms)] = times[o] /\ Last(ms) >= o)
  BY <1>4, <1>5 DEF Last
<1>7. ASSUME InOrder
      PROVE  \A o \in ms : o <= Last(ms)
  <2> SUFFICES ASSUME NEW o \in ms, ~ (o <= Last(ms))
               PROVE  FALSE
    OBVIOUS
  <2>0. o \in Nat /\ Last(ms) \in Nat /\ times[o] \in Nat /\ times[Last(ms)] \in Nat
    <3>1. o \in ms /\ Last(ms) \in ms
      BY <1>6
    <3>2. QED
      BY ONLY <3>1, <1>11
  <2>1. Last(ms) < o
    BY <2>0
  <2>2. o \in DOMAIN times /\ Last(ms) \in DOMAIN times
    BY <1>1, <1>6, <1>12
  <2>3. times[Last(ms)] < times[o]
    BY <2>1, <2>2, <1>7 DEF InOrder
  <2>4. QED
    BY <2>0, <2>1, <2>3, <1>6
<1>8. QED
  BY <1>6, <1>7

\* The first of some messages is one of them, and when messages have an order the oldest.
LEMMA FirstOf ==
    ASSUME HistoryTyped, NEW ms, ms \subseteq 1..Len(times), ms # {}
    PROVE  First(ms) \in ms /\ (InOrder => \A o \in ms : First(ms) <= o)
<1> DEFINE n == Len(times)
<1>1. n \in Nat /\ MaxClock \in Nat /\ \A m \in ms : m \in 1..n /\ times[m] \in 0..MaxClock
  BY HistoryAssumption, LenProperties, ElementOfSeq
     DEF HistoryTyped, HistoryTypeOK, HistoryAssumption
<1>11. \A m \in ms : m \in Nat /\ m \in 0..n /\ times[m] \in Nat
  <2> SUFFICES ASSUME NEW m \in ms
               PROVE  m \in Nat /\ m \in 0..n /\ times[m] \in Nat
    OBVIOUS
  <2>1. m \in 1..n /\ times[m] \in 0..MaxClock
    BY <1>1
  <2> HIDE DEF n
  <2>2. QED
    BY <2>1, <1>1
<1>12. DOMAIN times = 1..n
  BY LenProperties DEF HistoryTyped, HistoryTypeOK
<1> HIDE DEF n
<1> DEFINE ts == {times[m] : m \in ms}
<1>2. PICK t \in ts : \A i \in ts : t <= i
  <2>1. ts \subseteq Nat /\ ts # {}
    BY <1>11
  <2> HIDE DEF ts
  <2>2. QED
    BY <2>1, LeastOf
<1> DEFINE ls == {m \in ms : times[m] = t}
<1>3. PICK l \in ls : \A m \in ls : l <= m
  <2>1. ls \subseteq Nat /\ ls # {}
    BY <1>11, <1>2
  <2> HIDE DEF ls
  <2>2. QED
    BY <2>1, LeastOf
<1>4. l \in ms /\ times[l] = t /\ l \in Nat
  BY <1>3, <1>1
<1>5. \A o \in ms : times[l] < times[o] \/ (times[l] = times[o] /\ l <= o)
  <2> SUFFICES ASSUME NEW o \in ms
               PROVE  times[l] < times[o] \/ (times[l] = times[o] /\ l <= o)
    OBVIOUS
  <2>1. times[o] \in Nat /\ times[l] \in Nat /\ o \in Nat /\ times[l] <= times[o]
    BY <1>11, <1>2, <1>4
  <2>2. times[o] = times[l] => l <= o
    BY <1>3, <1>4
  <2>3. QED
    BY <2>1, <2>2, <1>4
<1>6. /\ First(ms) \in ms
      /\ \A o \in ms : times[First(ms)] < times[o]
                       \/ (times[First(ms)] = times[o] /\ First(ms) <= o)
  BY <1>4, <1>5 DEF First
<1>7. ASSUME InOrder
      PROVE  \A o \in ms : First(ms) <= o
  <2> SUFFICES ASSUME NEW o \in ms, ~ (First(ms) <= o)
               PROVE  FALSE
    OBVIOUS
  <2>0. o \in Nat /\ First(ms) \in Nat /\ times[o] \in Nat /\ times[First(ms)] \in Nat
    <3>1. o \in ms /\ First(ms) \in ms
      BY <1>6
    <3>2. QED
      BY ONLY <3>1, <1>11
  <2>1. o < First(ms)
    BY <2>0
  <2>2. o \in DOMAIN times /\ First(ms) \in DOMAIN times
    BY <1>1, <1>6, <1>12
  <2>3. times[o] < times[First(ms)]
    BY <2>1, <2>2, <1>7 DEF InOrder
  <2>4. QED
    BY <2>0, <2>1, <2>3, <1>6
<1>8. QED
  BY <1>6, <1>7

\* The time of the (n+1)th latest row is 0 or the time of a row.
LEMMA NthIsTime ==
    ASSUME NEW b \in Nat, NEW rows, NEW ts, \A m \in rows : ts[m] \in 0..b, NEW n
    PROVE  NthLatest(rows, ts, n) \in 0..b
<1> DEFINE up(m) == {o \in rows : ts[o] > ts[m] \/ (ts[o] = ts[m] /\ o >= m)}
<1> DEFINE S == {0} \union {ts[m] : m \in {m \in rows : Cardinality(up(m)) = n + 1}}
<1>1. S \subseteq 0..b /\ S # {}
  <2> HIDE DEF up
  <2>1. QED
    OBVIOUS
<1>2. NthLatest(rows, ts, n) = Max(S)
  BY DEF NthLatest
<1> HIDE DEF S
<1>3. QED
  BY <1>1, <1>2, LargestOf

\* These rows have the order of their times.
HaveOrder(b, rows, ts) ==
    /\ rows \subseteq Nat /\ \A m \in rows : ts[m] \in 0..b
    /\ \A m, o \in rows : m < o => ts[m] < ts[o]

\* The time asked for is that of row m, and n come after it.
NthIs(rows, ts, n, m) ==
    /\ NthLatest(rows, ts, n) = ts[m]
    /\ IsFiniteSet({o \in rows : o > m}) /\ Cardinality({o \in rows : o > m}) = n

\* Of messages that have the order of their times it is 0 when there are at most n, and
\* else the time of a row that n others follow.
LEMMA NthIsExact ==
    ASSUME NEW b \in Nat, NEW rows, NEW ts, IsFiniteSet(rows), HaveOrder(b, rows, ts),
           NEW n \in Nat
    PROVE  /\ Cardinality(rows) <= n => NthLatest(rows, ts, n) = 0
           /\ Cardinality(rows) > n => \E m \in rows : NthIs(rows, ts, n, m)
<1> DEFINE older(m) == {o \in rows : ts[o] > ts[m] \/ (ts[o] = ts[m] /\ o >= m)}
<1> DEFINE up(m) == {o \in rows : o >= m}
<1> DEFINE above(m) == {o \in rows : o > m}
<1> DEFINE nth == {m \in rows : Cardinality(up(m)) = n + 1}
<1>01. /\ rows \subseteq Nat /\ \A m \in rows : ts[m] \in 0..b
       /\ \A m, o \in rows : m < o => ts[m] < ts[o]
  BY DEF HaveOrder
<1>0. \A m \in rows : m \in Nat /\ ts[m] \in Nat
  BY <1>01
<1>1. \A m \in rows : older(m) = up(m)
  <2> SUFFICES ASSUME NEW m \in rows, NEW o \in rows
               PROVE  (ts[o] > ts[m] \/ (ts[o] = ts[m] /\ o >= m)) <=> o >= m
    OBVIOUS
  <2>1. /\ m \in Nat /\ o \in Nat /\ ts[m] \in Nat /\ ts[o] \in Nat
        /\ m < o => ts[m] < ts[o]
        /\ o < m => ts[o] < ts[m]
    BY <1>0, <1>01
  <2>2. m = o => ts[m] = ts[o]
    OBVIOUS
  <2>3. QED
    BY ONLY <2>1, <2>2
<1>2. NthLatest(rows, ts, n) = Max({0} \union {ts[m] : m \in nth})
  <2>1. {m \in rows : Cardinality(older(m)) = n + 1} = nth
    BY <1>1
  <2>2. QED
    BY <2>1 DEF NthLatest
<1>3. \A m \in rows : /\ IsFiniteSet(up(m)) /\ Cardinality(up(m)) \in Nat
                      /\ Cardinality(up(m)) <= Cardinality(rows)
  <2> SUFFICES ASSUME NEW m \in rows
               PROVE  /\ IsFiniteSet(up(m)) /\ Cardinality(up(m)) \in Nat
                      /\ Cardinality(up(m)) <= Cardinality(rows)
    OBVIOUS
  <2>1. up(m) \in SUBSET rows
    OBVIOUS
  <2> HIDE DEF up
  <2>2. QED
    BY <2>1, FS_Subset, FS_CardinalityType
<1>4. \A m \in rows : /\ above(m) = up(m) \ {m} /\ m \in up(m)
  <2> SUFFICES ASSUME NEW m \in rows
               PROVE  /\ above(m) = up(m) \ {m} /\ m \in up(m)
    OBVIOUS
  <2>1. m \in Nat /\ \A o \in rows : o \in Nat
    BY <1>0
  <2>2. \A o \in rows : o > m <=> (o >= m /\ o # m)
    BY ONLY <2>1
  <2>3. m \in up(m)
    BY <2>1
  <2>4. QED
    BY <2>2, <2>3
<1>5. \A m \in rows : IsFiniteSet(above(m)) /\ Cardinality(above(m)) = Cardinality(up(m)) - 1
  <2> HIDE DEF above, up
  <2>1. QED
    BY <1>3, <1>4, FS_RemoveElement
<1>6. Cardinality(rows) \in Nat
  BY FS_CardinalityType
<1>7. ASSUME Cardinality(rows) <= n
      PROVE  NthLatest(rows, ts, n) = 0
  <2>1. nth = {}
    <3> SUFFICES ASSUME NEW m \in rows, Cardinality(up(m)) = n + 1
                 PROVE  FALSE
      OBVIOUS
    <3>1. Cardinality(up(m)) \in Nat /\ Cardinality(up(m)) <= Cardinality(rows)
      BY <1>3
    <3> DEFINE k == Cardinality(up(m))
    <3>2. k \in Nat /\ k <= Cardinality(rows) /\ k = n + 1
      BY <3>1
    <3> HIDE DEF k
    <3>3. QED
      BY <3>2, <1>7, <1>6
  <2>2. {0} \union {ts[m] : m \in nth} = {0, 0}
    BY <2>1
  <2>3. QED
    BY <2>2, <1>2, MaxOfTwo
<1>8. ASSUME Cardinality(rows) > n
      PROVE  \E m \in rows : /\ NthLatest(rows, ts, n) = ts[m]
                             /\ IsFiniteSet(above(m)) /\ Cardinality(above(m)) = n
  <2> DEFINE P == {m \in rows : Cardinality(up(m)) >= n + 1}
  <2>1. PICK f \in rows : \A o \in rows : f <= o
    <3>1. rows # {}
      BY <1>8, FS_EmptySet
    <3>2. QED
      BY <3>1, <1>01, LeastOf
  <2>2. f \in P
    <3>1. up(f) = rows
      BY <2>1, <1>0
    <3>2. Cardinality(rows) >= n + 1
      BY <1>8, <1>6
    <3>3. QED
      BY <3>1, <3>2
  \* The one of them with the fewest up from it has no more than n + 1.
  <2>3. PICK m \in P : \A o \in P : Cardinality(up(m)) <= Cardinality(up(o))
    <3> DEFINE C == {Cardinality(up(o)) : o \in P}
    <3>1. C \subseteq Nat /\ C # {}
      BY <2>2, <1>3
    <3>2. PICK k \in C : \A i \in C : k <= i
      <4> HIDE DEF C
      <4>1. QED
        BY <3>1, LeastOf
    <3> HIDE DEF up, P
    <3>3. QED
      BY <3>2
  <2>4. m \in rows /\ Cardinality(up(m)) >= n + 1
    BY <2>3
  <2>5. Cardinality(up(m)) = n + 1
    <3> SUFFICES ASSUME Cardinality(up(m)) # n + 1
                 PROVE  FALSE
      OBVIOUS
    <3>1. IsFiniteSet(above(m)) /\ Cardinality(above(m)) >= n + 1
      <4> DEFINE k == Cardinality(up(m))
      <4>1. k \in Nat /\ k >= n + 1 /\ k # n + 1 /\ Cardinality(above(m)) = k - 1
        BY <2>4, <1>3, <1>5
      <4>2. IsFiniteSet(above(m))
        BY <2>4, <1>5
      <4> HIDE DEF k
      <4>3. QED
        BY <4>1, <4>2
    <3>2. above(m) # {} /\ above(m) \subseteq Nat
      <4>1. 0 >= n + 1 => FALSE
        OBVIOUS
      <4>2. above(m) = {} => Cardinality(above(m)) = 0
        BY FS_EmptySet
      <4>3. above(m) \subseteq Nat
        BY <1>01
      <4> HIDE DEF above
      <4>4. QED
        BY <3>1, <4>1, <4>2, <4>3
    <3>3. PICK q \in above(m) : \A o \in above(m) : q <= o
      <4> HIDE DEF above
      <4>1. QED
        BY <3>2, LeastOf
    <3>4. q \in rows /\ q > m /\ q \in Nat /\ m \in Nat
      BY <1>0, <2>4
    <3>5. up(q) = above(m)
      <4>1. \A o \in rows : o >= q => o > m
        BY <3>4, <1>0
      <4>2. \A o \in rows : o > m => o >= q
        BY <3>3, <3>4, <1>0
      <4>3. QED
        BY <4>1, <4>2
    <3>6. q \in P
      BY <3>1, <3>4, <3>5
    <3>7. Cardinality(up(m)) <= Cardinality(above(m))
      BY <3>5, <3>6, <2>3
    <3>8. Cardinality(above(m)) = Cardinality(up(m)) - 1 /\ Cardinality(up(m)) \in Nat
      BY <2>4, <1>3, <1>5
    <3>9. QED
      BY ONLY <3>7, <3>8
  \* It is the only one.
  <2>6. \A o \in nth : o = m
    <3> SUFFICES ASSUME NEW o \in nth, o # m
                 PROVE  FALSE
      OBVIOUS
    <3>1. o \in rows /\ Cardinality(up(o)) = n + 1 /\ o \in Nat /\ m \in Nat
      BY <1>0, <2>4
    <3>2. ASSUME NEW x \in rows, NEW y \in rows, x < y, Cardinality(up(x)) = Cardinality(up(y))
          PROVE  FALSE
      <4>1. up(y) \in SUBSET up(x)
        <5>1. x \in Nat /\ y \in Nat /\ \A z \in rows : z \in Nat
          BY <3>2, <1>0
        <5>2. \A z \in rows : z >= y => z >= x
          BY ONLY <5>1, <3>2
        <5>3. QED
          BY <5>2
      <4>2. x \in up(x) /\ x \notin up(y)
        BY <3>2, <1>0
      <4>3. IsFiniteSet(up(x))
        BY <1>3
      <4> HIDE DEF up
      <4>4. up(x) = up(y)
        BY <4>1, <4>3, <3>2, FS_Subset
      <4>5. QED
        BY <4>2, <4>4
    <3>3. o < m \/ m < o
      BY <3>1
    <3> HIDE DEF up
    <3>4. QED
      BY <3>1, <3>2, <3>3, <2>4, <2>5
  <2>7. {0} \union {ts[o] : o \in nth} = {0, ts[m]}
    <3>1. m \in nth
      BY <2>4, <2>5
    <3> HIDE DEF nth
    <3>2. {ts[o] : o \in nth} = {ts[m]}
      BY <3>1, <2>6
    <3>3. QED
      BY <3>2
  <2>8. Max({0, ts[m]}) = ts[m]
    <3>1. ts[m] \in Nat /\ 0 <= ts[m]
      BY <1>0, <2>4
    <3>2. QED
      BY <3>1, MaxOfTwo
  <2>9. NthLatest(rows, ts, n) = ts[m]
    BY <2>7, <2>8, <1>2
  <2>10. IsFiniteSet(above(m)) /\ Cardinality(above(m)) = n
    <3> DEFINE k == Cardinality(up(m))
    <3>1. k = n + 1 /\ Cardinality(above(m)) = k - 1 /\ IsFiniteSet(above(m))
      BY <2>4, <2>5, <1>5
    <3> HIDE DEF k
    <3>2. QED
      BY <3>1
  <2>11. QED
    BY <2>4, <2>9, <2>10
<1>9. QED
  BY <1>7, <1>8 DEF NthIs

-----------------------------------------------------------------------------
(* Lemmas about the buffer.                                                *)

\* updateLastSeen() changes the mark of plain clients alone.
LEMMA SeenIs ==
    ASSUME NEW b \in BufferStates, NEW now \in 0..MaxClock
    PROVE  /\ Seen(b, now) \in BufferStates /\ Seen(b, now).exists = b.exists
           /\ \A k \in Marks : k # "auto" => Seen(b, now).lastSeen[k] = b.lastSeen[k]
<1> DEFINE ls == [b.lastSeen EXCEPT !["auto"] = Max({b.lastSeen["auto"], now})]
<1>1. Seen(b, now) = [b EXCEPT !.lastSeen = ls]
  BY DEF Seen
<1>2. b.lastSeen \in [Marks -> 0..MaxClock] /\ "auto" \in Marks
  BY DEF BufferStates, Marks
<1>3. b.lastSeen["auto"] \in Nat /\ now \in Nat /\ b.lastSeen["auto"] \in 0..MaxClock
  BY <1>2
<1>4. Max({b.lastSeen["auto"], now}) \in 0..MaxClock
  BY <1>3, MaxOfTwo
<1>5. ls \in [Marks -> 0..MaxClock] /\ \A k \in Marks : k # "auto" => ls[k] = b.lastSeen[k]
  BY <1>2, <1>4
<1> HIDE DEF ls
<1>6. Seen(b, now) \in BufferStates /\ Seen(b, now).exists = b.exists /\ Seen(b, now).lastSeen = ls
  BY <1>1, <1>5 DEF BufferStates
<1>7. QED
  BY <1>5, <1>6

\* A new buffer has the anchor alone.
LEMMA AddedIs ==
    ASSUME HistoryTyped, NEW rows, NEW ts, \A m \in rows : ts[m] \in 0..MaxClock
    PROVE  /\ Added(rows, ts) \in BufferStates /\ Added(rows, ts).exists = TRUE
           /\ buffer.exists => Added(rows, ts) = buffer
           /\ ~buffer.exists =>
                /\ Added(rows, ts).lastSeen["anchor"] = NthLatest(rows, ts, 1)
                /\ \A k \in Marks : k # "anchor" => Added(rows, ts).lastSeen[k] = 0
<1>1. buffer \in BufferStates /\ MaxClock \in Nat
  BY HistoryAssumption DEF HistoryTyped, HistoryTypeOK, BufferStates, HistoryAssumption
<1>2. CASE buffer.exists
  <2>1. Added(rows, ts) = buffer
    BY <1>2 DEF Added
  <2>2. buffer.exists \in BOOLEAN
    BY <1>1 DEF BufferStates
  <2>3. QED
    BY <2>1, <2>2, <1>1, <1>2
<1>3. CASE ~buffer.exists
  <2> DEFINE t == NthLatest(rows, ts, 1)
  <2>1. t \in 0..MaxClock
    BY <1>1, NthIsTime
  <2> HIDE DEF t
  <2> DEFINE ls == [NoMarks EXCEPT !["anchor"] = t]
  <2>2. Added(rows, ts) = [exists |-> TRUE, lastSeen |-> ls]
    BY <1>3 DEF Added, t
  <2>3. NoMarks \in [Marks -> 0..MaxClock] /\ \A k \in Marks : NoMarks[k] = 0
    BY <1>1 DEF NoMarks
  <2>4. /\ ls \in [Marks -> 0..MaxClock] /\ ls["anchor"] = t
        /\ \A k \in Marks : k # "anchor" => ls[k] = 0
    BY <2>1, <2>3 DEF Marks
  <2> HIDE DEF ls
  <2>5. QED
    BY <2>2, <2>4, <1>3 DEF BufferStates, t
<1>4. QED
  BY <1>2, <1>3

\* What an arriving message does.
LEMMA ArriveIs ==
    ASSUME HistoryTyped, NEW lag \in 0..MaxLag, NEW delayed \in BOOLEAN, Arrive(lag, delayed)
    PROVE  LET n == Len(times) + 1
               now == ~delayed /\ Unstored = {}
           IN  /\ n \in Nat /\ Len(times') = n /\ times' \in Seq(1..MaxClock)
               /\ times'[n] = clock - lag /\ times'[n] <= clock /\ times'[n] \in 1..MaxClock
               /\ \A m \in 1..Len(times) : times'[m] = times[m]
               /\ now => stored = Len(times) /\ stored' = n /\ log' = log \union {n}
               /\ ~now => stored' = stored /\ log' = log
               /\ buffer' \in BufferStates /\ buffer'.exists = TRUE
               /\ \A k \in Marks : k # "auto" =>
                     buffer'.lastSeen[k] = Added(log', times').lastSeen[k]
               /\ plain = "off" => buffer' = Added(log', times')
               /\ \A m \in log' : times'[m] \in 1..MaxClock
<1> DEFINE n == Len(times) + 1
<1> DEFINE now == ~delayed /\ Unstored = {}
<1>1. /\ clock \in 1..MaxClock /\ times \in Seq(1..MaxClock) /\ stored \in 0..Len(times)
      /\ Len(times) \in Nat /\ log \subseteq 1..stored /\ MaxClock \in Nat /\ MaxLag \in Nat
  BY HistoryAssumption, LenProperties DEF HistoryTyped, HistoryTypeOK, HistoryAssumption
<1>2. /\ clock - lag > 0 /\ times' = Append(times, clock - lag)
      /\ stored' = IF now THEN n ELSE stored
      /\ log' = IF now THEN log \union {n} ELSE log
      /\ buffer' = IF plain = "off" THEN Added(log', times') ELSE Seen(Added(log', times'), clock)
  BY DEF Arrive
<1>3. clock - lag \in 1..MaxClock /\ clock - lag <= clock
  BY ONLY <1>1, <1>2, lag \in 0..MaxLag
<1>4. /\ Len(times') = n /\ times'[n] = clock - lag /\ times' \in Seq(1..MaxClock)
      /\ \A m \in 1..Len(times) : times'[m] = times[m]
  BY <1>1, <1>2, <1>3, AppendProperties
<1>5. n \in Nat /\ \A m \in log : m \in 1..Len(times) /\ times[m] \in 1..MaxClock
  BY <1>1, ElementOfSeq
<1>6. now => stored = Len(times)
  <2>1. Unstored = {} => ~ (Len(times) \in (stored + 1)..Len(times))
    BY DEF Unstored
  <2>2. QED
    BY ONLY <2>1, <1>1 DEF now
<1>7. \A m \in log' : times'[m] \in 1..MaxClock
  <2> SUFFICES ASSUME NEW m \in log'
               PROVE  times'[m] \in 1..MaxClock
    OBVIOUS
  <2>1. m \in log \/ m = n
    BY <1>2
  <2> HIDE DEF n
  <2>2. CASE m \in log
    BY <2>2, <1>4, <1>5
  <2>3. CASE m = n
    BY <2>3, <1>3, <1>4
  <2>4. QED
    BY <2>1, <2>2, <2>3
<1>8. Added(log', times') \in BufferStates /\ Added(log', times').exists = TRUE
  <2>1. \A m \in log' : times'[m] \in 0..MaxClock
    BY <1>7, <1>1
  <2>2. QED
    BY <2>1, AddedIs
<1>9. /\ buffer' \in BufferStates /\ buffer'.exists = TRUE
      /\ \A k \in Marks : k # "auto" => buffer'.lastSeen[k] = Added(log', times').lastSeen[k]
  <2>1. clock \in 0..MaxClock
    BY <1>1
  <2>2. CASE plain = "off"
    BY <2>2, <1>2, <1>8
  <2>3. CASE plain # "off"
    BY <2>1, <2>3, <1>2, <1>8, SeenIs
  <2>4. QED
    BY <2>2, <2>3
<1>10. now => stored' = n /\ log' = log \union {n}
  BY <1>2
<1>11. ~now => stored' = stored /\ log' = log
  BY <1>2
<1>12. plain = "off" => buffer' = Added(log', times')
  BY <1>2
<1>13. times'[n] <= clock /\ times'[n] \in 1..MaxClock
  BY <1>3, <1>4
<1>14. QED
  <2> HIDE DEF n, now
  <2>1. QED
    BY <1>4, <1>5, <1>6, <1>7, <1>9, <1>10, <1>11, <1>12, <1>13 DEF n, now

-----------------------------------------------------------------------------
(* The types.                                                              *)

\* A fact that the types give.
LEMMA HistoryTypes ==
    ASSUME HistoryTyped
    PROVE  /\ clock \in 1..MaxClock /\ times \in Seq(1..MaxClock) /\ Len(times) \in Nat
           /\ \A m \in 1..Len(times) : times[m] \in 1..MaxClock /\ times[m] <= clock
           /\ stored \in 0..Len(times) /\ log \subseteq 1..stored /\ log \subseteq 1..Len(times)
           /\ buffer \in BufferStates /\ buffer.lastSeen \in [Marks -> 0..MaxClock]
           /\ held \subseteq 1..Len(times) /\ owed \subseteq 1..Len(times)
           /\ holes \subseteq 1..Len(times) /\ Unstored \subseteq 1..Len(times)
           /\ ref \in 0..Len(times) /\ read \in [Marks -> 0..Len(times)]
           /\ "auto" \in Marks /\ "anchor" \in Marks /\ MaxClock \in Nat
           /\ DOMAIN times = 1..Len(times)
<1>1. /\ clock \in 1..MaxClock /\ times \in Seq(1..MaxClock) /\ Len(times) \in Nat
      /\ stored \in 0..Len(times) /\ log \subseteq 1..stored
      /\ buffer \in BufferStates
      /\ UNION {held, owed, holes} \subseteq 1..Len(times)
      /\ ref \in 0..Len(times) /\ read \in [Marks -> 0..Len(times)]
      /\ \A m \in 1..Len(times) : times[m] <= clock
      /\ DOMAIN times = 1..Len(times)
  BY LenProperties DEF HistoryTyped, HistoryTypeOK, BufferStates
<1>2. \A m \in 1..Len(times) : times[m] \in 1..MaxClock
  BY <1>1, ElementOfSeq
<1>3. 1..stored \subseteq 1..Len(times) /\ Unstored \subseteq 1..Len(times)
  BY ONLY <1>1 DEF Unstored
<1>4. log \subseteq 1..Len(times)
  BY ONLY <1>1, <1>3
<1>5. buffer.lastSeen \in [Marks -> 0..MaxClock]
  BY ONLY <1>1 DEF BufferStates
<1>6. /\ held \subseteq 1..Len(times) /\ owed \subseteq 1..Len(times)
      /\ holes \subseteq 1..Len(times)
  BY ONLY <1>1
<1>7. "auto" \in Marks /\ "anchor" \in Marks /\ MaxClock \in Nat
  BY HistoryAssumption DEF Marks, HistoryAssumption
<1>8. QED
  BY ONLY <1>1, <1>2, <1>3, <1>4, <1>5, <1>6, <1>7

\* The types are kept where a step says what it does to the messages, the buffer and the
\* sets of messages, one by one.
LEMMA HistoryFits ==
    ASSUME clock' \in 1..MaxClock, times' \in Seq(1..MaxClock), stored' \in 0..Len(times'),
           log' \subseteq 1..stored', buffer' \in BufferStates,
           plain' \in {"off", "dumping", "on"}, web' \in {"off", "filling", "on"},
           held' \subseteq 1..Len(times'), owed' \subseteq 1..Len(times'),
           holes' \subseteq 1..Len(times'), ref' \in 0..Len(times'),
           read' \in [Marks -> 0..Len(times')], early' \in BOOLEAN, rare' \in Nat,
           \A m \in 1..Len(times') : times'[m] <= clock',
           buffer'.exists => times' # <<>>
    PROVE  HistoryTyped'
BY DEF HistoryTyped, HistoryTypeOK, BufferStates

\* A message that arrives leaves everything typed.
LEMMA ArriveTypes ==
    ASSUME HistoryTyped, NEW lag \in 0..MaxLag, NEW delayed \in BOOLEAN, Arrive(lag, delayed)
    PROVE  HistoryTyped'
<1> DEFINE n == Len(times) + 1
<1> DEFINE now == ~delayed /\ Unstored = {}
<1>1. /\ n \in Nat /\ Len(times') = n /\ times' \in Seq(1..MaxClock)
      /\ times'[n] <= clock
      /\ \A m \in 1..Len(times) : times'[m] = times[m]
      /\ now => stored' = n /\ log' = log \union {n}
      /\ ~now => stored' = stored /\ log' = log
      /\ buffer' \in BufferStates
  BY ArriveIs
<1>2. /\ clock' = clock /\ plain' = plain /\ web' = web /\ ref' = ref /\ holes' = holes
      /\ rare' = IF delayed \/ lag > 0 THEN rare + 1 ELSE rare
      /\ held' = held \/ held' = held \union {n}
      /\ early' = (early \/ (~buffer.exists /\ ~now))
      /\ read' = read \/ read' = [read EXCEPT !["anchor"] = n - 1]
      /\ \/ owed' = owed \/ owed' = {} \/ owed' = owed \union {n}
  BY DEF Arrive
<1>3. HistoryTyped
  OBVIOUS
<1>4. n = Len(times) + 1
  OBVIOUS
<1>5. early' \in BOOLEAN
  BY <1>2
<1> HIDE DEF n, now
<1>6. /\ clock \in 1..MaxClock /\ Len(times) \in Nat
      /\ \A m \in 1..Len(times) : times[m] <= clock
      /\ stored \in 0..Len(times) /\ log \subseteq 1..stored
      /\ held \subseteq 1..Len(times) /\ owed \subseteq 1..Len(times)
      /\ holes \subseteq 1..Len(times)
      /\ ref \in 0..Len(times) /\ read \in [Marks -> 0..Len(times)] /\ "anchor" \in Marks
  BY <1>3, HistoryTypes
<1>7. rare \in Nat /\ plain \in {"off", "dumping", "on"} /\ web \in {"off", "filling", "on"}
  BY <1>3 DEF HistoryTyped, HistoryTypeOK
<1>8. /\ 1..Len(times) \subseteq 1..n /\ n \in 1..n /\ 0..Len(times) \subseteq 0..n
      /\ n - 1 \in 0..n /\ n \in 0..n /\ n # 0 /\ 1..stored \subseteq 1..n
      /\ \A m \in 1..n : m \in 1..Len(times) \/ m = n
  BY ONLY <1>4, <1>6
<1>9. stored' \in 0..n /\ log' \subseteq 1..stored'
  <2>1. CASE now
    BY <2>1, <1>1, <1>6, <1>8
  <2>2. CASE ~now
    BY <2>2, <1>1, <1>6, <1>8
  <2>3. QED
    BY <2>1, <2>2
<1>10. /\ held' \subseteq 1..n /\ owed' \subseteq 1..n /\ holes' \subseteq 1..n /\ ref' \in 0..n
  BY ONLY <1>2, <1>6, <1>8
<1>11. read' \in [Marks -> 0..n]
  BY ONLY <1>2, <1>6, <1>8
<1>12. \A m \in 1..n : times'[m] <= clock'
  BY ONLY <1>1, <1>2, <1>6, <1>8
<1>13. times' # <<>>
  <2>1. Len(<<>>) = 0
    BY EmptySeq
  <2>2. QED
    BY ONLY <2>1, <1>1, <1>8
<1>14. rare' \in Nat
  BY ONLY <1>2, <1>7
<1>15. /\ clock' \in 1..MaxClock /\ plain' \in {"off", "dumping", "on"}
       /\ web' \in {"off", "filling", "on"}
  BY ONLY <1>2, <1>6, <1>7
<1>16. QED
  BY ONLY <1>1, <1>5, <1>9, <1>10, <1>11, <1>12, <1>13, <1>14, <1>15, HistoryFits

\* A limit is a number and not 0.
LEMMA LimitIs ==
    ASSUME NEW asked \in Asks
    PROVE  Limit(asked) \in Nat /\ Limit(asked) # 0
BY HistoryAssumption DEF Limit, HistoryAssumption

\* The pages of the queries are messages of the store.
LEMMA AfterPage ==
    ASSUME HistoryTyped, NEW m, NEW by, NEW n \in Nat, NEW page \in AfterRef(m, by, n)
    PROVE  LET rows == {r \in log : Refers(m, by) /\ times[r] > times[m]}
           IN  /\ page \subseteq rows /\ Cardinality(page) \in Nat
               /\ Cardinality(page) # n => page = rows
               /\ Cardinality(page) # 0 => page # {}
               /\ \A x \in page, o \in rows \ page : times[x] <= times[o]
<1> DEFINE rows == {r \in log : Refers(m, by) /\ times[r] > times[m]}
<1>1. rows \subseteq 1..Len(times)
  BY HistoryTypes
<1>2. IsFiniteSet(rows)
  <2> HIDE DEF rows
  <2>1. QED
    BY <1>1, LogIsFinite
<1>3. page \in OldestPages(rows, n)
  BY DEF AfterRef
<1> HIDE DEF rows
<1>4. /\ page \in kSubset(Min({n, Cardinality(rows)}), rows)
      /\ \A x \in page, o \in rows \ page : times[x] <= times[o]
  BY <1>3 DEF OldestPages
<1>5. QED
  BY <1>2, <1>4, PageOf DEF rows

\* And so are the pages of the newest.
LEMMA NewestPage ==
    ASSUME HistoryTyped, NEW rows, rows \subseteq log, NEW n \in Nat,
           NEW page \in NewestPages(rows, n)
    PROVE  /\ page \subseteq rows /\ Cardinality(page) \in Nat
           /\ Cardinality(page) # n => page = rows
           /\ Cardinality(page) # 0 => page # {}
           /\ \A x \in page, o \in rows \ page : times[x] >= times[o]
<1>1. rows \subseteq 1..Len(times)
  BY HistoryTypes
<1>2. IsFiniteSet(rows)
  BY <1>1, LogIsFinite
<1>3. /\ page \in kSubset(Min({n, Cardinality(rows)}), rows)
      /\ \A x \in page, o \in rows \ page : times[x] >= times[o]
  BY DEF NewestPages
<1>4. QED
  BY <1>2, <1>3, PageOf

\* The steps of the clock, the store and the plain client.
LEMMA PlainTypes ==
    ASSUME HistoryTyped,
           \/ Tick \/ Store \/ PlainLogin \/ Dump \/ PlainLeave
           \/ \E cutoff \in 2..clock : Purge(cutoff)
    PROVE  HistoryTyped'
<1>1. HistoryTyped
  OBVIOUS
<1>2. /\ clock \in 1..MaxClock /\ times \in Seq(1..MaxClock) /\ Len(times) \in Nat
      /\ \A m \in 1..Len(times) : times[m] \in 1..MaxClock /\ times[m] <= clock
      /\ stored \in 0..Len(times) /\ log \subseteq 1..stored
      /\ buffer \in BufferStates
      /\ held \subseteq 1..Len(times) /\ owed \subseteq 1..Len(times)
      /\ holes \subseteq 1..Len(times)
      /\ ref \in 0..Len(times) /\ read \in [Marks -> 0..Len(times)] /\ MaxClock \in Nat
  BY <1>1, HistoryTypes
<1>3. /\ plain \in {"off", "dumping", "on"} /\ web \in {"off", "filling", "on"}
      /\ early \in BOOLEAN /\ rare \in Nat
      /\ buffer.exists => times # <<>>
  BY <1>1 DEF HistoryTyped, HistoryTypeOK
<1>4. CASE Tick
  <2>1. clock' = clock + 1 /\ clock < MaxClock
        /\ UNCHANGED <<times, stored, log, buffer, plain, owed, web, ref, held, holes, read,
                       early, rare>>
    BY <1>4 DEF Tick, store, plainVars, webVars, reading
  <2>2. clock' \in 1..MaxClock /\ \A m \in 1..Len(times) : times[m] <= clock'
    BY ONLY <2>1, <1>2
  <2>3. QED
    BY ONLY <2>1, <2>2, <1>2, <1>3, HistoryFits
<1>5. CASE Store
  <2>1. Unstored # {} /\ stored' = stored + 1 /\ log' = log \union {stored + 1}
        /\ UNCHANGED <<clock, times, buffer, plain, owed, web, ref, held, holes, read,
                       early, rare>>
    BY <1>5 DEF Store, plainVars, webVars, reading
  <2>2. stored' \in 0..Len(times) /\ log' \subseteq 1..stored'
    BY ONLY <2>1, <1>2 DEF Unstored
  <2>3. QED
    BY ONLY <2>1, <2>2, <1>2, <1>3, HistoryFits
<1>6. CASE PlainLogin \/ PlainLeave
  <2>1. plain' \in {"off", "dumping"}
        /\ UNCHANGED <<clock, times, stored, log, buffer, owed, web, ref, held, holes, read,
                       early, rare>>
    BY <1>6 DEF PlainLogin, PlainLeave, store, webVars, reading
  <2>2. QED
    BY ONLY <2>1, <1>2, <1>3, HistoryFits
<1>7. CASE Dump
  <2>1. plain' = "on"
        /\ UNCHANGED <<clock, times, stored, log, buffer, web, ref, held, holes, read, early, rare>>
    BY <1>7 DEF Dump, store, webVars, reading
  <2>2. owed' \subseteq owed
    BY <1>7 DEF Dump
  <2>3. owed' \subseteq 1..Len(times)
    BY ONLY <2>2, <1>2
  <2>4. QED
    BY ONLY <2>1, <2>3, <1>2, <1>3, HistoryFits
<1>8. ASSUME NEW cutoff \in 2..clock, Purge(cutoff)
      PROVE  HistoryTyped'
  <2>1. rare' = rare + 1 /\ log' \subseteq log /\ owed' \subseteq owed
        /\ UNCHANGED <<clock, times, stored, buffer, plain, web, ref, held, holes, read, early>>
    BY <1>8 DEF Purge, webVars, reading
  <2>2. rare' \in Nat /\ log' \subseteq 1..stored /\ owed' \subseteq 1..Len(times)
    BY ONLY <2>1, <1>2, <1>3
  <2>3. QED
    BY ONLY <2>1, <2>2, <1>2, <1>3, HistoryFits
<1>9. QED
  BY <1>4, <1>5, <1>6, <1>7, <1>8

\* The steps of the bouncer client.
LEMMA WebTypes ==
    ASSUME HistoryTyped,
           \/ \E asked \in Asks : WebConnect(asked)
           \/ \E asked \in Asks, by \in References : Fill(asked, by) \/ ScrollBack(asked, by)
           \/ WebLeave \/ DelBuffer
           \/ \E id \in Ids : ReadAll(id) \/ \E m \in held : ReadTo(id, m)
    PROVE  HistoryTyped'
<1>1. HistoryTyped
  OBVIOUS
<1>2. /\ clock \in 1..MaxClock /\ times \in Seq(1..MaxClock) /\ Len(times) \in Nat
      /\ \A m \in 1..Len(times) : times[m] \in 1..MaxClock /\ times[m] <= clock
      /\ stored \in 0..Len(times) /\ log \subseteq 1..stored
      /\ buffer \in BufferStates /\ log \subseteq 1..Len(times)
      /\ held \subseteq 1..Len(times) /\ owed \subseteq 1..Len(times)
      /\ holes \subseteq 1..Len(times) /\ Unstored \subseteq 1..Len(times)
      /\ ref \in 0..Len(times) /\ read \in [Marks -> 0..Len(times)] /\ MaxClock \in Nat
      /\ buffer.lastSeen \in [Marks -> 0..MaxClock]
  BY <1>1, HistoryTypes
<1>3. /\ plain \in {"off", "dumping", "on"} /\ web \in {"off", "filling", "on"}
      /\ early \in BOOLEAN /\ rare \in Nat
      /\ buffer.exists => times # <<>>
  BY <1>1 DEF HistoryTyped, HistoryTypeOK
<1>4. ASSUME NEW asked \in Asks, WebConnect(asked)
      PROVE  HistoryTyped'
  <2>1. UNCHANGED <<clock, times, stored, log, buffer, plain, owed, read, early, rare>>
    BY <1>4 DEF WebConnect, store, plainVars, reading
  <2>2. CASE /\ held = {} /\ web' = "on" /\ held' \in Latest(Limit(asked))
             /\ holes' = Unstored /\ ref' = ref
    <3> DEFINE rows == {r \in log : times[r] <= clock}
    <3>1. held' \in NewestPages(rows, Limit(asked)) /\ rows \subseteq log
      BY <2>2 DEF Latest
    <3> HIDE DEF rows
    <3>2. held' \subseteq rows
      BY <3>1, <1>1, LimitIs, NewestPage
    <3>3. held' \subseteq 1..Len(times)
      BY ONLY <3>1, <3>2, <1>2
    <3>4. QED
      BY ONLY <2>1, <2>2, <3>3, <1>2, <1>3, HistoryFits
  <2>3. CASE /\ held # {} /\ web' = "filling" /\ UNCHANGED <<held, holes>>
             /\ ref' = IF ref = 0 THEN Last(held) ELSE ref
    <3>1. Last(held) \in held
      BY <2>3, <1>1, <1>2, LastOf
    <3>2. ref' \in 0..Len(times)
      <4>1. Last(held) \in 1..Len(times)
        BY ONLY <3>1, <1>2
      <4>2. Last(held) \in 0..Len(times)
        BY ONLY <4>1, <1>2
      <4>3. QED
        BY ONLY <2>3, <4>2, <1>2
    <3>3. QED
      BY ONLY <2>1, <2>3, <3>2, <1>2, <1>3, HistoryFits
  <2>4. QED
    BY <1>4, <2>2, <2>3 DEF WebConnect
<1>5. ASSUME NEW asked \in Asks, NEW by \in References, Fill(asked, by)
      PROVE  HistoryTyped'
  <2>1. UNCHANGED <<clock, times, stored, log, buffer, plain, owed, read, early, rare>>
    BY <1>5 DEF Fill, store, plainVars, reading
  <2>2. PICK page \in AfterRef(ref, by, Limit(asked)) :
          LET more == Cardinality(page) = Limit(asked)
          IN  /\ held' = held \union page
              /\ web' = IF more THEN web ELSE "on"
              /\ ref' = IF more THEN Last(page) ELSE 0
              /\ holes' = (CASE more -> holes
                             [] ~more /\ Refers(ref, by) -> holes \union Unstored
                             [] OTHER -> 1..Len(times)) \ held'
    BY <1>5 DEF Fill
  <2>3. page \subseteq log /\ (Cardinality(page) # 0 => page # {})
    BY <1>1, LimitIs, AfterPage
  <2>4. held' \subseteq 1..Len(times)
    BY ONLY <2>2, <2>3, <1>2
  <2>5. holes' \subseteq 1..Len(times)
    BY ONLY <2>2, <1>2
  <2>6. ref' \in 0..Len(times)
    <3>1. CASE Cardinality(page) = Limit(asked)
      <4>1. page # {} /\ page \subseteq 1..Len(times)
        BY <3>1, <2>3, <1>2, LimitIs
      <4>2. Last(page) \in page
        BY <4>1, <1>1, LastOf
      <4>3. QED
        BY ONLY <3>1, <4>1, <4>2, <2>2, <1>2
    <3>2. CASE Cardinality(page) # Limit(asked)
      BY ONLY <3>2, <2>2, <1>2
    <3>3. QED
      BY <3>1, <3>2
  <2>7. web' \in {"off", "filling", "on"}
    BY ONLY <2>2, <1>3
  <2>8. QED
    BY ONLY <2>1, <2>4, <2>5, <2>6, <2>7, <1>2, <1>3, HistoryFits
<1>6. ASSUME NEW asked \in Asks, NEW by \in References, ScrollBack(asked, by)
      PROVE  HistoryTyped'
  <2>1. UNCHANGED <<clock, times, stored, log, buffer, plain, owed, web, ref, read, early, rare>>
    BY <1>6 DEF ScrollBack, store, plainVars, reading
  <2>2. PICK page \in BeforeRef(First(held), by, Limit(asked)) : held' = held \union page
    BY <1>6 DEF ScrollBack
  <2> DEFINE rows == {r \in log : Refers(First(held), by) /\ times[r] <= times[First(held)]}
  <2>3. page \in NewestPages(rows, Limit(asked)) /\ rows \subseteq log
    BY <2>2 DEF BeforeRef
  <2> HIDE DEF rows
  <2>4. page \subseteq rows
    BY <2>3, <1>1, LimitIs, NewestPage
  <2>5. held' \subseteq 1..Len(times)
    BY ONLY <2>2, <2>3, <2>4, <1>2
  <2>6. holes' \subseteq 1..Len(times)
    <3>1. holes' = holes \ held'
      BY <1>6 DEF ScrollBack
    <3>2. QED
      BY ONLY <3>1, <1>2
  <2>7. QED
    BY ONLY <2>1, <2>5, <2>6, <1>2, <1>3, HistoryFits
<1>7. CASE WebLeave
  <2>1. web' = "off" /\ UNCHANGED <<clock, times, stored, log, buffer, plain, owed, ref, held,
                                    holes, read, early, rare>>
    BY <1>7 DEF WebLeave, store, plainVars, reading
  <2>2. QED
    BY ONLY <2>1, <1>2, <1>3, HistoryFits
<1>8. CASE DelBuffer
  <2>1. /\ buffer' = [exists |-> FALSE, lastSeen |-> NoMarks] /\ owed' = {}
        /\ read' = NoMarks /\ early' = FALSE
        /\ UNCHANGED <<clock, times, stored, log, plain, web, ref, held, holes, rare>>
    BY <1>8 DEF DelBuffer, store, webVars
  <2>2. NoMarks \in [Marks -> 0..MaxClock] /\ NoMarks \in [Marks -> 0..Len(times)]
    BY ONLY <1>2 DEF NoMarks
  <2>3. buffer' \in BufferStates /\ ~ buffer'.exists
    BY ONLY <2>1, <2>2 DEF BufferStates
  <2>4. QED
    BY ONLY <2>1, <2>2, <2>3, <1>2, <1>3, HistoryFits
<1>9. ASSUME NEW id \in Ids, ReadAll(id) \/ \E m \in held : ReadTo(id, m)
      PROVE  HistoryTyped'
  <2>1. UNCHANGED <<clock, times, stored, log, plain, owed, web, ref, held, holes, early, rare>>
    BY <1>9 DEF ReadAll, ReadTo, store, plainVars, webVars
  <2>2. PICK t \in 0..MaxClock, m \in 0..Len(times) :
           /\ buffer' = [buffer EXCEPT !.lastSeen[id] = t]
           /\ read' = [read EXCEPT ![id] = m]
    <3>1. CASE ReadAll(id)
      <4>1. clock \in 0..MaxClock /\ Len(times) \in 0..Len(times)
        BY ONLY <1>2
      <4>2. QED
        BY <3>1, <4>1 DEF ReadAll
    <3>2. ASSUME NEW m \in held, ReadTo(id, m)
          PROVE  \E t \in 0..MaxClock, i \in 0..Len(times) :
                    /\ buffer' = [buffer EXCEPT !.lastSeen[id] = t]
                    /\ read' = [read EXCEPT ![id] = i]
      <4>1. m \in 1..Len(times) /\ times[m] \in 1..MaxClock
        BY <1>2
      <4>2. m \in 0..Len(times) /\ times[m] \in 0..MaxClock
        BY ONLY <4>1, <1>2
      <4>3. QED
        BY <3>2, <4>2 DEF ReadTo
    <3>3. QED
      BY <1>9, <3>1, <3>2
  <2>3. buffer' \in BufferStates /\ buffer'.exists = buffer.exists
    <3> DEFINE ls == [buffer.lastSeen EXCEPT ![id] = t]
    <3>1. buffer' = [buffer EXCEPT !.lastSeen = ls]
      BY <2>2
    <3>2. ls \in [Marks -> 0..MaxClock]
      BY ONLY <1>2, t \in 0..MaxClock
    <3> HIDE DEF ls
    <3>3. QED
      BY ONLY <3>1, <3>2, <1>2 DEF BufferStates
  <2>4. read' \in [Marks -> 0..Len(times)]
    BY ONLY <2>2, <1>2
  <2>5. QED
    BY ONLY <2>1, <2>3, <2>4, <1>2, <1>3, HistoryFits
<1>10. QED
  BY <1>4, <1>5, <1>6, <1>7, <1>8, <1>9

-----------------------------------------------------------------------------
(* The plain client.                                                       *)

\* The plain client is owed nothing that its mark lies behind, and nothing at all when it
\* is on: a dump that is not full gives every row from the mark on.
LEMMA OwesStep ==
    ASSUME HistoryTyped, OwesNothing, HistoryNext
    PROVE  OwesNothing'
<1>1. HistoryTyped
  OBVIOUS
<1>2. /\ clock \in 1..MaxClock /\ Len(times) \in Nat
      /\ \A m \in 1..Len(times) : times[m] \in 1..MaxClock /\ times[m] <= clock
      /\ log \subseteq 1..Len(times) /\ buffer \in BufferStates /\ owed \subseteq 1..Len(times)
      /\ buffer.lastSeen \in [Marks -> 0..MaxClock] /\ "auto" \in Marks /\ MaxClock \in Nat
  BY <1>1, HistoryTypes
<1>3. /\ plain = "on" \/ ~buffer.exists => owed = {}
      /\ \A m \in owed : times[m] >= buffer.lastSeen["auto"]
  BY DEF OwesNothing
<1>4. buffer.lastSeen["auto"] \in Nat
  BY ONLY <1>2
<1>5. ASSUME UNCHANGED <<times, buffer>>, owed' \subseteq owed,
             plain' = plain \/ plain' # "on" \/ owed = {}
      PROVE  OwesNothing'
  BY ONLY <1>3, <1>5 DEF OwesNothing
<1>6. ASSUME NEW lag \in 0..MaxLag, NEW delayed \in BOOLEAN, Arrive(lag, delayed)
      PROVE  OwesNothing'
  <2> DEFINE n == Len(times) + 1
  <2>1. plain' = plain
    BY <1>6 DEF Arrive
  <2>2. CASE plain \in {"on", "dumping"}
    <3>1. owed' = {}
      BY <1>3, <1>6, <2>2 DEF Arrive
    <3>2. QED
      BY <3>1 DEF OwesNothing
  <2>3. CASE plain \notin {"on", "dumping"}
    <3>1. plain = "off"
      BY <2>3 DEF HistoryTyped, HistoryTypeOK
    <3>2. /\ times'[n] = clock - lag /\ \A m \in 1..Len(times) : times'[m] = times[m]
          /\ buffer' = Added(log', times') /\ buffer'.exists = TRUE
          /\ \A m \in log' : times'[m] \in 1..MaxClock
      BY <3>1, <1>6, <1>1, ArriveIs
    <3>3. times'[n] \in 1..MaxClock
      BY <1>6, <1>1, ArriveIs
    <3>4. owed' = IF clock - lag < buffer.lastSeen["auto"] THEN owed ELSE owed \union {n}
      BY <2>3, <1>6 DEF Arrive
    <3> HIDE DEF n
    <3>5. \A m \in owed : times'[m] = times[m]
      BY ONLY <3>2, <1>2
    <3>6. CASE buffer.exists
      <4>1. buffer' = buffer
        <5>1. \A m \in log' : times'[m] \in 0..MaxClock
          BY <3>2, <1>2
        <5>2. QED
          BY <5>1, <3>2, <3>6, <1>1, AddedIs
      <4>2. \A m \in owed' : times'[m] >= buffer'.lastSeen["auto"]
        <5> SUFFICES ASSUME NEW m \in owed'
                     PROVE  times'[m] >= buffer.lastSeen["auto"]
          BY <4>1
        <5>1. CASE m \in owed
          BY ONLY <5>1, <3>5, <1>3
        <5>2. CASE m \notin owed
          <6>1. m = n /\ ~ (clock - lag < buffer.lastSeen["auto"])
            BY ONLY <5>2, <3>4, m \in owed'
          <6>2. times'[n] \in Nat /\ times'[n] = clock - lag
            BY ONLY <3>2, <3>3, <1>2
          <6>3. QED
            BY ONLY <6>1, <6>2, <1>4
        <5>3. QED
          BY <5>1, <5>2
      <4>3. QED
        BY ONLY <4>2, <2>1, <3>1, <3>2 DEF OwesNothing
    <3>7. CASE ~buffer.exists
      <4>1. buffer'.lastSeen["auto"] = 0
        <5>1. \A m \in log' : times'[m] \in 0..MaxClock
          BY <3>2, <1>2
        <5>2. QED
          BY <5>1, <3>2, <3>7, <1>1, <1>2, AddedIs
      <4>2. \A m \in owed' : m = n
        BY <1>3, <3>4, <3>7
      <4>3. times'[n] >= 0
        BY ONLY <3>3, <1>2
      <4>4. QED
        BY ONLY <4>1, <4>2, <4>3, <2>1, <3>1, <3>2 DEF OwesNothing
    <3>8. QED
      BY <3>6, <3>7
  <2>4. QED
    BY <2>2, <2>3
<1>7. CASE Dump
  <2> DEFINE mark == buffer.lastSeen["auto"]
  <2> DEFINE since == IF mark = 0 THEN clock - Window ELSE mark
  <2>1. CASE ~buffer.exists /\ UNCHANGED owed
    BY <2>1, <1>3, <1>7 DEF Dump, OwesNothing, store
  <2>2. ASSUME NEW page \in Between(since, clock, DumpSize),
               owed' = IF Cardinality(page) = DumpSize THEN {}
                       ELSE {m \in (owed \intersect log) \ page :
                                times[m] < clock /\ (mark = 0 => times[m] >= since)}
        PROVE  owed' = {}
    <3>1. CASE Cardinality(page) # DumpSize
      <4> DEFINE rows == {r \in log : since <= times[r] /\ times[r] < clock}
      <4>1. page \in NewestPages(rows, DumpSize) /\ rows \subseteq log
        BY <2>2 DEF Between
      <4>2. DumpSize \in Nat
        BY HistoryAssumption DEF HistoryAssumption
      <4>3. page = rows
        <5> HIDE DEF rows
        <5>1. QED
          BY <4>1, <4>2, <3>1, <1>1, NewestPage
      <4>4. ASSUME NEW m \in owed'
            PROVE  FALSE
        <5>1. m \in owed /\ m \in log /\ m \notin page /\ times[m] < clock
              /\ (mark = 0 => times[m] >= since)
          BY <4>4, <2>2, <3>1
        <5>2. mark # 0 => times[m] >= since
          BY ONLY <5>1, <1>3
        <5>3. times[m] \in Nat /\ since \in Int
          <6>1. Window \in Int /\ clock \in Int /\ mark \in Nat
            BY HistoryAssumption, <1>2, <1>4 DEF HistoryAssumption
          <6>2. times[m] \in Nat
            BY ONLY <5>1, <1>2
          <6> HIDE DEF mark
          <6>3. QED
            BY ONLY <6>1, <6>2
        <5> HIDE DEF mark, since
        <5>4. since <= times[m]
          BY ONLY <5>1, <5>2, <5>3
        <5>5. m \in rows
          BY <5>1, <5>4
        <5>6. QED
          BY <5>1, <5>5, <4>3
      <4>5. QED
        BY <4>4
    <3>2. QED
      BY <2>2, <3>1
  <2>3. owed' = {} \/ (~buffer.exists /\ UNCHANGED owed)
    BY <1>7, <2>2 DEF Dump
  <2>4. owed' = {} => OwesNothing'
    BY DEF OwesNothing
  <2>5. QED
    BY <2>1, <2>3, <2>4
<1>8. CASE Tick \/ Store \/ PlainLogin \/ WebLeave
  BY <1>5, <1>8 DEF Tick, Store, PlainLogin, WebLeave, store, plainVars
<1>9. CASE PlainLeave
  BY <1>5, <1>9 DEF PlainLeave, store
<1>10. ASSUME NEW cutoff \in 2..clock, Purge(cutoff)
       PROVE  OwesNothing'
  BY <1>5, <1>10 DEF Purge
<1>11. ASSUME NEW asked \in Asks, WebConnect(asked)
       PROVE  OwesNothing'
  BY <1>5, <1>11 DEF WebConnect, store, plainVars
<1>12. ASSUME NEW asked \in Asks, NEW by \in References, Fill(asked, by) \/ ScrollBack(asked, by)
       PROVE  OwesNothing'
  BY <1>5, <1>12 DEF Fill, ScrollBack, store, plainVars
<1>13. CASE DelBuffer
  BY <1>13 DEF DelBuffer, OwesNothing
<1>14. ASSUME NEW id \in Ids, ReadAll(id) \/ \E m \in held : ReadTo(id, m)
       PROVE  OwesNothing'
  <2>1. id # "auto"
    BY HistoryAssumption DEF HistoryAssumption
  <2>2. /\ UNCHANGED <<times, plain, owed>>
        /\ \E t : buffer' = [buffer EXCEPT !.lastSeen[id] = t]
    BY <1>14 DEF ReadAll, ReadTo, store, plainVars
  <2>3. buffer'.exists = buffer.exists /\ buffer'.lastSeen["auto"] = buffer.lastSeen["auto"]
    BY <2>1, <2>2, <1>2 DEF BufferStates
  <2>4. QED
    BY ONLY <2>2, <2>3, <1>3 DEF OwesNothing
<1>15. QED
  BY <1>6, <1>7, <1>8, <1>9, <1>10, <1>11, <1>12, <1>13, <1>14 DEF HistoryNext

-----------------------------------------------------------------------------
(* The bouncer client.                                                     *)

\* The order of the messages was there before one more arrived.
LEMMA OrderBefore ==
    ASSUME HistoryTyped, NEW lag \in 0..MaxLag, NEW delayed \in BOOLEAN, Arrive(lag, delayed),
           InOrder'
    PROVE  InOrder
<1>1. /\ Len(times) \in Nat /\ Len(times') = Len(times) + 1 /\ times' \in Seq(1..MaxClock)
      /\ \A m \in 1..Len(times) : times'[m] = times[m]
  BY HistoryTypes, ArriveIs
<1>2. DOMAIN times = 1..Len(times) /\ DOMAIN times' = 1..Len(times')
  BY <1>1, HistoryTypes, LenProperties
<1>3. \A m \in 1..Len(times) : m \in 1..Len(times')
  BY ONLY <1>1
<1>4. QED
  BY <1>1, <1>2, <1>3 DEF InOrder

\* Messages that have the order of their times.
LEMMA Ordered ==
    ASSUME HistoryTyped, InOrder, NEW m \in 1..Len(times), NEW o \in 1..Len(times)
    PROVE  /\ times[m] > times[o] => m > o
           /\ times[m] >= times[o] /\ m # o => m > o
           /\ m > o => times[m] > times[o]
<1>1. /\ m \in Nat /\ o \in Nat /\ times[m] \in Nat /\ times[o] \in Nat
      /\ m \in DOMAIN times /\ o \in DOMAIN times
  BY HistoryTypes
<1>2. /\ m < o => times[m] < times[o]
      /\ o < m => times[o] < times[m]
      /\ m = o => times[m] = times[o]
  BY <1>1 DEF InOrder
<1>3. QED
  BY ONLY <1>1, <1>2

\* Where messages and what is held stay, nothing is missed that was not.
LEMMA NoHoleStays ==
    ASSUME NoHoleSoFar, UNCHANGED <<times, held, holes>>,
           (log \union Unstored)' \subseteq log \union Unstored,
           \A m \in log \union Unstored : Asked(m)' => Asked(m)
    PROVE  NoHoleSoFar'
BY DEF NoHoleSoFar, InOrder

\* A message that arrives is newer than all others, and is held by a client that is there.
LEMMA ArriveHoles ==
    ASSUME HistoryTyped, NoHoleSoFar, AsksByHeld,
           NEW lag \in 0..MaxLag, NEW delayed \in BOOLEAN, Arrive(lag, delayed)
    PROVE  NoHoleSoFar' /\ AsksByHeld'
<1> DEFINE n == Len(times) + 1
<1> DEFINE now == ~delayed /\ Unstored = {}
<1>1. HistoryTyped
  OBVIOUS
<1>2. /\ n \in Nat /\ Len(times') = n
      /\ now => stored = Len(times) /\ stored' = n /\ log' = log \union {n}
      /\ ~now => stored' = stored /\ log' = log
  BY ArriveIs
<1>3. /\ web' = web /\ ref' = ref /\ holes' = holes
      /\ held' = IF web = "off" THEN held ELSE held \union {n}
  BY DEF Arrive
<1>4. /\ stored \in 0..Len(times) /\ log \subseteq 1..Len(times) /\ held \subseteq 1..Len(times)
      /\ ref \in 0..Len(times) /\ Len(times) \in Nat /\ Unstored \subseteq 1..Len(times)
  BY <1>1, HistoryTypes
<1>5. n = Len(times) + 1
  OBVIOUS
<1> HIDE DEF n
<1>6. Unstored' \subseteq Unstored \union {n}
  <2>1. CASE now
    <3>1. Unstored' = (n + 1)..n
      BY <1>2, <2>1 DEF Unstored
    <3>2. (n + 1)..n = {}
      BY ONLY <1>2
    <3>3. QED
      BY <3>1, <3>2
  <2>2. CASE ~now
    <3>1. Unstored' = (stored + 1)..n
      BY <1>2, <2>2 DEF Unstored
    <3>2. (stored + 1)..n \subseteq ((stored + 1)..Len(times)) \union {n}
      BY ONLY <1>2, <1>4, <1>5
    <3>3. QED
      BY <3>1, <3>2 DEF Unstored
  <2>3. QED
    BY <2>1, <2>2
<1>7. (log \union Unstored)' \subseteq (log \union Unstored) \union {n}
  BY <1>2, <1>6
<1>8. ASSUME InOrder', NEW m \in ((log \union Unstored) \ (held \union holes))', Asked(m)'
      PROVE  \A h \in held' : m < h
  <2>1. InOrder
    BY <1>8, <1>1, OrderBefore
  <2>2. m \in (log \union Unstored) \union {n} /\ m \notin held /\ m \notin holes
    BY <1>8, <1>7, <1>3
  <2>3. CASE m = n
    <3>1. web = "off" /\ held' = held
      BY <1>3, <1>8, <2>3
    <3>2. \A h \in held : ~ (n <= h)
      BY ONLY <1>4, <1>5
    <3>3. ~ (ref # 0 /\ n <= ref)
      BY ONLY <1>4, <1>5
    <3>4. QED
      BY <1>3, <1>8, <2>3, <3>1, <3>2, <3>3 DEF Asked
  <2>4. CASE m # n
    <3>1. m \in (log \union Unstored) \ (held \union holes) /\ m \in 1..Len(times)
      BY <2>2, <2>4, <1>4
    <3>2. Asked(m)
      <4>1. web # "off" \/ held' = held
        BY <1>3
      <4>2. QED
        BY <1>3, <1>8, <4>1 DEF Asked
    <3>3. \A h \in held : m < h
      BY <2>1, <3>1, <3>2 DEF NoHoleSoFar
    <3>4. m < n
      BY ONLY <3>1, <1>4, <1>5
    <3>5. \A h \in held' : h \in held \/ h = n
      BY <1>3
    <3>6. QED
      BY <3>3, <3>4, <3>5
  <2>5. QED
    BY <2>3, <2>4
<1>9. NoHoleSoFar'
  BY <1>8 DEF NoHoleSoFar
<1>10. AsksByHeld'
  <2>1. web = "on" => Unstored' \subseteq held' \union holes'
    BY <1>3, <1>6 DEF AsksByHeld
  <2>2. QED
    BY <1>3, <2>1 DEF AsksByHeld
<1>11. QED
  BY <1>9, <1>10

\* The newest page leaves out only what is older than it; a client that returns asks by
\* the last message it holds.
LEMMA ConnectHoles ==
    ASSUME HistoryTyped, NoHoleSoFar, AsksByHeld, NEW asked \in Asks, WebConnect(asked)
    PROVE  NoHoleSoFar' /\ AsksByHeld'
<1>1. HistoryTyped
  OBVIOUS
<1>2. UNCHANGED <<times, stored, log>> /\ web = "off"
  BY DEF WebConnect, store
<1>3. Unstored' = Unstored /\ InOrder' = InOrder
  BY <1>2 DEF Unstored, InOrder
<1>4. /\ log \subseteq 1..Len(times) /\ held \subseteq 1..Len(times) /\ Len(times) \in Nat
      /\ Unstored \subseteq 1..Len(times) /\ ref \in 0..Len(times)
      /\ \A m \in 1..Len(times) : times[m] \in 1..MaxClock /\ times[m] <= clock
  BY <1>1, HistoryTypes
<1>5. CASE /\ held = {} /\ web' = "on" /\ held' \in Latest(Limit(asked))
           /\ holes' = Unstored /\ ref' = ref
  <2>1. ref = 0
    BY <1>5 DEF AsksByHeld
  <2>2. AsksByHeld'
    BY <2>1, <1>5, <1>3 DEF AsksByHeld
  <2> DEFINE rows == {r \in log : times[r] <= clock}
  <2>3. held' \in NewestPages(rows, Limit(asked)) /\ rows = log
    BY <1>5, <1>4 DEF Latest
  <2> HIDE DEF rows
  <2>4. held' \subseteq log /\ \A x \in held', o \in log \ held' : times[x] >= times[o]
    BY <2>3, <1>1, LimitIs, NewestPage
  <2>5. ASSUME InOrder, NEW m \in log \ held', NEW h \in held'
        PROVE  m < h
    <3>1. m \in 1..Len(times) /\ h \in 1..Len(times) /\ m # h
      BY <2>4, <1>4
    <3>2. times[h] >= times[m]
      BY <2>4
    <3>3. h > m
      BY <3>1, <3>2, <1>1, <2>5, Ordered
    <3>4. QED
      BY ONLY <3>1, <3>3
  <2>6. NoHoleSoFar'
    BY <2>5, <1>2, <1>3, <1>5 DEF NoHoleSoFar
  <2>7. QED
    BY <2>2, <2>6
<1>6. CASE /\ held # {} /\ web' = "filling" /\ UNCHANGED <<held, holes>>
           /\ ref' = IF ref = 0 THEN Last(held) ELSE ref
  <2>1. Last(held) \in held
    BY <1>1, <1>4, <1>6, LastOf
  <2>2. Last(held) # 0
    BY ONLY <2>1, <1>4
  <2>3. AsksByHeld'
    BY <2>1, <2>2, <1>6 DEF AsksByHeld
  <2>4. \A m : Asked(m)' => Asked(m)
    BY <2>1, <1>2, <1>6 DEF Asked
  <2>5. NoHoleSoFar'
    BY <2>4, <1>2, <1>3, <1>6, NoHoleStays
  <2>6. QED
    BY <2>3, <2>5
<1>7. QED
  BY <1>5, <1>6 DEF WebConnect

\* A page after the reference is followed by all that it leaves out.
LEMMA FillHoles ==
    ASSUME HistoryTyped, NoHoleSoFar, AsksByHeld, NEW asked \in Asks, NEW by, Fill(asked, by)
    PROVE  NoHoleSoFar' /\ AsksByHeld'
<1>1. HistoryTyped
  OBVIOUS
<1>2. UNCHANGED <<times, stored, log>> /\ web = "filling"
  BY DEF Fill, store
<1>3. Unstored' = Unstored /\ InOrder' = InOrder
  BY <1>2 DEF Unstored, InOrder
<1>4. /\ log \subseteq 1..stored /\ log \subseteq 1..Len(times) /\ held \subseteq 1..Len(times)
      /\ Unstored \subseteq 1..Len(times) /\ ref \in 0..Len(times) /\ Len(times) \in Nat
      /\ stored \in 0..Len(times)
  BY <1>1, HistoryTypes
<1>5. ref \in held /\ ref # 0
  BY <1>2 DEF AsksByHeld
<1>6. PICK page \in AfterRef(ref, by, Limit(asked)) :
          LET more == Cardinality(page) = Limit(asked)
          IN  /\ held' = held \union page
              /\ web' = IF more THEN web ELSE "on"
              /\ ref' = IF more THEN Last(page) ELSE 0
              /\ holes' = (CASE more -> holes
                             [] ~more /\ Refers(ref, by) -> holes \union Unstored
                             [] OTHER -> 1..Len(times)) \ held'
  BY DEF Fill
<1> DEFINE rows == {r \in log : Refers(ref, by) /\ times[r] > times[ref]}
<1>7. /\ page \subseteq rows /\ (Cardinality(page) # Limit(asked) => page = rows)
      /\ (Cardinality(page) # 0 => page # {})
      /\ \A x \in page, o \in rows \ page : times[x] <= times[o]
  BY <1>1, LimitIs, AfterPage
<1>8. page \subseteq log /\ held' = held \union page
  BY <1>6, <1>7
<1>9. ASSUME InOrder, NEW h \in page
      PROVE  h > ref /\ h \in 1..Len(times)
  <2>1. h \in 1..Len(times) /\ ref \in 1..Len(times) /\ times[h] > times[ref]
    BY <1>7, <1>4, <1>5
  <2>2. QED
    BY <2>1, <1>1, <1>9, Ordered
\* What is older than the reference was not missed, and a page is newer.
<1>10. ASSUME InOrder, NEW m \in (log \union Unstored) \ (held \union holes), m <= ref
       PROVE  \A h \in held' : m < h
  <2>1. \A h \in held : m < h
    BY <1>5, <1>10 DEF NoHoleSoFar, Asked
  <2>2. m \in Nat /\ ref \in Nat
    BY <1>4
  <2>3. \A h \in page : m < h
    <3> SUFFICES ASSUME NEW h \in page
                 PROVE  m < h
      OBVIOUS
    <3>1. h > ref /\ h \in Nat
      BY <1>9, <1>10
    <3>2. QED
      BY ONLY <3>1, <2>2, <1>10
  <2>4. QED
    BY <2>1, <2>3, <1>8
\* What is newer than the reference and stored is a row.
<1>11. ASSUME InOrder, NEW m \in log, ~ (m <= ref), Refers(ref, by)
       PROVE  m \in rows
  <2>1. m \in 1..Len(times) /\ ref \in 1..Len(times)
    BY <1>4, <1>5, <1>11
  <2>2. m > ref
    BY ONLY <2>1, <1>11
  <2>3. times[m] > times[ref]
    BY <2>1, <2>2, <1>1, <1>11, Ordered
  <2>4. QED
    BY <1>11, <2>3
<1>12. CASE Cardinality(page) = Limit(asked)
  <2>1. page # {} /\ page \subseteq 1..Len(times)
    BY <1>12, <1>7, <1>8, <1>4, LimitIs
  <2>2. Last(page) \in page /\ (InOrder => \A o \in page : o <= Last(page))
    BY <2>1, <1>1, LastOf
  <2>3. web' = "filling" /\ ref' = Last(page) /\ holes' = holes \ held'
    BY <1>6, <1>12, <1>2
  <2>4. AsksByHeld'
    <3>1. Last(page) # 0
      BY ONLY <2>1, <2>2
    <3>2. QED
      BY <3>1, <2>2, <2>3, <1>8 DEF AsksByHeld
  <2>5. ASSUME InOrder, NEW m \in (log \union Unstored) \ (held' \union holes'), Asked(m)'
        PROVE  \A h \in held' : m < h
    <3>1. m <= Last(page)
      BY <2>5, <2>3 DEF Asked
    <3>2. m \in (log \union Unstored) \ (held \union holes) /\ m \notin page
      BY <2>3, <2>5, <1>8
    <3>3. m \in log
      <4>1. Last(page) \in 1..stored
        BY <2>2, <1>8, <1>4
      <4>2. m \notin Unstored
        BY ONLY <3>1, <4>1, <1>4 DEF Unstored
      <4>3. QED
        BY <3>2, <4>2
    <3>4. CASE ~ (m <= ref)
      <4>1. Refers(ref, by)
        BY <2>1, <1>7
      <4>2. m \in rows
        BY <3>3, <3>4, <4>1, <2>5, <1>11
      <4>3. times[Last(page)] <= times[m]
        BY <4>2, <3>2, <2>2, <1>7
      <4>4. m \in 1..Len(times) /\ Last(page) \in 1..Len(times) /\ m # Last(page)
        BY <3>2, <3>3, <2>1, <2>2, <1>4
      <4>5. times[m] \in Nat /\ times[Last(page)] \in Nat
        BY <4>4, <1>1, HistoryTypes, SMTT(20)
      <4>6. times[m] >= times[Last(page)]
        BY ONLY <4>3, <4>5
      <4>7. m > Last(page)
        BY <4>4, <4>6, <1>1, <2>5, Ordered
      <4>8. QED
        BY ONLY <4>4, <4>7, <3>1
    <3>5. CASE m <= ref
      BY <3>2, <3>5, <2>5, <1>10
    <3>6. QED
      BY <3>4, <3>5
  <2>6. NoHoleSoFar'
    BY <2>5, <1>2, <1>3 DEF NoHoleSoFar
  <2>7. QED
    BY <2>4, <2>6
<1>13. CASE Cardinality(page) # Limit(asked)
  <2>1. web' = "on" /\ ref' = 0 /\ page = rows
    BY <1>6, <1>7, <1>13
  <2>2. CASE Refers(ref, by)
    <3>1. holes' = (holes \union Unstored) \ held'
      BY <1>6, <1>13, <2>2
    <3>2. AsksByHeld'
      BY <2>1, <3>1, <1>3 DEF AsksByHeld
    <3>3. ASSUME InOrder, NEW m \in (log \union Unstored) \ (held' \union holes')
          PROVE  \A h \in held' : m < h
      <4>1. m \in (log \union Unstored) \ (held \union holes) /\ m \in log /\ m \notin page
        BY <3>1, <3>3, <1>8
      <4>2. m <= ref
        BY <4>1, <2>1, <2>2, <3>3, <1>11
      <4>3. QED
        BY <4>1, <4>2, <3>3, <1>10
    <3>4. NoHoleSoFar'
      BY <3>3, <1>2, <1>3 DEF NoHoleSoFar
    <3>5. QED
      BY <3>2, <3>4
  <2>3. CASE ~ Refers(ref, by)
    <3>1. holes' = 1..Len(times) \ held'
      BY <1>6, <1>13, <2>3
    <3>2. /\ (log \union Unstored) \ (held' \union holes') = {}
          /\ Unstored \subseteq held' \union holes'
      BY <3>1, <1>4
    <3>3. AsksByHeld'
      BY <2>1, <3>2, <1>3 DEF AsksByHeld
    <3>4. NoHoleSoFar'
      BY <3>2, <1>2, <1>3 DEF NoHoleSoFar
    <3>5. QED
      BY <3>3, <3>4
  <2>4. QED
    BY <2>2, <2>3
<1>14. QED
  BY <1>12, <1>13

\* A page before the oldest message held is older than it and has no hole.
LEMMA ScrollHoles ==
    ASSUME HistoryTyped, NoHoleSoFar, AsksByHeld, NEW asked \in Asks, NEW by,
           ScrollBack(asked, by)
    PROVE  NoHoleSoFar' /\ AsksByHeld'
<1>1. HistoryTyped
  OBVIOUS
<1>2. UNCHANGED <<times, stored, log, web, ref>> /\ web = "on" /\ held # {}
      /\ holes' = holes \ held'
  BY DEF ScrollBack, store
<1>3. Unstored' = Unstored /\ InOrder' = InOrder
  BY <1>2 DEF Unstored, InOrder
<1>4. /\ log \subseteq 1..Len(times) /\ held \subseteq 1..Len(times) /\ Len(times) \in Nat
      /\ MaxClock \in Nat /\ \A i \in 1..Len(times) : times[i] \in 1..MaxClock
  BY <1>1, HistoryTypes
<1> DEFINE f == First(held)
<1>5. f \in held /\ (InOrder => \A o \in held : f <= o)
  BY <1>1, <1>2, <1>4, FirstOf
<1>6. PICK page \in BeforeRef(f, by, Limit(asked)) : held' = held \union page
  BY DEF ScrollBack
<1> HIDE DEF f
<1> DEFINE rows == {r \in log : Refers(f, by) /\ times[r] <= times[f]}
<1>7. page \in NewestPages(rows, Limit(asked)) /\ rows \subseteq log
  BY <1>6 DEF BeforeRef
<1>8. page \subseteq rows /\ \A x \in page, o \in rows \ page : times[x] >= times[o]
  <2> HIDE DEF rows
  <2>1. QED
    BY <1>7, <1>1, LimitIs, NewestPage
<1>9. AsksByHeld'
  BY <1>2, <1>3, <1>6 DEF AsksByHeld
<1>10. ASSUME InOrder, NEW m \in (log \union Unstored) \ (held' \union holes')
       PROVE  \A h \in held' : m < h
  <2>1. m \in (log \union Unstored) \ (held \union holes) /\ m \notin page /\ m \in log
    BY <1>2, <1>6, <1>10 DEF AsksByHeld
  <2>2. \A h \in held : m < h
    BY <2>1, <1>2, <1>10 DEF NoHoleSoFar, Asked
  <2>3. ASSUME NEW h \in page
        PROVE  m < h
    <3>1. m \in 1..Len(times) /\ h \in 1..Len(times) /\ f \in 1..Len(times) /\ m # h
      BY <2>1, <1>4, <1>5, <1>8
    <3>2. times[m] < times[f]
      <4>1. f > m
        BY ONLY <2>2, <3>1, <1>5
      <4>2. times[f] > times[m]
        BY <4>1, <3>1, <1>1, <1>10, Ordered
      <4>3. times[f] \in Nat /\ times[m] \in Nat
        BY ONLY <3>1, <1>4
      <4>4. QED
        BY ONLY <4>2, <4>3
    <3>3. times[m] <= times[f]
      <4>1. times[f] \in Nat /\ times[m] \in Nat
        BY ONLY <3>1, <1>4
      <4>2. QED
        BY ONLY <4>1, <3>2
    <3>4. m \in rows
      BY <2>1, <3>3, <1>8
    <3>5. times[h] >= times[m]
      BY <2>1, <3>4, <1>8
    <3>6. h > m
      BY <3>1, <3>5, <1>1, <1>10, Ordered
    <3>7. QED
      BY ONLY <3>1, <3>6
  <2>4. QED
    BY <2>2, <2>3, <1>6
<1>11. NoHoleSoFar'
  BY <1>10, <1>2, <1>3 DEF NoHoleSoFar
<1>12. QED
  BY <1>9, <1>11

\* The history of the bouncer client has no hole after any step.
LEMMA HolesStep ==
    ASSUME HistoryTyped, NoHoleSoFar, AsksByHeld, HistoryNext
    PROVE  NoHoleSoFar' /\ AsksByHeld'
<1>1. ASSUME UNCHANGED <<times, web, ref, held, holes>>,
             (log \union Unstored)' \subseteq log \union Unstored, Unstored' \subseteq Unstored
      PROVE  NoHoleSoFar' /\ AsksByHeld'
  <2>1. NoHoleSoFar'
    <3>1. \A m : Asked(m)' => Asked(m)
      BY <1>1 DEF Asked
    <3>2. QED
      BY <1>1, <3>1, NoHoleStays
  <2>2. QED
    BY <1>1, <2>1 DEF AsksByHeld
<1>2. ASSUME UNCHANGED <<store, webVars>>
      PROVE  NoHoleSoFar' /\ AsksByHeld'
  BY <1>1, <1>2 DEF store, webVars, Unstored
<1>3. CASE Tick \/ PlainLogin \/ Dump \/ PlainLeave \/ DelBuffer
  BY <1>2, <1>3 DEF Tick, PlainLogin, Dump, PlainLeave, DelBuffer
<1>4. CASE Store
  <2>1. /\ Unstored # {} /\ stored' = stored + 1 /\ log' = log \union {stored + 1}
        /\ UNCHANGED <<times, web, ref, held, holes>>
    BY <1>4 DEF Store, webVars
  <2>2. stored \in Nat /\ Len(times) \in Nat
    BY HistoryTypes
  <2>3. Unstored' \subseteq Unstored /\ stored + 1 \in Unstored
    BY ONLY <2>1, <2>2 DEF Unstored
  <2>4. QED
    BY <2>1, <2>3, <1>1
<1>5. ASSUME NEW cutoff \in 2..clock, Purge(cutoff)
      PROVE  NoHoleSoFar' /\ AsksByHeld'
  <2>1. log' \subseteq log /\ UNCHANGED <<times, stored, web, ref, held, holes>>
    BY <1>5 DEF Purge, webVars
  <2>2. QED
    BY <2>1, <1>1 DEF Unstored
<1>6. CASE WebLeave
  <2>1. web' = "off" /\ web # "off" /\ UNCHANGED <<times, stored, log, ref, held, holes>>
    BY <1>6 DEF WebLeave, store
  <2>2. \A m : Asked(m)' => Asked(m)
    BY <2>1 DEF Asked, AsksByHeld, HistoryTyped, HistoryTypeOK
  <2>3. NoHoleSoFar'
    BY <2>1, <2>2, NoHoleStays DEF Unstored
  <2>4. QED
    BY <2>1, <2>3 DEF AsksByHeld
<1>7. ASSUME NEW id \in Ids, ReadAll(id) \/ \E m \in held : ReadTo(id, m)
      PROVE  NoHoleSoFar' /\ AsksByHeld'
  BY <1>2, <1>7 DEF ReadAll, ReadTo
<1>8. QED
  BY <1>3, <1>4, <1>5, <1>6, <1>7, ArriveHoles, ConnectHoles, FillHoles, ScrollHoles
     DEF HistoryNext

-----------------------------------------------------------------------------
(* How far the user has read.                                              *)

\* Of messages with an order, those after the one read last by the anchor are newer.
LEMMA NewerThanAnchor ==
    ASSUME HistoryTyped, MarksDivide, InOrder, ~early, NEW m \in 1..Len(times), m > read["anchor"]
    PROVE  times[m] > buffer.lastSeen["anchor"]
<1>1. HistoryTyped
  OBVIOUS
<1> DEFINE a == read["anchor"]
<1> DEFINE seen == buffer.lastSeen["anchor"]
<1>2. /\ a \in 0..Len(times) /\ seen \in 0..MaxClock /\ MaxClock \in Nat /\ Len(times) \in Nat
      /\ \A i \in 1..Len(times) : times[i] \in 1..MaxClock
  BY <1>1, HistoryTypes
<1>3. (a = 0 <=> seen = 0) /\ (a # 0 => times[a] >= seen)
  BY DEF MarksDivide
<1>4. m > a /\ m \in 1..Len(times)
  OBVIOUS
<1> HIDE DEF a, seen
<1>5. ASSUME a = 0
      PROVE  times[m] > seen
  BY ONLY <1>2, <1>3, <1>4, <1>5
<1>6. ASSUME a # 0
      PROVE  times[m] > seen
  <2>1. a \in 1..Len(times)
    BY ONLY <1>2, <1>6
  <2>2. times[m] > times[a]
    BY <2>1, <1>1, <1>4, Ordered
  <2>3. times[m] \in Nat /\ times[a] \in Nat
    BY ONLY <1>2, <1>4, <2>1
  <2>4. QED
    BY ONLY <1>2, <1>3, <1>6, <2>2, <2>3
<1>7. times[m] > seen
  BY <1>5, <1>6
<1>8. QED
  BY <1>7 DEF seen

\* Where messages and what is read stay, the marks still divide them.
LEMMA MarksStay ==
    ASSUME HistoryTyped, MarksDivide, UNCHANGED <<times, reading>>,
           stored' \in Nat, stored' >= stored,
           \A m \in log' : m \in log \/ m \in (stored + 1)..stored',
           buffer'.exists = buffer.exists, ~buffer.exists => buffer' = buffer,
           \A k \in Marks : k # "auto" => buffer'.lastSeen[k] = buffer.lastSeen[k]
    PROVE  MarksDivide'
<1>1. HistoryTyped
  OBVIOUS
<1>2. /\ read["anchor"] \in 0..Len(times) /\ stored \in 0..Len(times) /\ Len(times) \in Nat
      /\ log \subseteq 1..Len(times)
  BY <1>1, HistoryTypes
<1>3. /\ times' = times /\ read' = read /\ early' = early /\ InOrder' = InOrder
      /\ buffer'.lastSeen["anchor"] = buffer.lastSeen["anchor"]
      /\ \A k \in Ids : buffer'.lastSeen[k] = buffer.lastSeen[k]
  BY HistoryAssumption DEF reading, InOrder, Marks, HistoryAssumption
<1>4. ~buffer'.exists => read' = NoMarks /\ buffer'.lastSeen = NoMarks
  BY <1>3 DEF MarksDivide
<1>5. ASSUME read["anchor"] <= stored
      PROVE  /\ read["anchor"] <= stored'
             /\ \A m \in log' : m <= read["anchor"] => m \in log
  <2>1. read["anchor"] <= stored'
    BY ONLY <1>2, <1>5, stored' \in Nat, stored' >= stored
  <2>2. \A m \in log' : m <= read["anchor"] => m \in log
    BY ONLY <1>2, <1>5, \A m \in log' : m \in log \/ m \in (stored + 1)..stored'
  <2>3. QED
    BY <2>1, <2>2
<1>6. QED
  BY <1>3, <1>4, <1>5 DEF MarksDivide, NoMarks, Marks

\* The anchor of a buffer that the first message makes divides the messages of the store.
LEMMA AnchorDivides ==
    ASSUME NEW b \in Nat, NEW rows, NEW ts, NEW n \in Nat, n # 0,
           rows \subseteq 1..n, n \in rows, rows # {n},
           \A m \in 1..n : ts[m] \in 1..b,
           \A m, o \in 1..n : m < o => ts[m] < ts[o]
    PROVE  /\ NthLatest(rows, ts, 1) # 0 /\ n - 1 \in 1..n
           /\ NthLatest(rows, ts, 1) <= ts[n - 1]
           /\ \A m \in rows : m <= n - 1 => ts[m] <= NthLatest(rows, ts, 1)
<1>1. IsFiniteSet(rows) /\ rows \subseteq Nat /\ Cardinality(rows) \in Nat
  <2>1. IsFiniteSet(1..n)
    BY FS_Interval
  <2>2. IsFiniteSet(rows)
    BY <2>1, FS_Subset
  <2>3. QED
    BY <2>2, FS_CardinalityType
<1>2. PICK z \in rows : z # n
  OBVIOUS
<1>3. Cardinality(rows) > 1
  <2>1. {z, n} \subseteq rows /\ IsFiniteSet({z, n}) /\ Cardinality({z, n}) = 2
    <3>1. IsFiniteSet({n}) /\ Cardinality({n}) = 1
      BY FS_Singleton
    <3>2. IsFiniteSet({n} \union {z}) /\ Cardinality({n} \union {z}) = Cardinality({n}) + 1
      BY <3>1, <1>2, FS_AddElement
    <3>3. {n} \union {z} = {z, n}
      OBVIOUS
    <3>4. QED
      BY <3>1, <3>2, <3>3, <1>2
  <2>2. Cardinality({z, n}) <= Cardinality(rows)
    BY <2>1, <1>1, FS_Subset
  <2>3. QED
    BY ONLY <2>1, <2>2, <1>1
<1>4. HaveOrder(b, rows, ts)
  BY DEF HaveOrder
<1>5. PICK m \in rows : NthIs(rows, ts, 1, m)
  BY <1>1, <1>3, <1>4, NthIsExact
<1>51. /\ NthLatest(rows, ts, 1) = ts[m]
       /\ IsFiniteSet({o \in rows : o > m}) /\ Cardinality({o \in rows : o > m}) = 1
  BY <1>5 DEF NthIs
<1> DEFINE above == {o \in rows : o > m}
<1>6. m # n
  <2>1. CASE m = n
    <3>0. \A p \in rows : ~ (p > n)
      BY ONLY rows \subseteq 1..n, n \in Nat
    <3>1. above = {}
      BY <2>1, <3>0
    <3>2. Cardinality(above) = 0
      BY <3>1, FS_EmptySet
    <3>3. QED
      BY <3>2, <1>51
  <2>2. QED
    BY <2>1
<1>7. n \in above
  BY <1>6
<1>8. above = {n}
  <2>1. PICK y : above = {y}
    <3> HIDE DEF above
    <3>1. IsFiniteSet(above) /\ Cardinality(above) = 1
      BY <1>51 DEF above
    <3>2. QED
      BY <3>1, FS_Singleton
  <2>2. QED
    BY <2>1, <1>7
<1>9. \A p \in rows : p # n => p <= m
  BY <1>8
<1>10. m \in 1..n /\ n - 1 \in 1..n /\ m <= n - 1
  BY <1>6
<1>11. ts[m] <= ts[n - 1] /\ ts[m] # 0
  BY <1>10
<1>12. \A p \in rows : p <= n - 1 => ts[p] <= ts[m]
  BY <1>9, <1>10
<1>13. QED
  BY <1>51, <1>10, <1>11, <1>12

\* A message that arrives is not read; the buffer that it makes has all before it read.
LEMMA ArriveMarks ==
    ASSUME HistoryTyped, MarksDivide, NEW lag \in 0..MaxLag, NEW delayed \in BOOLEAN,
           Arrive(lag, delayed)
    PROVE  MarksDivide'
<1> DEFINE n == Len(times) + 1
<1> DEFINE now == ~delayed /\ Unstored = {}
<1> DEFINE a == read["anchor"]
<1>1. HistoryTyped
  OBVIOUS
<1>2. /\ n \in Nat /\ Len(times') = n /\ times' \in Seq(1..MaxClock)
      /\ \A m \in 1..Len(times) : times'[m] = times[m]
      /\ now => stored = Len(times) /\ stored' = n /\ log' = log \union {n}
      /\ ~now => stored' = stored /\ log' = log
      /\ buffer'.exists = TRUE
      /\ \A k \in Marks : k # "auto" => buffer'.lastSeen[k] = Added(log', times').lastSeen[k]
      /\ \A m \in log' : times'[m] \in 1..MaxClock
  BY ArriveIs
<1>3. /\ read' = IF buffer.exists \/ log' \subseteq {n} THEN read
                 ELSE [read EXCEPT !["anchor"] = n - 1]
      /\ early' = (early \/ (~buffer.exists /\ ~now))
  BY DEF Arrive
<1>4. /\ stored \in 0..Len(times) /\ Len(times) \in Nat /\ log \subseteq 1..Len(times)
      /\ log \subseteq 1..stored /\ MaxClock \in Nat
      /\ \A m \in 1..Len(times) : times[m] \in 1..MaxClock
      /\ read \in [Marks -> 0..Len(times)] /\ "anchor" \in Marks /\ "auto" \in Marks
      /\ a \in 0..Len(times)
  BY <1>1, HistoryTypes
<1>41. \A m \in 1..n : times'[m] \in 1..MaxClock
  BY <1>2, ElementOfSeq
<1>5. \A k \in Ids : k \in Marks /\ k # "auto" /\ k # "anchor"
  BY HistoryAssumption DEF Marks, HistoryAssumption
<1>6. \A m \in log' : times'[m] \in 0..MaxClock
  BY <1>2
<1>7. InOrder' => InOrder /\ \A m, o \in 1..n : m < o => times'[m] < times'[o]
  <2>1. InOrder' => InOrder
    BY <1>1, OrderBefore
  <2>2. DOMAIN times' = 1..n
    BY <1>2, LenProperties
  <2>3. QED
    BY <2>1, <2>2 DEF InOrder
<1>70. n = Len(times) + 1
  OBVIOUS
<1> HIDE DEF n
\* The buffer is there.
<1>8. CASE buffer.exists
  <2>1. read' = read /\ (~early' => ~early)
    BY <1>3, <1>8
  <2>2. \A k \in Marks : k # "auto" => buffer'.lastSeen[k] = buffer.lastSeen[k]
    BY <1>2, <1>6, <1>8, <1>1, AddedIs
  <2>3. \A k \in Ids : buffer'.lastSeen[k] = buffer.lastSeen[k]
    BY <2>2, <1>5
  <2>4. buffer'.lastSeen["anchor"] = buffer.lastSeen["anchor"]
    BY <2>2, <1>4
  <2>5. ASSUME InOrder', ~early', NEW k \in Ids, NEW m \in 1..Len(times'), m <= read'[k]
        PROVE  times'[m] <= buffer'.lastSeen[k]
    <3>1. read[k] \in 0..Len(times) /\ m <= read[k]
      BY <2>1, <2>5, <1>4, <1>5
    <3>2. m \in 1..n
      BY <2>5, <1>2
    <3>3. m \in 1..Len(times)
      BY ONLY <3>1, <3>2, <1>4, <1>70
    <3>4. times[m] <= buffer.lastSeen[k]
      BY <3>1, <3>3, <2>1, <2>5, <1>7 DEF MarksDivide
    <3>5. QED
      BY <3>3, <3>4, <2>3, <1>2
  <2>6. ASSUME InOrder', ~early'
        PROVE  /\ read'["anchor"] <= stored'
               /\ read'["anchor"] = 0 <=> buffer'.lastSeen["anchor"] = 0
               /\ \A m \in log' : m <= read'["anchor"] => times'[m] <= buffer'.lastSeen["anchor"]
               /\ read'["anchor"] # 0 => times'[read'["anchor"]] >= buffer'.lastSeen["anchor"]
    <3>1. /\ a <= stored /\ (a = 0 <=> buffer.lastSeen["anchor"] = 0)
          /\ \A m \in log : m <= a => times[m] <= buffer.lastSeen["anchor"]
          /\ a # 0 => times[a] >= buffer.lastSeen["anchor"]
      BY <2>6, <2>1, <1>7 DEF MarksDivide
    <3>2. stored' = stored \/ stored' = n
      BY <1>2
    <3>3. a <= stored' /\ ~ (n <= a)
      BY ONLY <3>1, <3>2, <1>4, <1>70
    <3>4. \A m \in log' : m \in log \/ m = n
      BY <1>2
    <3>5. \A m \in log' : m <= a => times'[m] <= buffer.lastSeen["anchor"]
      BY <3>1, <3>3, <3>4, <1>2, <1>4
    <3>6. a # 0 => a \in 1..Len(times)
      BY ONLY <1>4
    <3>7. a # 0 => times'[a] >= buffer.lastSeen["anchor"]
      BY <3>1, <3>6, <1>2
    <3>8. QED
      BY <3>1, <3>3, <3>5, <3>7, <2>1, <2>4
  <2>7. read'["auto"] = 0 /\ \A k \in Ids : read'[k] = 0 <=> buffer'.lastSeen[k] = 0
    BY <2>1, <2>3 DEF MarksDivide
  <2>8. QED
    BY <2>5, <2>6, <2>7, <1>2 DEF MarksDivide
\* The message makes it.
<1>9. CASE ~buffer.exists
  <2>1. read = NoMarks /\ buffer.lastSeen = NoMarks
    BY <1>9 DEF MarksDivide
  <2>2. /\ Added(log', times').lastSeen["anchor"] = NthLatest(log', times', 1)
        /\ \A k \in Marks : k # "anchor" => Added(log', times').lastSeen[k] = 0
    BY <1>9, <1>6, <1>1, AddedIs
  <2>3. buffer'.lastSeen["anchor"] = NthLatest(log', times', 1)
    BY <2>2, <1>2, <1>4
  <2>4. \A k \in Ids : buffer'.lastSeen[k] = 0 /\ read'[k] = 0
    BY <2>1, <2>2, <1>2, <1>3, <1>5 DEF NoMarks
  <2>5. read'["auto"] = 0
    BY <2>1, <1>3, <1>4 DEF NoMarks
  <2>6. ASSUME InOrder', ~early', NEW k \in Ids, NEW m \in 1..Len(times'), m <= read'[k]
        PROVE  times'[m] <= buffer'.lastSeen[k]
    BY <2>4, <2>6, <1>2
  <2>7. ASSUME InOrder', ~early'
        PROVE  /\ read'["anchor"] <= stored'
               /\ read'["anchor"] = 0 <=> buffer'.lastSeen["anchor"] = 0
               /\ \A m \in log' : m <= read'["anchor"] => times'[m] <= buffer'.lastSeen["anchor"]
               /\ read'["anchor"] # 0 => times'[read'["anchor"]] >= buffer'.lastSeen["anchor"]
    <3>1. stored' = n /\ log' = log \union {n}
      BY <2>7, <1>3, <1>9, <1>2
    <3>2. CASE log' \subseteq {n}
      <4>1. read'["anchor"] = 0
        BY <3>2, <2>1, <1>3, <1>4 DEF NoMarks
      <4>2. NthLatest(log', times', 1) = 0
        <5> DEFINE k == 1
        <5>1. log' = {n}
          BY <3>1, <3>2
        <5>2. IsFiniteSet(log') /\ Cardinality(log') <= k /\ k \in Nat
          <6>1. IsFiniteSet({n}) /\ Cardinality({n}) = 1
            BY FS_Singleton
          <6>2. IsFiniteSet(log') /\ Cardinality(log') = 1
            BY <5>1, <6>1
          <6>3. QED
            BY ONLY <6>2
        <5>3. HaveOrder(MaxClock, log', times')
          BY <5>1, <1>2, <1>6 DEF HaveOrder
        <5> HIDE DEF k
        <5>4. NthLatest(log', times', k) = 0
          BY ONLY <5>2, <5>3, <1>4, NthIsExact
        <5>5. QED
          BY <5>4 DEF k
      <4>3. \A m \in log' : ~ (m <= 0)
        BY <3>1, <3>2, <1>4, <1>70
      <4>4. 0 <= stored'
        BY <3>1, <1>2
      <4>5. QED
        BY <4>1, <4>2, <4>3, <4>4, <2>3
    <3>3. CASE ~ (log' \subseteq {n})
      <4>1. read'["anchor"] = n - 1
        BY <3>3, <1>3, <1>4, <1>9
      <4> DEFINE rows == log'
      <4> DEFINE ts == times'
      <4>2. /\ rows \subseteq 1..n /\ n \in rows /\ rows # {n} /\ n # 0
            /\ \A m \in 1..n : ts[m] \in 1..MaxClock
            /\ \A m, o \in 1..n : m < o => ts[m] < ts[o]
        <5>0. n \in 1..n /\ n # 0 /\ \A m \in 1..Len(times) : m \in 1..n
          BY ONLY <1>4, <1>70
        <5>1. rows \subseteq 1..n
          BY <3>1, <1>4, <5>0
        <5>2. n \in rows /\ rows # {n} /\ n # 0
          BY <3>1, <3>3, <5>0
        <5>3. QED
          BY <5>1, <5>2, <1>41, <1>7, <2>7
      <4> HIDE DEF rows, ts
      <4>3. /\ NthLatest(rows, ts, 1) # 0 /\ n - 1 \in 1..n
            /\ NthLatest(rows, ts, 1) <= ts[n - 1]
            /\ \A m \in rows : m <= n - 1 => ts[m] <= NthLatest(rows, ts, 1)
        BY ONLY <4>2, <1>2, <1>4, AnchorDivides
      <4>4. n - 1 # 0 /\ n - 1 <= n
        BY ONLY <4>3, <1>2
      <4>5. ts[n - 1] \in Nat /\ NthLatest(rows, ts, 1) \in Nat
        <5>1. \A m \in rows : ts[m] \in 0..MaxClock
          BY <1>6 DEF rows, ts
        <5>2. NthLatest(rows, ts, 1) \in 0..MaxClock
          BY <5>1, <1>4, NthIsTime
        <5>3. QED
          BY <5>2, <4>2, <4>3, <1>4
      <4>6. ts[n - 1] >= NthLatest(rows, ts, 1)
        BY ONLY <4>3, <4>5
      <4>7. QED
        BY <4>1, <4>3, <4>4, <4>6, <3>1, <2>3 DEF rows, ts
    <3>4. QED
      BY <3>2, <3>3
  <2>8. QED
    BY <2>4, <2>5, <2>6, <2>7, <1>2 DEF MarksDivide
<1>10. QED
  BY <1>8, <1>9

\* The user has read to a message, or to the last.
LEMMA ReadMarks ==
    ASSUME HistoryTyped, MarksDivide, NEW id \in Ids,
           \/ ReadAll(id)
           \/ \E m \in held : ReadTo(id, m)
    PROVE  MarksDivide'
<1>1. HistoryTyped
  OBVIOUS
<1>2. /\ Len(times) \in Nat /\ held \subseteq 1..Len(times) /\ MaxClock \in Nat
      /\ \A m \in 1..Len(times) : times[m] \in 1..MaxClock /\ times[m] <= clock
      /\ read \in [Marks -> 0..Len(times)] /\ buffer \in BufferStates /\ clock \in 1..MaxClock
  BY <1>1, HistoryTypes
<1>3. /\ buffer.exists /\ times' = times /\ early' = early
      /\ stored' = stored /\ log' = log /\ InOrder' = InOrder
  BY DEF ReadAll, ReadTo, store, InOrder
<1>4. id \in Marks /\ id # "auto" /\ id # "anchor"
  BY HistoryAssumption DEF Marks, HistoryAssumption
<1>5. PICK to \in Nat, t \in Nat :
          /\ buffer' = [buffer EXCEPT !.lastSeen[id] = t]
          /\ read' = [read EXCEPT ![id] = to]
          /\ to # 0 /\ t # 0
          /\ InOrder => \A m \in 1..Len(times) : m <= to => times[m] <= t
  <2>1. CASE ReadAll(id)
    <3>1. times # <<>>
      BY <1>1, <1>3 DEF HistoryTyped
    <3>2. Len(times) # 0
      BY <3>1, <1>1, EmptySeq DEF HistoryTyped, HistoryTypeOK
    <3>3. clock \in Nat /\ clock # 0
      BY ONLY <1>2
    <3>4. /\ buffer' = [buffer EXCEPT !.lastSeen[id] = clock]
          /\ read' = [read EXCEPT ![id] = Len(times)]
      BY <2>1 DEF ReadAll
    <3>5. QED
      BY <3>2, <3>3, <3>4, <1>2
  <2>2. ASSUME NEW m \in held, ReadTo(id, m)
        PROVE  \E to \in Nat, t \in Nat :
                  /\ buffer' = [buffer EXCEPT !.lastSeen[id] = t]
                  /\ read' = [read EXCEPT ![id] = to]
                  /\ to # 0 /\ t # 0
                  /\ InOrder => \A o \in 1..Len(times) : o <= to => times[o] <= t
    <3>1. m \in 1..Len(times) /\ times[m] \in 1..MaxClock
      BY <1>2
    <3>2. m \in Nat /\ times[m] \in Nat /\ m # 0 /\ times[m] # 0
      BY ONLY <3>1, <1>2
    <3>3. ASSUME InOrder, NEW o \in 1..Len(times), o <= m
          PROVE  times[o] <= times[m]
      <4>1. o # m => m > o
        BY ONLY <3>1, <3>3, <1>2
      <4>2. m > o => times[m] > times[o]
        BY <3>1, <3>3, <1>1, Ordered
      <4>3. times[o] \in Nat
        BY ONLY <3>3, <1>2
      <4>4. o = m => times[o] = times[m]
        OBVIOUS
      <4>5. QED
        BY ONLY <3>2, <4>1, <4>2, <4>3, <4>4
    <3>4. buffer' = [buffer EXCEPT !.lastSeen[id] = times[m]] /\ read' = [read EXCEPT ![id] = m]
      BY <2>2 DEF ReadTo
    <3>5. QED
      BY <3>2, <3>3, <3>4
  <2>3. QED
    BY <2>1, <2>2
<1>6. buffer'.exists = buffer.exists /\ buffer'.lastSeen = [buffer.lastSeen EXCEPT ![id] = t]
  BY <1>2, <1>5 DEF BufferStates
<1>7. buffer.lastSeen \in [Marks -> 0..MaxClock]
  BY <1>2 DEF BufferStates
<1>8. /\ buffer'.lastSeen[id] = t /\ read'[id] = to
      /\ \A k \in Marks : k # id => buffer'.lastSeen[k] = buffer.lastSeen[k] /\ read'[k] = read[k]
  BY <1>2, <1>4, <1>5, <1>6, <1>7
<1>9. /\ read'["auto"] = read["auto"] /\ read'["anchor"] = read["anchor"]
      /\ buffer'.lastSeen["anchor"] = buffer.lastSeen["anchor"]
  BY <1>4, <1>8 DEF Marks
<1>10. \A k \in Ids : k # id => buffer'.lastSeen[k] = buffer.lastSeen[k] /\ read'[k] = read[k]
  BY <1>8 DEF Marks
<1>11. \A k \in Ids : read'[k] = 0 <=> buffer'.lastSeen[k] = 0
  BY <1>5, <1>8, <1>10 DEF MarksDivide
<1>12. ASSUME InOrder, ~early
       PROVE  \A k \in Ids, m \in 1..Len(times) : m <= read'[k] => times[m] <= buffer'.lastSeen[k]
  BY <1>5, <1>8, <1>10, <1>12 DEF MarksDivide
<1>13. QED
  BY <1>3, <1>6, <1>9, <1>11, <1>12 DEF MarksDivide

\* Every step keeps what the marks say.
LEMMA MarksStep ==
    ASSUME HistoryTyped, MarksDivide, HistoryNext
    PROVE  MarksDivide'
<1>1. HistoryTyped
  OBVIOUS
<1>2. /\ clock \in 1..MaxClock /\ buffer \in BufferStates /\ MaxClock \in Nat
      /\ stored \in 0..Len(times) /\ Len(times) \in Nat /\ log \subseteq 1..stored
  BY <1>1, HistoryTypes
<1>21. stored \in Nat /\ stored >= stored
  BY ONLY <1>2
<1>3. ASSUME UNCHANGED <<store, reading>>, buffer'.exists = buffer.exists,
             ~buffer.exists => buffer' = buffer,
             \A k \in Marks : k # "auto" => buffer'.lastSeen[k] = buffer.lastSeen[k]
      PROVE  MarksDivide'
  <2>1. UNCHANGED <<times, reading>> /\ stored' = stored /\ log' = log
    BY <1>3 DEF store
  <2>2. QED
    BY <2>1, <1>21, <1>3, <1>1, MarksStay
<1>4. ASSUME UNCHANGED <<store, buffer, reading>>
      PROVE  MarksDivide'
  BY <1>3, <1>4
<1>5. CASE \/ Tick \/ PlainLogin \/ PlainLeave \/ WebLeave
           \/ \E asked \in Asks : WebConnect(asked)
           \/ \E asked \in Asks, by \in References : Fill(asked, by) \/ ScrollBack(asked, by)
  BY <1>4, <1>5 DEF Tick, PlainLogin, PlainLeave, WebLeave, WebConnect, Fill, ScrollBack
<1>6. CASE Store
  <2>1. /\ Unstored # {} /\ stored' = stored + 1 /\ log' = log \union {stored + 1}
        /\ UNCHANGED <<times, reading, buffer>>
    BY <1>6 DEF Store
  <2>2. stored' \in Nat /\ stored' >= stored /\ stored + 1 \in (stored + 1)..stored'
    BY ONLY <2>1, <1>2
  <2>3. \A m \in log' : m \in log \/ m \in (stored + 1)..stored'
    BY <2>1, <2>2
  <2>4. QED
    BY <2>1, <2>2, <2>3, <1>1, MarksStay
<1>7. ASSUME NEW cutoff \in 2..clock, Purge(cutoff)
      PROVE  MarksDivide'
  <2>1. log' \subseteq log /\ UNCHANGED <<times, stored, buffer, reading>>
    BY <1>7 DEF Purge
  <2>2. QED
    BY <2>1, <1>21, <1>1, MarksStay
<1>8. CASE Dump
  <2>1. UNCHANGED <<store, reading>>
    BY <1>8 DEF Dump
  <2>2. buffer' = buffer \/ (buffer.exists /\ buffer' = Seen(buffer, clock))
    BY <1>8 DEF Dump
  <2>3. CASE buffer' = buffer
    BY <2>1, <2>3, <1>4
  <2>4. CASE buffer.exists /\ buffer' = Seen(buffer, clock)
    <3>1. clock \in 0..MaxClock
      BY ONLY <1>2
    <3>2. /\ buffer'.exists = buffer.exists
          /\ \A k \in Marks : k # "auto" => buffer'.lastSeen[k] = buffer.lastSeen[k]
      BY <3>1, <2>4, <1>2, SeenIs
    <3>3. QED
      BY <3>2, <2>1, <2>4, <1>3
  <2>5. QED
    BY <2>2, <2>3, <2>4
<1>9. CASE DelBuffer
  <2>1. buffer' = [exists |-> FALSE, lastSeen |-> NoMarks] /\ read' = NoMarks
        /\ UNCHANGED <<times, stored, log>>
    BY <1>9 DEF DelBuffer, store
  <2>2. \A k \in Marks : buffer'.lastSeen[k] = 0 /\ read'[k] = 0
    BY <2>1 DEF NoMarks
  <2>3. \A k \in Ids : buffer'.lastSeen[k] = 0 /\ read'[k] = 0
    BY <2>2 DEF Marks
  <2>4. read'["auto"] = 0 /\ read'["anchor"] = 0 /\ buffer'.lastSeen["anchor"] = 0
    BY <2>2 DEF Marks
  <2>5. 0 <= stored' /\ \A m \in log' : ~ (m <= 0)
    BY <2>1, <1>2
  <2>6. \A m \in 1..Len(times') : ~ (m <= 0)
    OBVIOUS
  <2>7. QED
    BY <2>1, <2>3, <2>4, <2>5, <2>6 DEF MarksDivide
<1>10. QED
  BY <1>5, <1>6, <1>7, <1>8, <1>9, ArriveMarks, ReadMarks DEF HistoryNext

\* What is unread is what is newer than the marks.
LEMMA UnreadFits ==
    ASSUME HistoryTyped, MarksDivide
    PROVE  UnreadIsExact
<1> DEFINE upTo == Max({read[k] : k \in Marks})
<1> DEFINE newer == {m \in log : m > upTo}
<1> DEFINE tied == \E m \in newer, id \in Ids : times[m] <= buffer.lastSeen[id]
<1> DEFINE seen == MaxSeen(buffer)
<1> SUFFICES ASSUME buffer.exists, InOrder, ~tied, ~early
             PROVE  Unread = IF upTo = 0 THEN Min({Cardinality(newer), DumpSize})
                             ELSE Cardinality(newer)
  BY DEF UnreadIsExact
<1>1. HistoryTyped
  OBVIOUS
<1>2. /\ Len(times) \in Nat /\ log \subseteq 1..Len(times) /\ MaxClock \in Nat
      /\ \A m \in 1..Len(times) : times[m] \in 1..MaxClock
      /\ read \in [Marks -> 0..Len(times)] /\ buffer.lastSeen \in [Marks -> 0..MaxClock]
      /\ "auto" \in Marks /\ "anchor" \in Marks
  BY <1>1, HistoryTypes
<1>3. \A k \in Marks : read[k] \in 0..Len(times) /\ buffer.lastSeen[k] \in 0..MaxClock
  BY <1>2
<1>4. \A k \in Marks \ {"auto"} : k \in Marks /\ (k \in Ids \/ k = "anchor")
  BY DEF Marks
<1>5. /\ \A k \in Marks \ {"auto"} : read[k] = 0 <=> buffer.lastSeen[k] = 0
      /\ read["auto"] = 0
      /\ \A k \in Marks \ {"auto"}, m \in log : m <= read[k] => times[m] <= buffer.lastSeen[k]
  BY <1>2, <1>4 DEF MarksDivide
<1>6. upTo \in {read[k] : k \in Marks} /\ \A k \in Marks : read[k] <= upTo
  <2> DEFINE S == {read[k] : k \in Marks}
  <2>1. S \subseteq 0..Len(times) /\ S # {}
    BY <1>2, <1>3
  <2>2. \A k \in Marks : read[k] \in S
    OBVIOUS
  <2> HIDE DEF S
  <2>3. Max(S) \in S /\ \A i \in S : i <= Max(S)
    BY <2>1, <1>2, LargestOf
  <2>4. QED
    BY <2>2, <2>3 DEF S
<1>7. /\ seen \in {buffer.lastSeen[k] : k \in Marks \ {"auto"}}
      /\ \A k \in Marks \ {"auto"} : buffer.lastSeen[k] <= seen
  <2> DEFINE S == {buffer.lastSeen[k] : k \in Marks \ {"auto"}}
  <2>1. S \subseteq 0..MaxClock /\ S # {}
    BY <1>2, <1>3
  <2>2. \A k \in Marks \ {"auto"} : buffer.lastSeen[k] \in S
    OBVIOUS
  <2>3. seen = Max(S)
    BY DEF MaxSeen
  <2> HIDE DEF S, seen
  <2>4. Max(S) \in S /\ \A i \in S : i <= Max(S)
    BY <2>1, <1>2, LargestOf
  <2>5. QED
    BY <2>2, <2>3, <2>4 DEF S
<1>8. Unread = CountSince(IF seen = 0 THEN NthLatest(log, times, DumpSize) ELSE seen)
  BY DEF Unread
<1>9. \A m \in newer, id \in Ids : ~ (times[m] <= buffer.lastSeen[id])
  OBVIOUS
<1> HIDE DEF upTo, seen, tied
<1>10. PICK k0 \in Marks : upTo = read[k0]
  BY <1>6
<1>11. PICK s0 \in Marks \ {"auto"} : seen = buffer.lastSeen[s0]
  BY <1>7
<1>12. upTo \in 0..Len(times) /\ seen \in 0..MaxClock
  BY <1>3, <1>10, <1>11
\* The user has never read.
<1>13. CASE upTo = 0
  <2>1. \A k \in Marks \ {"auto"} : buffer.lastSeen[k] = 0
    <3> SUFFICES ASSUME NEW k \in Marks \ {"auto"}
                 PROVE  read[k] = 0
      BY <1>5
    <3>1. read[k] \in 0..Len(times) /\ read[k] <= 0
      BY <1>3, <1>6, <1>13
    <3>2. QED
      BY ONLY <3>1, <1>2
  <2>2. seen = 0
    BY <2>1, <1>11
  <2>3. newer = log
    <3>1. \A m \in log : m > 0
      BY ONLY <1>2
    <3>2. QED
      BY <3>1, <1>13
  <2>4. IsFiniteSet(log) /\ Cardinality(log) \in Nat
    BY <1>1, <1>2, LogIsFinite, FS_CardinalityType
  <2>5. DumpSize \in Nat
    BY HistoryAssumption DEF HistoryAssumption
  <2>6. HaveOrder(MaxClock, log, times)
    <3>1. log \subseteq Nat /\ \A m \in log : m \in 1..Len(times) /\ times[m] \in 0..MaxClock
      BY ONLY <1>2
    <3>2. \A m, o \in log : m < o => times[m] < times[o]
      BY <3>1, <1>1, HistoryTypes DEF InOrder
    <3>3. QED
      BY <3>1, <3>2 DEF HaveOrder
  <2>7. CASE Cardinality(log) <= DumpSize
    <3>1. NthLatest(log, times, DumpSize) = 0
      BY <2>4, <2>5, <2>6, <2>7, <1>2, NthIsExact
    <3>2. Unread = CountSince(0)
      BY <1>8, <2>2, <3>1
    <3>3. {r \in log : times[r] > 0} = log
      <4>1. \A r \in log : times[r] > 0
        BY ONLY <1>2
      <4>2. QED
        BY <4>1
    <3>4. CountSince(0) = Cardinality(log)
      BY <3>3 DEF CountSince
    <3>5. Min({Cardinality(log), DumpSize}) = Cardinality(log)
      BY <2>4, <2>5, <2>7, MinOfTwo
    <3> HIDE DEF newer
    <3>6. QED
      BY <1>13, <2>3, <3>2, <3>4, <3>5
  <2>8. CASE ~ (Cardinality(log) <= DumpSize)
    <3>1. Cardinality(log) > DumpSize
      BY ONLY <2>4, <2>5, <2>8
    <3>2. PICK m \in log : NthIs(log, times, DumpSize, m)
      BY <2>4, <2>5, <2>6, <3>1, <1>2, NthIsExact
    <3>3. /\ NthLatest(log, times, DumpSize) = times[m]
          /\ Cardinality({o \in log : o > m}) = DumpSize
      BY <3>2 DEF NthIs
    <3>4. Unread = CountSince(times[m])
      BY <1>8, <2>2, <3>3
    <3>5. \A r \in log : times[r] > times[m] <=> r > m
      BY <1>1, <1>2, Ordered
    <3>6. {r \in log : times[r] > times[m]} = {o \in log : o > m}
      BY <3>5
    <3>7. CountSince(times[m]) = DumpSize
      BY <3>6, <3>3 DEF CountSince
    <3>8. Min({Cardinality(log), DumpSize}) = DumpSize
      BY <2>4, <2>5, <2>8, MinOfTwo
    <3> HIDE DEF newer
    <3>9. QED
      BY <1>13, <2>3, <3>4, <3>7, <3>8
  <2>9. QED
    BY <2>7, <2>8
\* The user has read up to a message.
<1>14. CASE upTo # 0
  <2>1. k0 \in Marks \ {"auto"}
    BY <1>5, <1>10, <1>14
  <2>2. buffer.lastSeen[k0] # 0
    BY <2>1, <1>5, <1>10, <1>14
  <2>3. buffer.lastSeen[k0] <= seen /\ buffer.lastSeen[k0] \in 0..MaxClock
    BY <2>1, <1>3, <1>7
  <2>4. seen # 0
    BY ONLY <2>2, <2>3, <1>12, <1>2
  <2>5. \A r \in log : times[r] > seen <=> r > upTo
    <3> SUFFICES ASSUME NEW r \in log
                 PROVE  times[r] > seen <=> r > upTo
      OBVIOUS
    <3>1. r \in 1..Len(times) /\ times[r] \in 1..MaxClock
      BY <1>2
    <3>2. CASE r > upTo
      <4>1. r \in newer
        BY <3>2
      <4>2. s0 \in Ids => times[r] > seen
        <5>1. s0 \in Ids => ~ (times[r] <= seen)
          BY <4>1, <1>9, <1>11
        <5>2. QED
          BY ONLY <5>1, <3>1, <1>12, <1>2
      <4>3. s0 = "anchor" => times[r] > seen
        <5>1. r > read["anchor"]
          <6>1. read["anchor"] \in 0..Len(times) /\ read["anchor"] <= upTo
            BY <1>2, <1>3, <1>6
          <6>2. QED
            BY ONLY <6>1, <3>1, <3>2, <1>12, <1>2
        <5>2. times[r] > buffer.lastSeen["anchor"]
          BY <5>1, <3>1, <1>1, NewerThanAnchor
        <5>3. QED
          BY <5>2, <1>11
      <4>4. QED
        BY <4>2, <4>3, <3>2, <1>4
    <3>3. CASE ~ (r > upTo)
      <4>1. r <= read[k0]
        BY ONLY <3>1, <3>3, <1>10, <1>12, <1>2
      <4>2. times[r] <= buffer.lastSeen[k0]
        BY <4>1, <2>1, <1>5
      <4>3. ~ (times[r] > seen)
        BY ONLY <4>2, <2>3, <3>1, <1>12, <1>2
      <4>4. QED
        BY <4>3, <3>3
    <3>4. QED
      BY <3>2, <3>3
  <2>6. {r \in log : times[r] > seen} = newer
    BY <2>5
  <2>7. Unread = CountSince(seen)
    BY <1>8, <2>4
  <2>8. CountSince(seen) = Cardinality(newer)
    BY <2>6 DEF CountSince
  <2> HIDE DEF newer
  <2>9. QED
    BY <2>7, <2>8, <1>14
<1>15. QED
  BY <1>13, <1>14

-----------------------------------------------------------------------------

\* No message has been sent at the start.
LEMMA HistoryStarts ==
    ASSUME HistoryInit
    PROVE  HistoryInv
<1>1. /\ clock = 1 /\ times = <<>> /\ stored = 0 /\ log = {}
      /\ buffer = [exists |-> FALSE, lastSeen |-> NoMarks]
      /\ plain = "off" /\ owed = {}
      /\ web = "off" /\ ref = 0 /\ held = {} /\ holes = {}
      /\ read = NoMarks /\ early = FALSE /\ rare = 0
  BY DEF HistoryInit
<1>2. Len(times) = 0 /\ times \in Seq(1..MaxClock)
  BY <1>1
<1>3. NoMarks \in [Marks -> 0..MaxClock] /\ NoMarks \in [Marks -> {0}] /\ "auto" \in Marks
      /\ "anchor" \in Marks /\ \A k \in Ids : k \in Marks
  BY HistoryAssumption DEF NoMarks, Marks, HistoryAssumption
<1>4. Unstored = {}
  BY <1>1, <1>2 DEF Unstored
<1>5. HistoryTyped
  <2>1. clock \in 1..MaxClock
    BY HistoryAssumption, <1>1 DEF HistoryAssumption
  <2>2. buffer \in [exists : BOOLEAN, lastSeen : [Marks -> 0..MaxClock]]
    BY <1>1, <1>3
  <2>3. read \in [Marks -> 0..Len(times)] /\ 1..Len(times) = {}
    BY <1>1, <1>2, <1>3
  <2>4. stored \in 0..Len(times) /\ ref \in 0..Len(times)
    BY <1>1, <1>2
  <2>5. QED
    BY <2>1, <2>2, <2>3, <2>4, <1>1, <1>2 DEF HistoryTyped, HistoryTypeOK
<1>6. OwesNothing /\ NoHoleSoFar /\ AsksByHeld
  BY <1>1, <1>4 DEF OwesNothing, NoHoleSoFar, AsksByHeld
<1>7. MarksDivide
  BY <1>1, <1>2, <1>3 DEF MarksDivide
<1>8. QED
  BY <1>5, <1>6, <1>7 DEF HistoryInv

\* Every step keeps the invariant.
LEMMA HistorySteps ==
    ASSUME HistoryInv, [HistoryNext]_historyVars
    PROVE  HistoryInv'
<1>1. HistoryTyped /\ OwesNothing /\ NoHoleSoFar /\ AsksByHeld /\ MarksDivide
  BY DEF HistoryInv
<1>2. CASE HistoryNext
  <2>1. HistoryTyped'
    BY <1>1, <1>2, ArriveTypes, PlainTypes, WebTypes DEF HistoryNext
  <2>2. QED
    BY <2>1, <1>1, <1>2, OwesStep, HolesStep, MarksStep DEF HistoryInv
<1>3. CASE UNCHANGED historyVars
  BY <1>1, <1>3
     DEF historyVars, store, plainVars, webVars, reading, HistoryInv, HistoryTyped,
         HistoryTypeOK, OwesNothing, NoHoleSoFar, AsksByHeld, MarksDivide, Asked, InOrder,
         Unstored
<1>4. QED
  BY <1>2, <1>3

\* Each part of the invariant is one that the properties follow from.
LEMMA HistoryPromises ==
    ASSUME HistoryInv
    PROVE  HistoryTypeOK /\ MissesNothing /\ HistoryIsWhole /\ UnreadIsExact
<1>1. HistoryTyped /\ OwesNothing /\ NoHoleSoFar /\ MarksDivide
  BY DEF HistoryInv
<1>2. MissesNothing
  BY <1>1 DEF MissesNothing, OwesNothing
<1>3. HistoryIsWhole
  BY <1>1 DEF HistoryIsWhole, NoHoleSoFar, Asked
<1>4. UnreadIsExact
  BY <1>1, UnreadFits
<1>5. QED
  BY <1>1, <1>2, <1>3, <1>4 DEF HistoryTyped

\* The invariant holds in every state of the histories of a query.
THEOREM HistoryInvariant == HistorySpec => []HistoryInv
<1>1. HistoryInit => HistoryInv
  BY HistoryStarts
<1>2. HistoryInv /\ [HistoryNext]_historyVars => HistoryInv'
  BY HistorySteps
<1>3. QED
  BY <1>1, <1>2, PTL DEF HistorySpec

\* The clock, the messages, what the clients hold and the marks keep their types.
THEOREM HistoryIsTyped == HistorySpec => []HistoryTypeOK
<1>1. HistoryInv => HistoryTypeOK
  BY HistoryPromises
<1>2. QED
  BY <1>1, HistoryInvariant, PTL

\* A plain client that has been sent its history has been given every stored message but
\* those MissesNothing excepts, whatever the size of a dump and however often it was away
\* (the 'auto:' mark, connectionincoming.js:504).
THEOREM PlainClientMissesNothing == HistorySpec => []MissesNothing
<1>1. HistoryInv => MissesNothing
  BY HistoryPromises
<1>2. QED
  BY <1>1, HistoryInvariant, PTL

\* A bouncer client that has asked for what it missed, page by page and with any limits,
\* has no hole in its history (chathistory/index.js:201).
THEOREM WebClientHasNoHole == HistorySpec => []HistoryIsWhole
<1>1. HistoryInv => HistoryIsWhole
  BY HistoryPromises
<1>2. QED
  BY <1>1, HistoryInvariant, PTL

\* LISTBUFFERS counts what arrived after what the user has read, with any number of
\* messages and of clients that say what was read (bouncer/index.js:215).
THEOREM UnreadIsCounted == HistorySpec => []UnreadIsExact
<1>1. HistoryInv => UnreadIsExact
  BY HistoryPromises
<1>2. QED
  BY <1>1, HistoryInvariant, PTL

=============================================================================
