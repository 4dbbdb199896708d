---------------------------- MODULE MessageStore ----------------------------
(***************************************************************************)
(* The SQLite message store of a worker                                    *)
(* (src/worker/messagestores/sqlite.js): the write queue, the table of     *)
(* shared strings with its cache, and the retention task that runs between *)
(* the writes.                                                             *)
(*                                                                         *)
(* A stored message is one row of "logs".  Its five strings (buffer, text, *)
(* tags, prefix, params) are kept once each in "data" and the row holds    *)
(* their ids; all five take the same path through dataId(), so the model   *)
(* keeps two of them, the buffer and the text.  dataId() remembers ids in  *)
(* an LRU cache.  The retention task deletes expired rows in batches, and  *)
(* afterwards the strings those rows leave behind; at every await of it    *)
(* messages may be stored.  SQLite gives a new row of "data" the id        *)
(* max(id)+1, so the id of a deleted or rolled back string is used again.  *)
(*                                                                         *)
(* A message has a kind: "text" is written; "bare" is a PRIVMSG or NOTICE  *)
(* with no text, which is written too, with NULL for its text; "ignored"   *)
(* is a CTCP or a message of another command (JOIN, PART, ... are passed   *)
(* in too), which the loop drops.  Another process may hold SQLite's write *)
(* lock (SQLITE_BUSY), for a whole transaction or for its first lookups.   *)
(***************************************************************************)
EXTENDS Naturals, Sequences, FiniteSets, FiniteSetsExt, Functions

CONSTANTS Users, Channels, Nicks, Texts,
          Null,         \* the text of a bare message
          Kinds,        \* the kinds of message that arrive
          Retained,     \* {"channels", "pms"}: what retention days are set for
          BatchSize,    \* BATCH_SIZE, rows deleted per transaction
          ChunkSize,    \* DATA_CLEANUP_CHUNK, rows whose strings are collected at once
          MaxMsgs, MaxBusy, MaxErrors, MaxCleanups, MaxRestarts, MaxDeletes  \* bounds

Values == Channels \cup Nicks \cup Texts

Buffers(kind) == IF kind = "channels" THEN Channels ELSE Nicks

ASSUME StoreAssumption ==
    /\ Channels \cap Nicks = {} /\ Null \notin Values
    /\ Kinds \subseteq {"text", "ignored", "bare"}
    /\ Retained \subseteq {"channels", "pms"}
    /\ BatchSize \in Nat \ {0}
    /\ ChunkSize \in Nat \ {0}

VARIABLES
    data,         \* table data: id -> string, or Null
    logs,         \* table logs: a set of rows; a reference that is NULL is 0
    dataCache,    \* the LRU: string -> id
    storeQueue,   \* messages waiting
    looping,      \* storeQueueLooping: after an unlock only TRUE while a retry timer runs
    immediates,   \* setImmediate callbacks pending
    phase,        \* where the retention task is: "off" is cleanupRunning = false
    bufs,         \* the temp table of buffer ids; {} before it is made
    deletedRows,  \* allDeletedRows, whose strings are still to be collected
    pushed,       \* history: messages given to storeMessage, by number
    written,      \* history: numbers of the messages written with all their strings
    dropped,      \* history: numbers of those that waited when a worker ended
    missed,       \* history: ids of strings that no cleanup has on its list any more
    busies, errors, cleanups, restarts, deletes   \* counters of the bounds

db == <<data, logs>>
queueVars == <<storeQueue, looping, immediates>>
cleanupVars == <<phase, bufs, deletedRows>>
trouble == <<busies, errors>>
bounds == <<cleanups, restarts, deletes>>
vars == <<data, logs, dataCache, queueVars, cleanupVars, pushed, written, dropped, missed,
          trouble, bounds>>

Empty == [v \in {} |-> 0]

Init ==
    /\ data = Empty /\ logs = {} /\ dataCache = Empty
    /\ storeQueue = <<>> /\ looping = FALSE /\ immediates = 0
    /\ phase = "off" /\ bufs = {} /\ deletedRows = {}
    /\ pushed = <<>> /\ written = {} /\ dropped = {} /\ missed = {}
    /\ busies = 0 /\ errors = 0 /\ cleanups = 0 /\ restarts = 0 /\ deletes = 0

-----------------------------------------------------------------------------
(* The strings.                                                            *)

With(f, k, v) == [x \in DOMAIN f \cup {k} |-> IF x = k THEN v ELSE f[x]]

IdIn(d, v) == CHOOSE i \in DOMAIN d : d[i] = v

NextId(d) == Max(DOMAIN d \cup {0}) + 1

\* dataId when the lock is free: the tables and the cache it leaves.  Nothing is equal to
\* NULL, so that the row inserted for a bare message is not found and no id is returned.
DataId(s, v) ==
    IF v \in DOMAIN s.cache THEN s
    ELSE IF v = Null THEN [s EXCEPT !.data = With(@, NextId(@), Null)]
    ELSE LET d == IF v \in Range(s.data) THEN s.data ELSE With(s.data, NextId(s.data), v)
         IN  [data |-> d, cache |-> With(s.cache, v, IdIn(d, v))]

\* dataId when the insert fails: only a string already in the table is found.
DataIdWhenBusy(s, v) ==
    IF v \in DOMAIN s.cache \/ v = Null \/ v \notin Range(s.data) THEN s
    ELSE [s EXCEPT !.cache = With(@, v, IdIn(s.data, v))]

Here == [data |-> data, cache |-> dataCache]

\* The id that dataId returns for v, the state after it being s.
Ref(s, v) == IF v \in DOMAIN s.cache THEN s.cache[v] ELSE 0

RefsOf(rows) == UNION {{r.bufferref, r.dataref} : r \in rows}

-----------------------------------------------------------------------------
(* storeMessageLoop.  It runs to its end without an await: the loop flag   *)
(* stays set only across the 100ms of a retry timer.                       *)

\* The lookups of the transaction for m, another process holding the lock during the first
\* k of them.  Whoever has written something holds the lock until the commit.
Lookups(m, k) ==
    LET one == IF k > 0 THEN DataIdWhenBusy(Here, m.buffer) ELSE DataId(Here, m.buffer)
        two == IF k > 1 THEN DataIdWhenBusy(one, m.text) ELSE DataId(one, m.text)
    IN  [data |-> two.data, cache |-> two.cache,
         row |-> [n |-> m.n, user |-> m.user, buffer |-> m.buffer, text |-> m.text,
                  bufferref |-> Ref(one, m.buffer), dataref |-> Ref(two, m.text)]]

\* A row that has all its strings.
Whole(r) == r.bufferref # 0 /\ (r.dataref # 0 \/ r.text = Null)

\* The row is inserted and the transaction commits.
Commit(s) ==
    /\ data' = s.data
    /\ dataCache' = s.cache
    /\ logs' = logs \cup {s.row}
    /\ written' = IF Whole(s.row) THEN written \cup {s.row.n} ELSE written

Write(m) == Commit(Lookups(m, 0)) /\ UNCHANGED trouble

\* The lock was free again when the row was inserted, with NULL for what was not found.
WriteDamaged(m) ==
    /\ busies < MaxBusy
    /\ busies' = busies + 1
    /\ \E k \in 1..2 : Commit(Lookups(m, k))
    /\ UNCHANGED errors

\* The insert of the row finds the lock taken.
FailBusy(m) ==
    /\ busies < MaxBusy
    /\ busies' = busies + 1
    /\ dataCache' = Lookups(m, 2).cache
    /\ UNCHANGED <<db, written, errors>>

\* The row or the commit fails otherwise (the disk is full, an I/O error): the tables are
\* rolled back, and the cache is not.
RollBack(m) ==
    /\ errors < MaxErrors
    /\ errors' = errors + 1
    /\ dataCache' = Lookups(m, 0).cache
    /\ UNCHANGED <<db, written, busies>>

\* The loop, entered with queue q while `ticks` callbacks are pending and no
\* retry timer is.
Loop(q, ticks) ==
    \/ /\ q = <<>>
       /\ storeQueue' = q /\ immediates' = ticks /\ looping' = FALSE
       /\ UNCHANGED <<db, dataCache, written, trouble>>
    \/ /\ q # <<>>
       /\ storeQueue' = Tail(q)
       /\ LET m == Head(q)
          IN  \/ /\ m.kind = "ignored"
                 /\ immediates' = ticks /\ looping' = FALSE
                 /\ UNCHANGED <<db, dataCache, written, trouble>>
              \/ /\ m.kind # "ignored"
                 /\ Write(m) \/ WriteDamaged(m) \/ RollBack(m)
                 /\ immediates' = ticks + 1 /\ looping' = FALSE
              \/ \* err.code is SQLITE_BUSY
                 /\ m.kind # "ignored" /\ FailBusy(m)
                 /\ immediates' = ticks /\ looping' = TRUE
              \/ \* SQLITE_BUSY_SNAPSHOT, after a lookup read an older state
                 /\ m.kind # "ignored" /\ FailBusy(m)
                 /\ ~ {m.buffer, m.text} \subseteq DOMAIN dataCache
                 /\ immediates' = ticks + 1 /\ looping' = FALSE

\* storeMessage whose loop takes a message off the queue before it looks at
\* the loop flag.
StoreMessageShiftFirst(m) ==
    /\ Len(pushed) < MaxMsgs
    /\ m.n = Len(pushed) + 1
    /\ pushed' = Append(pushed, m.kind)
    /\ LET q == Append(storeQueue, m)
       IN  \/ /\ looping
              /\ storeQueue' = Tail(q)
              /\ UNCHANGED <<db, dataCache, looping, immediates, written, trouble>>
           \/ /\ ~looping
              /\ Loop(q, immediates)
    /\ UNCHANGED <<cleanupVars, dropped, missed, bounds>>

\* storeMessage: queue the message and call the loop.
StoreMessage(m) ==
    /\ Len(pushed) < MaxMsgs
    /\ m.n = Len(pushed) + 1
    /\ pushed' = Append(pushed, m.kind)
    /\ LET q == Append(storeQueue, m)
       IN  \/ /\ looping
              /\ storeQueue' = q
              /\ UNCHANGED <<db, dataCache, looping, immediates, written, trouble>>
           \/ /\ ~looping
              /\ Loop(q, immediates)
    /\ UNCHANGED <<cleanupVars, dropped, missed, bounds>>

\* The callback of setImmediate.
Immediate ==
    /\ immediates > 0
    /\ \/ /\ looping
          /\ immediates' = immediates - 1
          /\ UNCHANGED <<db, dataCache, storeQueue, looping, written, trouble>>
       \/ /\ ~looping
          /\ Loop(storeQueue, immediates - 1)
    /\ UNCHANGED <<pushed, cleanupVars, dropped, missed, bounds>>

\* A timer that calls the loop with the flag still set.
RetryStillLooping ==
    /\ looping
    /\ UNCHANGED vars

\* The 100ms timer of a busy database.
Retry ==
    /\ looping
    /\ Loop(storeQueue, immediates)
    /\ UNCHANGED <<pushed, cleanupVars, dropped, missed, bounds>>

-----------------------------------------------------------------------------
(* The retention task, runCleanupTask.  It awaits after every batch that   *)
(* deleted something, between channels and PMs, and after every chunk.     *)

\* What comes after `k`, "off" standing for the beginning.
After(k) ==
    IF k = "off" /\ "channels" \in Retained THEN "channels"
    ELSE IF k \in {"off", "channels"} /\ "pms" \in Retained THEN "pms"
    ELSE "collect"

\* The temp table: ids of the strings that look like a channel, or of all others, texts
\* as well; rows are joined to it on their bufferref.
BufferIds(k) == {i \in DOMAIN data : data[i] # Null /\ (data[i] \in Channels <=> k = "channels")}

\* One transaction of runRetentionCleanup.  Which rows of the buffers are older
\* than the cutoff is left open: a row's time is the server's.
DeleteBatch(k, table, found) ==
    \E gone \in SUBSET {r \in logs : r.bufferref \in table} :
        /\ Cardinality(gone) <= BatchSize
        /\ logs' = logs \ gone
        /\ deletedRows' = found \cup gone
        /\ IF Cardinality(gone) = BatchSize
              THEN phase' = k /\ bufs' = table
              ELSE /\ bufs' = {}
                   /\ phase' = IF After(k) = "collect" /\ found \cup gone = {}
                                  THEN "off" ELSE After(k)

StartCleanup ==
    /\ phase = "off"
    /\ Retained # {}
    /\ cleanups < MaxCleanups
    /\ cleanups' = cleanups + 1
    /\ DeleteBatch(After("off"), BufferIds(After("off")), {})
    /\ UNCHANGED <<data, dataCache, queueVars, pushed, written, dropped, missed, trouble,
                   restarts, deletes>>

NextBatch ==
    /\ phase \in {"channels", "pms"}
    /\ DeleteBatch(phase, IF bufs = {} THEN BufferIds(phase) ELSE bufs, deletedRows)
    /\ UNCHANGED <<data, dataCache, queueVars, pushed, written, dropped, missed, trouble, bounds>>

\* The delete is busy ten times over: the task ends by its catch and finally.
BatchFails ==
    /\ phase \in {"channels", "pms"}
    /\ busies < MaxBusy
    /\ busies' = busies + 1
    /\ phase' = "off" /\ bufs' = {} /\ deletedRows' = {}
    /\ missed' = missed \cup RefsOf(deletedRows)
    /\ UNCHANGED <<db, dataCache, queueVars, pushed, written, dropped, errors, bounds>>

NextChunk(chunk) ==
    /\ phase = "collect"
    /\ chunk # {}
    /\ Cardinality(chunk) = ChunkSize \/ chunk = deletedRows
    /\ Cardinality(chunk) <= ChunkSize
    /\ deletedRows' = deletedRows \ chunk
    /\ phase' = IF deletedRows = chunk THEN "off" ELSE "collect"
    /\ UNCHANGED <<logs, bufs, queueVars, pushed, written, dropped, errors, bounds>>

\* The strings go whose ids are given.
Removed(orphans) ==
    /\ data' = Restrict(data, DOMAIN data \ orphans)
    /\ missed' = missed \ orphans
    /\ UNCHANGED busies

\* Without the reset of the cache.
CollectKeepingCache(chunk) ==
    /\ NextChunk(chunk)
    /\ Removed((RefsOf(chunk) \ RefsOf(logs)) \cap DOMAIN data)
    /\ UNCHANGED dataCache

\* Without the NOT EXISTS: a string a live row still refers to goes too.
CollectUnchecked(chunk) ==
    LET orphans == RefsOf(chunk) \cap DOMAIN data
    IN  /\ NextChunk(chunk)
        /\ Removed(orphans)
        /\ dataCache' = IF orphans # {} THEN Empty ELSE dataCache

\* Looks at one column of the deleted rows only.
CollectBuffersOnly(chunk) ==
    LET orphans == ({r.bufferref : r \in chunk} \ RefsOf(logs)) \cap DOMAIN data
    IN  /\ NextChunk(chunk)
        /\ Removed(orphans)
        /\ dataCache' = IF orphans # {} THEN Empty ELSE dataCache

\* runDataCleanup: the strings only the deleted rows referred to go, and when
\* there are any the cache is emptied.
Collect(chunk) ==
    LET orphans == (RefsOf(chunk) \ RefsOf(logs)) \cap DOMAIN data
    IN  /\ NextChunk(chunk)
        /\ Removed(orphans)
        /\ dataCache' = IF orphans # {} THEN Empty ELSE dataCache

\* runDataCleanup throws, the warning is logged and the task takes the next chunk.
CollectFails(chunk) ==
    /\ NextChunk(chunk)
    /\ busies < MaxBusy
    /\ busies' = busies + 1
    /\ missed' = missed \cup RefsOf(chunk)
    /\ UNCHANGED <<data, dataCache>>

-----------------------------------------------------------------------------
(* deleteUserMessages, and the end of the worker's process: the database   *)
(* stays, everything else is lost.                                         *)

DeleteUser(u) ==
    /\ deletes < MaxDeletes
    /\ deletes' = deletes + 1
    /\ logs' = {r \in logs : r.user # u}
    /\ missed' = missed \cup RefsOf(logs \ logs')
    /\ UNCHANGED <<data, dataCache, queueVars, cleanupVars, pushed, written, dropped, trouble,
                   cleanups, restarts>>

Waiting == {storeQueue[i].n : i \in DOMAIN storeQueue}

Restart ==
    /\ restarts < MaxRestarts
    /\ restarts' = restarts + 1
    /\ dataCache' = Empty
    /\ storeQueue' = <<>> /\ looping' = FALSE /\ immediates' = 0
    /\ phase' = "off" /\ bufs' = {} /\ deletedRows' = {}
    /\ dropped' = dropped \cup Waiting
    /\ missed' = missed \cup RefsOf(deletedRows)
    /\ UNCHANGED <<db, pushed, written, trouble, cleanups, deletes>>

Message == {m \in [n : 1..MaxMsgs, kind : Kinds, user : Users, buffer : Channels \cup Nicks,
                   text : Texts \cup {Null}] : m.kind = "bare" <=> m.text = Null}

Tasks ==
    \/ Immediate
    \/ Retry
    \/ NextBatch
    \/ \E chunk \in SUBSET deletedRows : Collect(chunk)

Next ==
    \/ \E m \in Message : StoreMessage(m)
    \/ Tasks
    \/ StartCleanup
    \/ BatchFails
    \/ \E chunk \in SUBSET deletedRows : CollectFails(chunk)
    \/ \E u \in Users : DeleteUser(u)
    \/ Restart

Spec == Init /\ [][Next]_vars

\* Timers fire and callbacks run.
FairSpec ==
    /\ Spec
    /\ WF_vars(Immediate)
    /\ WF_vars(Retry)
    /\ WF_vars(NextBatch)
    /\ WF_vars(\E chunk \in SUBSET deletedRows : Collect(chunk))

-----------------------------------------------------------------------------
(* Properties.                                                             *)

Row == [n : 1..MaxMsgs, user : Users, buffer : Channels \cup Nicks, text : Texts \cup {Null},
        bufferref : Nat, dataref : Nat]

TypeOK ==
    /\ data \in [DOMAIN data -> Values \cup {Null}] /\ DOMAIN data \subseteq Nat \ {0}
    /\ dataCache \in [DOMAIN dataCache -> Nat \ {0}] /\ DOMAIN dataCache \subseteq Values
    /\ logs \subseteq Row /\ written \subseteq 1..MaxMsgs /\ dropped \subseteq 1..MaxMsgs
    /\ storeQueue \in Seq(Message) /\ looping \in BOOLEAN /\ immediates \in Nat
    /\ phase \in {"off", "collect"} \cup Retained
    /\ bufs \subseteq Nat /\ deletedRows \subseteq Row /\ missed \subseteq Nat
    /\ pushed \in Seq(Kinds)
    /\ {busies, errors, cleanups, restarts, deletes} \subseteq Nat

\* No transaction was rolled back after its lookups had succeeded.
NoneRolledBack == errors = 0

CacheLeads ==
    \A v \in DOMAIN dataCache :
        dataCache[v] \in DOMAIN data /\ data[dataCache[v]] = v

\* Every string in the cache is in the table, under the id the cache has, however busy the
\* database is: unless a transaction was rolled back after its lookups.
CacheAgrees == NoneRolledBack => CacheLeads

RowsRead ==
    \A r \in logs :
        /\ r.bufferref # 0 => r.bufferref \in DOMAIN data /\ data[r.bufferref] = r.buffer
        /\ r.dataref # 0 => r.dataref \in DOMAIN data /\ data[r.dataref] = r.text

\* No row of logs reads back as anything but the message it was written for: the ids it
\* has exist and lead to its own buffer and text, whatever was cached, deleted and
\* numbered again since, and whatever was busy when it was written.  Excepted is what
\* follows a transaction that was rolled back after its lookups.
ReadsBack == NoneRolledBack => RowsRead

\* A string no row refers to is one the running retention task still has on its list.
\* What is left in the table for good is what a failed chunk, a task that was cut short or
\* the deletion of a user forgot, and the empty row of a message without a text.
CollectsOrphans ==
    \A i \in DOMAIN data :
        data[i] = Null \/ i \in RefsOf(logs) \cup RefsOf(deletedRows) \cup missed

\* Nothing is left in the table for good.
OrphansAreListed == DOMAIN data \subseteq RefsOf(logs) \cup RefsOf(deletedRows)

\* Retention deletes only messages of buffers it is set for; with channel
\* retention alone, private messages stay.
OnlyRetainedDeleted ==
    [][NoneRolledBack /\ UNCHANGED deletes =>
           \A r \in logs \ logs' : \E k \in Retained : r.buffer \in Buffers(k)]_vars

ToWrite == {i \in DOMAIN pushed : pushed[i] # "ignored"}

\* A message that should be written, did not wait when a worker ended, and neither waits
\* nor was written with all its strings: each busy database and each failed transaction
\* costs at most the one message it happened to, as a row or as a string of it.
AtMostOneLostPerBusy ==
    Cardinality(ToWrite \ (written \cup Waiting \cup dropped)) <= busies + errors

\* "storeMessage: database busy, retrying in 100ms" (sqlite.js:742): while that timer
\* runs there is a message to retry.
BusyIsRetried == looping => ToWrite \subseteq written \cup Waiting

\* The queue does not stand still: what waits in it is taken out in the end, unless a
\* message came that is not to be stored.
QueueDrains == storeQueue # <<>> ~> storeQueue = <<>> \/ \E i \in DOMAIN pushed : pushed[i] = "ignored"

\* And if one came.
QueueAlwaysDrains == storeQueue # <<>> ~> storeQueue = <<>>

=============================================================================
