------------------------------- MODULE Ledgers -------------------------------
(***************************************************************************)
(* Tables that grow and what is read back of them.  conversation_messages  *)
(* of ConversationBus and agent_receipts of AgentHubStore are read in the  *)
(* order of the time stamps of their rows, which are milliseconds and may  *)
(* be equal; agent_memory holds values that expire; the maintenance of the *)
(* inbox deletes what is old.  Every operation is one transaction.         *)
(*                                                                         *)
(* The clock does not step back.  Rows carry their rowid, which SQLite     *)
(* makes one more than the largest there is.                               *)
(***************************************************************************)
EXTENDS Integers, Sequences, FiniteSets, FiniteSetsExt, SequencesExt

CONSTANTS
    Requests,   \* requests that receipts are about
    MemoryKeys, \* keys of agent_memory
    Limit,      \* rows that getHistory is asked for
    Ttl,        \* the ttlMs a value may be given
    Retention,  \* age at which the maintenance deletes a receipt
    MaxRows,    \* rows ever appended, and values written, a bound of the model
    MaxTime     \* a bound of the model

None == 0        \* no hash, no expiry
Kinds == {"memory", "cache"}

VARIABLES
    now,
    messages,  \* of one topic: rowid and time stamp; identified by the order posted
    receipts,  \* agent_receipts: identified by the order appended
    memory,    \* key |-> the row, or the empty set
    appended,  \* receipts ever appended
    written    \* values ever written to agent_memory

vars == <<now, messages, receipts, memory, appended, written>>

Init ==
    /\ now = 1 /\ messages = {} /\ receipts = {} /\ memory = [k \in MemoryKeys |-> {}]
    /\ appended = 0 /\ written = 0

NextRowid(table) == IF table = {} THEN 1 ELSE Max({r.rowid : r \in table}) + 1

\* ORDER BY created_at, rowid: the row at i has i - 1 rows before it.
Before(r, s) == r.at < s.at \/ (r.at = s.at /\ r.rowid < s.rowid)
Rank(table, r) == Cardinality({s \in table : Before(s, r)})
Ascending(table) == [i \in 1..Cardinality(table) |-> CHOOSE r \in table : Rank(table, r) = i - 1]

-----------------------------------------------------------------------------
(* conversation_messages                                                   *)

\* postMessage.
PostMessage ==
    /\ Cardinality(messages) < MaxRows
    /\ messages' = messages \cup
           {[rowid |-> NextRowid(messages), at |-> now, id |-> Cardinality(messages) + 1]}
    /\ UNCHANGED <<now, receipts, memory, appended, written>>

\* getHistory: the newest rows, newest first, and turned round.
History(limit) ==
    LET newestFirst == Reverse(Ascending(messages))
        n == IF Len(newestFirst) < limit THEN Len(newestFirst) ELSE limit
    IN  Reverse(SubSeq(newestFirst, 1, n))

-----------------------------------------------------------------------------
(* agent_receipts                                                          *)

Of(request) == {r \in receipts : r.request = request}

\* appendReceipt: linked to the newest of the same request, if one is left.
AppendReceipt(request) ==
    /\ appended < MaxRows
    /\ appended' = appended + 1
    /\ receipts' = receipts \cup
           {[rowid |-> NextRowid(receipts), at |-> now, id |-> appended', request |-> request,
             prev |-> IF Of(request) = {} THEN None ELSE Last(Ascending(Of(request))).id]}
    /\ UNCHANGED <<now, messages, memory, written>>

\* pruneOldReceipts, with the retention of the maintenance.
PruneOldReceipts ==
    /\ receipts' = {r \in receipts : r.at >= now - Retention}
    /\ UNCHANGED <<now, messages, memory, appended, written>>

-----------------------------------------------------------------------------
(* agent_memory                                                            *)

\* upsertMemory and upsertCache: a key has one row, of whichever kind came last.
Upsert(k, kind, ttl) ==
    /\ kind = "cache" => ttl # None
    /\ written < MaxRows
    /\ written' = written + 1
    /\ memory' = [memory EXCEPT ![k] =
           {[kind |-> kind, value |-> written', expires |-> IF ttl = None THEN None ELSE now + ttl]}]
    /\ UNCHANGED <<now, messages, receipts, appended>>

Expired(row) == row.expires # None /\ row.expires <= now

\* getMemory and getCache: the row of that kind, unless its time is over.
Read(k, kind) == {row.value : row \in {r \in memory[k] : r.kind = kind /\ ~Expired(r)}}

\* pruneExpiredCache.
PruneExpiredCache ==
    /\ memory' = [k \in MemoryKeys |-> {row \in memory[k] : ~(row.kind = "cache" /\ Expired(row))}]
    /\ UNCHANGED <<now, messages, receipts, appended, written>>

Tick ==
    /\ now < MaxTime
    /\ now' = now + 1
    /\ UNCHANGED <<messages, receipts, memory, appended, written>>

Next ==
    \/ PostMessage
    \/ \E r \in Requests : AppendReceipt(r)
    \/ PruneOldReceipts
    \/ \E k \in MemoryKeys, kind \in Kinds, ttl \in {None, Ttl} : Upsert(k, kind, ttl)
    \/ PruneExpiredCache
    \/ Tick

Spec == Init /\ [][Next]_vars

-----------------------------------------------------------------------------
TypeOK ==
    /\ now \in 1..MaxTime /\ appended \in 0..MaxRows /\ written \in 0..MaxRows
    /\ \A m \in messages : m.rowid \in 1..MaxRows /\ m.at \in 1..MaxTime
    /\ \A r \in receipts : r.rowid \in 1..MaxRows /\ r.prev \in 0..MaxRows
    /\ \A k \in MemoryKeys : Cardinality(memory[k]) <= 1

\* A chair is shown the newest messages of its topic in the order they were
\* posted, also those posted within one millisecond.
HistoryIsTail ==
    LET n == Cardinality(messages)
        shown == History(Limit)
    IN  /\ Len(shown) = IF n < Limit THEN n ELSE Limit
        /\ \A i \in DOMAIN shown : shown[i].id = n - Len(shown) + i

\* The receipts that are left of a request, as listReceipts returns them, are
\* one chain: each names the one before it.
ChainIsWhole == \A request \in Requests :
    LET chain == Ascending(Of(request))
    IN  \A i \in 2..Len(chain) : chain[i].prev = chain[i - 1].id

\* No read tells whether the maintenance has run: what it deletes no read
\* returned any more, and a memory it never touches.
PruneStep ==
    now' = now /\ written' = written =>
        \A k \in MemoryKeys, kind \in Kinds : Read(k, kind)' = Read(k, kind)

PruneIsUnseen == [][PruneStep]_vars
=============================================================================
