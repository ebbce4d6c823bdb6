------------------------------ MODULE AuditLog ------------------------------
(***************************************************************************)
(* The audit log: a hash chain in memory (internal/audit) whose entries    *)
(* the broker copies, one by one and outside the chain's lock, into a      *)
(* SQLite table keyed by sequence number (internal/store/sqlite.go).       *)
(*                                                                         *)
(* The content of an entry is a number that no other entry has, as the     *)
(* timestamp makes it; a hash is the very content it covers, that is, the  *)
(* model takes SHA-256 to be free of collisions.                           *)
(***************************************************************************)
EXTENDS Integers, Sequences, FiniteSets

CONSTANTS
  Writer,                               \* goroutines that log at the same time
  MaxAppends, MaxFailures, MaxRestarts  \* bounds of the model

ASSUME AuditAssumption ==
  MaxAppends \in Nat /\ MaxFailures \in Nat /\ MaxRestarts \in Nat

VARIABLES
  log,        \* the chain in memory
  pending,    \* pending[w]: the entry w appended and has not stored yet
  db,         \* the rows of audit_log, by sequence number
  tampered,   \* history: the entries edited after the fact
  lost,       \* history: the entries of this boot whose row was not stored
  appends, failures, boots

vars == <<log, pending, db, tampered, lost, appends, failures, boots>>

Genesis == [seq |-> 0]
NoEntry == [seq |-> 0]
Edited == 0

HashEntry(e) == [seq |-> e.seq, body |-> e.body, prev |-> e.prev]

PrevHash(entries, i) == IF i = 1 THEN Genesis ELSE entries[i - 1].hash

\* The whole chain is walked; the code stops at the first broken link.
Verify(entries) ==
  \A i \in DOMAIN entries :
    /\ entries[i].seq = i
    /\ entries[i].prev = PrevHash(entries, i)
    /\ entries[i].hash = HashEntry(entries[i])

NewEntry(body) ==
  LET n == Len(log) + 1
      prev == PrevHash(log, n)
  IN  [seq |-> n, body |-> body, prev |-> prev,
       hash |-> [seq |-> n, body |-> body, prev |-> prev]]

LoadAudit_Unordered ==               \* variant: no ORDER BY, newest row first
  [i \in 1 .. Cardinality(DOMAIN db) |->
    db[CHOOSE k \in DOMAIN db : Cardinality({j \in DOMAIN db : j >= k}) = i]]

\* SELECT ... ORDER BY seq
LoadAudit ==
  [i \in 1 .. Cardinality(DOMAIN db) |->
    db[CHOOSE k \in DOMAIN db : Cardinality({j \in DOMAIN db : j <= k}) = i]]

----------------------------------------------------------------------------
Init ==
  /\ log = <<>> /\ db = <<>>
  /\ pending = [w \in Writer |-> NoEntry]
  /\ tampered = {} /\ lost = {}
  /\ appends = 0 /\ failures = 0 /\ boots = 0

\* Service.log, first half: the entry is chained under the lock.
AppendEntry(w) ==
  /\ pending[w] = NoEntry /\ appends < MaxAppends
  /\ appends' = appends + 1
  /\ LET e == NewEntry(appends')
     IN  log' = Append(log, e) /\ pending' = [pending EXCEPT ![w] = e]
  /\ UNCHANGED <<db, tampered, lost, failures, boots>>

Done(w) == pending' = [pending EXCEPT ![w] = NoEntry]

Store_Replace(e) ==                  \* variant: INSERT OR REPLACE
  /\ db' = [k \in DOMAIN db \cup {e.seq} |-> IF k = e.seq THEN e ELSE db[k]]
  /\ lost' = lost

Store_Stale(e) ==                    \* variant: numbers the row by the log's length
  /\ db' = [k \in DOMAIN db \cup {Len(log)} |-> IF k = Len(log) THEN e ELSE db[k]]
  /\ lost' = lost

\* INSERT: the primary key refuses a second row of the same number.
Store(e) ==
  IF e.seq \in DOMAIN db THEN db' = db /\ lost' = lost \cup {e.seq}
  ELSE /\ db' = [k \in DOMAIN db \cup {e.seq} |-> IF k = e.seq THEN e ELSE db[k]]
       /\ lost' = lost

Persist_InTurn(w) ==                 \* variant: waits for the row before its own
  /\ pending[w] # NoEntry /\ pending[w].seq - 1 \in DOMAIN db \cup {0}
  /\ Store(pending[w]) /\ Done(w)
  /\ UNCHANGED <<log, tampered, appends, failures, boots>>

\* Service.log, second half: the callback ignores the error of the INSERT.
Persist(w) ==
  /\ pending[w] # NoEntry
  /\ Store(pending[w]) /\ Done(w)
  /\ UNCHANGED <<log, tampered, appends, failures, boots>>

\* The database is busy or cannot be written.
PersistFails(w) ==
  /\ pending[w] # NoEntry /\ failures < MaxFailures
  /\ failures' = failures + 1
  /\ lost' = lost \cup {pending[w].seq} /\ Done(w)
  /\ UNCHANGED <<log, db, tampered, appends, boots>>

Tamper_Rehash(i) ==                  \* variant: the edit also fixes the hash
  LET e == [log[i] EXCEPT !.body = Edited]
  IN  /\ log' = [log EXCEPT ![i] = [e EXCEPT !.hash = HashEntry(e)]]
      /\ tampered' = tampered \cup {i}
      /\ UNCHANGED <<pending, db, lost, appends, failures, boots>>

\* One field of an entry in memory is changed after the fact.
Tamper(i) ==
  /\ log' = [log EXCEPT ![i].body = Edited]
  /\ tampered' = tampered \cup {i}
  /\ UNCHANGED <<pending, db, lost, appends, failures, boots>>

\* The new process opens the same table and starts an empty chain.
Restart ==
  /\ boots < MaxRestarts
  /\ boots' = boots + 1
  /\ log' = <<>> /\ tampered' = {} /\ lost' = {}
  /\ pending' = [w \in Writer |-> NoEntry]
  /\ UNCHANGED <<db, appends, failures>>

Next ==
  \/ \E w \in Writer : AppendEntry(w) \/ Persist(w) \/ PersistFails(w)
  \/ \E i \in DOMAIN log : Tamper(i)
  \/ Restart

Spec == Init /\ [][Next]_vars /\ \A w \in Writer : WF_vars(Persist(w))

----------------------------------------------------------------------------
\* Verification reports exactly the edits: the chain in memory verifies when
\* no entry was edited, and never again once one was, however many entries
\* were chained after it (verify.go, Verify).
VerifyFindsTampering == Verify(log) <=> tampered = {}

\* Writers store their rows in any order, yet in the first boot every row is
\* the entry as it was chained, and the rows missing are those still in a
\* writer's hands or lost to an error.
Awaited == {pending[w].seq : w \in Writer} \ {0}

RowsMatchLog ==
  boots = 0 =>
    /\ DOMAIN db \cup Awaited \cup lost = DOMAIN log
    /\ \A k \in DOMAIN db : db[k].prev = log[k].prev /\ db[k].hash = log[k].hash

\* With nothing awaited or lost, what was stored in the first boot verifies
\* even if the entries in memory were edited since.
StoredChainVerifies ==
  boots = 0 /\ Awaited = {} /\ lost = {} => Verify(LoadAudit)

\* A stored row is never changed or removed, not even by a later boot.
RowsAppendOnly ==
  [][\A k \in DOMAIN db : k \in DOMAIN db' /\ db'[k] = db[k]]_vars

\* An entry that was chained is stored in the end, unless the process
\* restarts or the table refuses it.
EntriesSettle ==
  \A n \in 1 .. MaxAppends : (n \in Awaited) ~> (n \in DOMAIN db \cup lost \/ boots > 0)

\* The table holds the same records as the log, a chain that verifies.
PersistedChainVerifies == Awaited = {} => Verify(LoadAudit)
=============================================================================
