--------------------------- MODULE AuditLogProofs ---------------------------
(***************************************************************************)
(* Proofs about the audit log: for any number of writers and any bounds,   *)
(* verification of the chain in memory reports exactly the edits, the rows *)
(* stored in the first boot are the entries that were chained, and a row   *)
(* is never changed.                                                       *)
(***************************************************************************)
EXTENDS AuditLog, SequenceTheorems, FiniteSetTheorems, TLAPS

----------------------------------------------------------------------------
(* Sequences whose elements have no common type *)

IsSequence(s) == Len(s) \in Nat /\ s = [i \in 1 .. Len(s) |-> s[i]]

\* A sequence is a sequence over its own elements.
LEMMA SequenceOfElements ==
  ASSUME NEW s, IsSequence(s)
  PROVE  s \in Seq({s[i] : i \in 1 .. Len(s)}) /\ DOMAIN s = 1 .. Len(s)
<1> DEFINE S == {s[i] : i \in 1 .. Len(s)}
<1>1. s \in [1 .. Len(s) -> S]
  BY DEF IsSequence
<1>2. s \in Seq(S)
  BY <1>1 DEF IsSequence
<1> QED
  BY <1>1, <1>2

\* Append adds one element at the end.
LEMMA AppendOne ==
  ASSUME NEW s, IsSequence(s), NEW e
  PROVE  /\ IsSequence(Append(s, e)) /\ DOMAIN s = 1 .. Len(s)
         /\ Len(Append(s, e)) = Len(s) + 1
         /\ DOMAIN Append(s, e) = 1 .. Len(s) + 1
         /\ \A i \in 1 .. Len(s) : Append(s, e)[i] = s[i]
         /\ Append(s, e)[Len(s) + 1] = e
<1> DEFINE T == {s[i] : i \in 1 .. Len(s)}
           S == T \cup {e}
<1>1. s \in Seq(T) /\ DOMAIN s = 1 .. Len(s)
  BY SequenceOfElements
<1>2. T \subseteq S
  OBVIOUS
<1>3. s \in Seq(S)
  BY <1>1, <1>2, SeqMonotonic
<1>4. e \in S
  OBVIOUS
<1> HIDE DEF S, T
<1>5. Append(s, e) \in Seq(S) /\ Len(Append(s, e)) = Len(s) + 1
  BY <1>3, <1>4
<1>6. /\ \A i \in 1 .. Len(s) : Append(s, e)[i] = s[i]
      /\ Append(s, e)[Len(s) + 1] = e
  BY <1>3, <1>4
<1>7. /\ Append(s, e) = [i \in 1 .. Len(s) + 1 |-> Append(s, e)[i]]
      /\ DOMAIN Append(s, e) = 1 .. Len(s) + 1
  BY <1>5, LenProperties
<1> QED
  BY <1>1, <1>3, <1>5, <1>6, <1>7 DEF IsSequence

\* Replacing an element leaves the others and the length alone.
LEMMA ReplaceOne ==
  ASSUME NEW s, IsSequence(s), NEW k \in 1 .. Len(s), NEW e
  PROVE  LET t == [s EXCEPT ![k] = e]
         IN  /\ IsSequence(t) /\ Len(t) = Len(s)
             /\ DOMAIN t = 1 .. Len(s) /\ DOMAIN s = 1 .. Len(s)
             /\ t[k] = e /\ \A i \in 1 .. Len(s) : i # k => t[i] = s[i]
<1> DEFINE T == {s[i] : i \in 1 .. Len(s)}
           S == T \cup {e}
           t == [s EXCEPT ![k] = e]
<1>1. s \in Seq(T) /\ DOMAIN s = 1 .. Len(s)
  BY SequenceOfElements
<1>2. T \subseteq S /\ e \in S
  OBVIOUS
<1>3. s \in Seq(S)
  BY <1>1, <1>2, SeqMonotonic
<1> HIDE DEF S, T
<1>4. /\ t \in Seq(S) /\ Len(t) = Len(s)
      /\ \A i \in 1 .. Len(s) : t[i] = IF i = k THEN e ELSE s[i]
  BY <1>2, <1>3, ExceptSeq
<1> HIDE DEF t
<1>5. t = [i \in 1 .. Len(t) |-> t[i]] /\ DOMAIN t = 1 .. Len(t) /\ Len(t) \in Nat
  BY <1>4, LenProperties
<1>6. IsSequence(t)
  BY <1>5 DEF IsSequence
<1>7. t[k] = e /\ \A i \in 1 .. Len(s) : i # k => t[i] = s[i]
  BY <1>4
<1> QED
  BY <1>1, <1>4, <1>5, <1>6, <1>7 DEF t

----------------------------------------------------------------------------
(* The chain in memory *)

\* The entry at place n, chained to prev; its hash keeps its first content.
Chained(e, n, prev) ==
  /\ e = [seq |-> n, body |-> e.body, prev |-> prev,
          hash |-> [seq |-> n, body |-> e.hash.body, prev |-> prev]]
  /\ e.hash.body # Edited

ChainInv ==
  /\ IsSequence(log) /\ appends \in Nat
  /\ tampered \subseteq 1 .. Len(log)
  /\ \A i \in 1 .. Len(log) :
       /\ Chained(log[i], i, PrevHash(log, i))
       /\ log[i].body = IF i \in tampered THEN Edited ELSE log[i].hash.body

\* The empty chain is one.
LEMMA ChainInit == Init => ChainInv
<1> SUFFICES ASSUME Init PROVE ChainInv
  OBVIOUS
<1>1. Len(log) = 0 /\ IsSequence(log)
  BY DEF Init, IsSequence
<1> QED
  BY <1>1 DEF Init, ChainInv

\* Append links to the last hash and Tamper leaves the hashes (log.go:56-86):
\* no step breaks the chain but by an edit.
LEMMA ChainStep == ChainInv /\ [Next]_vars => ChainInv'
<1> SUFFICES ASSUME ChainInv, [Next]_vars PROVE ChainInv'
  OBVIOUS
<1>1. ASSUME NEW w \in Writer, AppendEntry(w) PROVE ChainInv'
  <2> DEFINE e == NewEntry(appends')
             n == Len(log) + 1
  <2>1. /\ IsSequence(log') /\ Len(log') = n
        /\ \A i \in 1 .. Len(log) : log'[i] = log[i]
        /\ log'[n] = e
    BY <1>1, AppendOne DEF AppendEntry, ChainInv
  <2>2. appends' = appends + 1 /\ appends' \in Nat /\ appends' # Edited
    BY <1>1 DEF AppendEntry, ChainInv, Edited
  <2>3. Len(log) \in Nat /\ 1 .. n = 1 .. Len(log) \cup {n} /\ n \notin 1 .. Len(log)
    BY DEF ChainInv, IsSequence
  <2>4. \A i \in 1 .. n : PrevHash(log', i) = PrevHash(log, i)
    BY <2>1, <2>3 DEF PrevHash
  <2>5. Chained(e, n, PrevHash(log, n)) /\ e.body = e.hash.body
    BY <2>2 DEF NewEntry, Chained
  <2>6. tampered' = tampered /\ n \notin tampered
    BY <1>1, <2>3 DEF AppendEntry, ChainInv
  <2> HIDE DEF e, n
  <2>7. ASSUME NEW i \in 1 .. Len(log')
        PROVE  /\ Chained(log'[i], i, PrevHash(log', i))
               /\ log'[i].body = IF i \in tampered' THEN Edited ELSE log'[i].hash.body
    <3>1. CASE i \in 1 .. Len(log)
      <4>1. log'[i] = log[i] /\ PrevHash(log', i) = PrevHash(log, i)
        BY <2>1, <2>4, <3>1
      <4> QED
        BY <2>6, <3>1, <4>1 DEF ChainInv
    <3>2. CASE i = n
      BY <2>1, <2>4, <2>5, <2>6, <3>2
    <3> QED
      BY <2>1, <2>3, <3>1, <3>2
  <2>8. tampered' \subseteq 1 .. Len(log')
    BY <2>1, <2>3, <2>6 DEF ChainInv
  <2> QED
    BY <2>1, <2>2, <2>7, <2>8 DEF ChainInv
<1>2. ASSUME NEW i \in DOMAIN log, Tamper(i) PROVE ChainInv'
  <2> DEFINE e == [log[i] EXCEPT !.body = Edited]
  <2>1. i \in 1 .. Len(log) /\ IsSequence(log)
    BY SequenceOfElements DEF ChainInv
  <2>2. log' = [log EXCEPT ![i] = e]
    BY <1>2 DEF Tamper
  <2>3. Chained(log[i], i, PrevHash(log, i))
    BY <2>1 DEF ChainInv
  <2>4. /\ e.hash = log[i].hash /\ e.body = Edited
        /\ Chained(e, i, PrevHash(log, i))
    <3>1. /\ log[i] = [seq |-> i, body |-> log[i].body, prev |-> PrevHash(log, i),
                       hash |-> log[i].hash]
          /\ log[i].hash = [seq |-> i, body |-> log[i].hash.body, prev |-> PrevHash(log, i)]
          /\ log[i].hash.body # Edited
      BY <2>3 DEF Chained
    <3>2. e = [seq |-> i, body |-> Edited, prev |-> PrevHash(log, i), hash |-> log[i].hash]
      BY <3>1
    <3> QED
      BY <3>1, <3>2 DEF Chained
  <2> HIDE DEF e
  <2>5. /\ IsSequence(log') /\ Len(log') = Len(log) /\ log'[i] = e
        /\ \A j \in 1 .. Len(log) : j # i => log'[j] = log[j]
    BY <2>1, <2>2, ReplaceOne
  <2>6. \A j \in 1 .. Len(log) : log'[j].hash = log[j].hash
    BY <2>5, <2>4
  <2>7. \A j \in 1 .. Len(log) : PrevHash(log', j) = PrevHash(log, j)
    BY <2>6, <2>1 DEF PrevHash, IsSequence
  <2>8. tampered' = tampered \cup {i} /\ appends' = appends
    BY <1>2 DEF Tamper
  <2>9. ASSUME NEW j \in 1 .. Len(log')
        PROVE  /\ Chained(log'[j], j, PrevHash(log', j))
               /\ log'[j].body = IF j \in tampered' THEN Edited ELSE log'[j].hash.body
    <3>1. CASE j = i
      BY <2>1, <2>5, <2>4, <2>7, <2>8, <3>1
    <3>2. CASE j # i
      BY <2>5, <2>7, <2>8, <3>2 DEF ChainInv
    <3> QED
      BY <3>1, <3>2
  <2> QED
    BY <2>1, <2>5, <2>8, <2>9 DEF ChainInv
<1>3. CASE Restart
  <2>1. Len(log') = 0 /\ IsSequence(log')
    BY <1>3 DEF Restart, IsSequence
  <2> QED
    BY <1>3, <2>1 DEF Restart, ChainInv
<1>4. CASE UNCHANGED <<log, tampered, appends>>
  BY <1>4 DEF ChainInv, PrevHash
<1>5. ASSUME NEW w \in Writer, Persist(w) \/ PersistFails(w) PROVE ChainInv'
  BY <1>4, <1>5 DEF Persist, PersistFails
<1> QED
  BY <1>1, <1>2, <1>3, <1>4, <1>5 DEF Next, vars

\* The chain in memory is always one.
LEMMA ChainAlways == Spec => []ChainInv
<1> QED
  BY ChainInit, ChainStep, PTL DEF Spec

\* Verify tells an edited chain from one that was not edited.
THEOREM TamperingFound == Spec => []VerifyFindsTampering
<1>1. ChainInv => VerifyFindsTampering
  <2> SUFFICES ASSUME ChainInv PROVE VerifyFindsTampering
    OBVIOUS
  <2>1. DOMAIN log = 1 .. Len(log)
    BY SequenceOfElements DEF ChainInv
  <2>2. ASSUME NEW i \in 1 .. Len(log)
        PROVE  /\ log[i].seq = i /\ log[i].prev = PrevHash(log, i)
               /\ (log[i].hash = HashEntry(log[i])) <=> (i \notin tampered)
    <3>1. /\ Chained(log[i], i, PrevHash(log, i))
          /\ log[i].body = IF i \in tampered THEN Edited ELSE log[i].hash.body
      BY DEF ChainInv
    <3>2. (log[i].hash = HashEntry(log[i])) <=> (log[i].body = log[i].hash.body)
      BY <3>1 DEF Chained, HashEntry
    <3> QED
      BY <3>1, <3>2 DEF Chained
  <2>3. tampered \subseteq 1 .. Len(log)
    BY DEF ChainInv
  <2> QED
    BY <2>1, <2>2, <2>3 DEF VerifyFindsTampering, Verify
<1> QED
  BY <1>1, ChainAlways, PTL

----------------------------------------------------------------------------
(* The rows of the first boot *)

\* The entry as it was before any edit.
Original(e) == [seq |-> e.seq, body |-> e.hash.body, prev |-> e.prev, hash |-> e.hash]

RowsInv ==
  /\ pending = [w \in Writer |-> pending[w]] /\ boots \in Nat
  /\ \A w \in Writer :
       pending[w] # NoEntry => \E k \in 1 .. Len(log) : pending[w] = Original(log[k])
  /\ boots = 0 =>
       /\ DOMAIN db \cup Awaited \cup lost = 1 .. Len(log)
       /\ \A k \in DOMAIN db : db[k] = Original(log[k])

\* No row is stored or awaited at the start.
LEMMA RowsInit == Init => RowsInv
<1> SUFFICES ASSUME Init PROVE RowsInv
  OBVIOUS
<1>1. Awaited = {}
  BY DEF Init, Awaited, NoEntry
<1>2. DOMAIN db = {} /\ lost = {} /\ 1 .. Len(log) = {}
  BY DEF Init
<1> QED
  BY <1>1, <1>2 DEF Init, RowsInv

\* The original of a chained entry has the number of its place.
LEMMA OriginalSeq ==
  ASSUME ChainInv, NEW k \in 1 .. Len(log)
  PROVE  /\ Original(log[k]).seq = k
         /\ Chained(Original(log[k]), k, PrevHash(log, k))
         /\ Original(log[k]) # NoEntry
<1>1. Chained(log[k], k, PrevHash(log, k)) /\ k # 0
  BY DEF ChainInv
<1>2. log[k].seq = k /\ log[k].prev = PrevHash(log, k)
      /\ log[k].hash = [seq |-> k, body |-> log[k].hash.body, prev |-> PrevHash(log, k)]
      /\ log[k].hash.body # Edited
  BY <1>1 DEF Chained
<1> QED
  BY <1>1, <1>2 DEF Original, Chained, NoEntry

\* A writer that lets go of an entry which now is a row or is lost changes
\* nothing about where the entries of the chain are.
LEMMA Handover ==
  ASSUME NEW w \in Writer, RowsInv, Done(w),
         pending[w].seq # 0,
         DOMAIN db' \cup lost' = DOMAIN db \cup lost \cup {pending[w].seq}
  PROVE  DOMAIN db \cup Awaited \cup lost = (DOMAIN db \cup Awaited \cup lost)'
<1>1. pending' = [pending EXCEPT ![w] = NoEntry] /\ pending = [v \in Writer |-> pending[v]]
  BY DEF Done, RowsInv
<1>2. pending'[w] = NoEntry /\ \A v \in Writer \ {w} : pending'[v] = pending[v]
  BY <1>1
<1>3. Awaited = Awaited' \cup {pending[w].seq}
  BY <1>2 DEF Awaited, NoEntry
<1> QED
  BY <1>3

\* An entry is taken from those awaited when its row is stored or its INSERT
\* fails, and a row that is there stays (sqlite.go:40, main.go:30).
LEMMA RowsStep == ChainInv /\ ChainInv' /\ RowsInv /\ [Next]_vars => RowsInv'
<1> SUFFICES ASSUME ChainInv, ChainInv', RowsInv, [Next]_vars PROVE RowsInv'
  OBVIOUS
<1> DEFINE n == Len(log) + 1
<1>0. Len(log) \in Nat /\ IsSequence(log) /\ DOMAIN log = 1 .. Len(log)
  BY SequenceOfElements DEF ChainInv, IsSequence
<1>1. ASSUME NEW w \in Writer, AppendEntry(w) PROVE RowsInv'
  <2> DEFINE e == NewEntry(appends')
  <2>1. /\ Len(log') = n /\ log'[n] = e
        /\ \A i \in 1 .. Len(log) : log'[i] = log[i]
    BY <1>0, <1>1, AppendOne DEF AppendEntry
  <2>2. Original(e) = e /\ e.seq = n /\ n # 0
    BY <1>0 DEF NewEntry, Original
  <2>3. /\ pending' = [pending EXCEPT ![w] = e] /\ pending[w] = NoEntry
        /\ db' = db /\ lost' = lost /\ boots' = boots
    BY <1>1 DEF AppendEntry
  <2> HIDE DEF e
  <2>4. /\ pending' = [v \in Writer |-> pending'[v]] /\ pending'[w] = e
        /\ \A v \in Writer \ {w} : pending'[v] = pending[v]
    BY <2>3 DEF RowsInv
  <2>5. Awaited' = Awaited \cup {n}
    BY <2>2, <2>3, <2>4 DEF Awaited, NoEntry
  <2>6. 1 .. Len(log') = 1 .. Len(log) \cup {n}
    BY <1>0, <2>1
  <2>7. \A v \in Writer :
          pending'[v] # NoEntry => \E k \in 1 .. Len(log') : pending'[v] = Original(log'[k])
    BY <2>1, <2>2, <2>4, <2>6 DEF RowsInv
  <2>8. boots = 0 => /\ DOMAIN db \cup Awaited' \cup lost = 1 .. Len(log')
                     /\ \A k \in DOMAIN db : db[k] = Original(log'[k])
    BY <2>1, <2>5, <2>6 DEF RowsInv
  <2> QED
    BY <2>3, <2>4, <2>7, <2>8 DEF RowsInv
<1>2. ASSUME NEW w \in Writer, Persist(w) \/ PersistFails(w) PROVE RowsInv'
  <2>1. pending[w] # NoEntry /\ Done(w) /\ log' = log /\ boots' = boots
    BY <1>2 DEF Persist, PersistFails
  <2>2. PICK k \in 1 .. Len(log) : pending[w] = Original(log[k])
    BY <2>1 DEF RowsInv
  <2>3. pending[w].seq = k /\ k # 0
    BY <1>0, <2>2, OriginalSeq
  <2>4. /\ DOMAIN db' \cup lost' = DOMAIN db \cup lost \cup {k}
        /\ DOMAIN db \subseteq DOMAIN db'
        /\ \A j \in DOMAIN db : db'[j] = db[j]
        /\ \A j \in DOMAIN db' \ DOMAIN db : j = k /\ db'[j] = pending[w]
    BY <1>2, <2>3 DEF Persist, PersistFails, Store
  <2>5. DOMAIN db \cup Awaited \cup lost = (DOMAIN db \cup Awaited \cup lost)'
    BY <2>1, <2>3, <2>4, Handover
  <2>6. /\ pending' = [v \in Writer |-> pending'[v]]
        /\ \A v \in Writer : pending'[v] = NoEntry \/ pending'[v] = pending[v]
    BY <2>1 DEF Done, RowsInv
  <2>7. boots = 0 => \A j \in DOMAIN db' : db'[j] = Original(log[j])
    BY <2>2, <2>4 DEF RowsInv
  <2> QED
    BY <2>1, <2>5, <2>6, <2>7 DEF RowsInv
<1>3. ASSUME NEW i \in DOMAIN log, Tamper(i) PROVE RowsInv'
  <2>1. /\ log' = [log EXCEPT ![i] = [log[i] EXCEPT !.body = Edited]]
        /\ UNCHANGED <<pending, db, lost, boots>>
    BY <1>3 DEF Tamper
  <2>2. DOMAIN log' = DOMAIN log /\ Len(log') = Len(log)
    BY <1>0, <2>1, ReplaceOne
  <2>3. Original(log'[i]) = Original(log[i])
    <3>1. Chained(log[i], i, PrevHash(log, i))
      BY <1>0, <1>3 DEF ChainInv
    <3>2. log[i] = [seq |-> i, body |-> log[i].body, prev |-> PrevHash(log, i),
                    hash |-> log[i].hash]
      BY <3>1 DEF Chained
    <3>3. log'[i] = [seq |-> i, body |-> Edited, prev |-> PrevHash(log, i),
                     hash |-> log[i].hash]
      BY <2>1, <3>2
    <3> QED
      BY <3>2, <3>3 DEF Original
  <2>4. \A j \in 1 .. Len(log) : Original(log'[j]) = Original(log[j])
    BY <1>0, <2>1, <2>3
  <2>5. Awaited' = Awaited
    BY <2>1 DEF Awaited
  <2>6. lost' = lost /\ DOMAIN db \cup Awaited \cup lost = 1 .. Len(log) =>
          DOMAIN db \subseteq 1 .. Len(log)
    OBVIOUS
  <2> QED
    BY <2>1, <2>2, <2>4, <2>5, <2>6 DEF RowsInv
<1>4. CASE Restart
  <2>1. boots' = boots + 1 /\ boots' # 0 /\ boots' \in Nat
    BY <1>4 DEF Restart, RowsInv
  <2> QED
    BY <1>4, <2>1 DEF Restart, RowsInv
<1>5. CASE UNCHANGED vars
  BY <1>5 DEF vars, RowsInv, Awaited
<1> QED
  BY <1>1, <1>2, <1>3, <1>4, <1>5 DEF Next

\* Rows and entries awaited are always entries of the chain of their boot.
LEMMA RowsAlways == Spec => [](ChainInv /\ RowsInv)
<1>1. RowsInv /\ ChainInv /\ ChainInv' /\ [Next]_vars => RowsInv'
  BY RowsStep
<1> QED
  BY <1>1, RowsInit, ChainAlways, PTL DEF Spec

\* In the first boot each row is the entry it was made from, and the rows that
\* are missing are awaited or lost (Service.log, SQLite.StoreAudit).
THEOREM RowsMatch == Spec => []RowsMatchLog
<1>1. ChainInv /\ RowsInv => RowsMatchLog
  <2> SUFFICES ASSUME ChainInv, RowsInv, boots = 0 PROVE RowsMatchLog
    BY DEF RowsMatchLog
  <2>1. DOMAIN log = 1 .. Len(log)
    BY SequenceOfElements DEF ChainInv
  <2>2. DOMAIN db \cup Awaited \cup lost = DOMAIN log
    BY <2>1 DEF RowsInv
  <2>3. \A k \in DOMAIN db : db[k] = Original(log[k])
    BY DEF RowsInv
  <2> QED
    BY <2>2, <2>3 DEF RowsMatchLog, Original
<1> QED
  BY <1>1, RowsAlways, PTL

\* Reading in the order of the numbers 1, 2, ... gives the rows as they are.
LEMMA LoadInOrder ==
  ASSUME NEW n \in Nat, DOMAIN db = 1 .. n
  PROVE  LoadAudit = [i \in 1 .. n |-> db[i]]
<1>1. ASSUME NEW m \in 0 .. n PROVE Cardinality(1 .. m) = m
  BY <1>1, FS_Interval
<1>2. ASSUME NEW k \in 1 .. n
      PROVE  Cardinality({j \in DOMAIN db : j <= k}) = k
  <2>1. {j \in DOMAIN db : j <= k} = 1 .. k /\ k \in 0 .. n
    OBVIOUS
  <2>2. Cardinality(1 .. k) = k
    BY <1>1, <2>1
  <2> QED
    BY <2>1, <2>2
<1>3. ASSUME NEW i \in 1 .. n
      PROVE  (CHOOSE k \in DOMAIN db : Cardinality({j \in DOMAIN db : j <= k}) = i) = i
  BY <1>2
<1>4. Cardinality(DOMAIN db) = n
  <2>1. n \in 0 .. n
    OBVIOUS
  <2> QED
    BY <1>1, <2>1
<1> DEFINE place(i) == CHOOSE k \in DOMAIN db : Cardinality({j \in DOMAIN db : j <= k}) = i
<1>5. LoadAudit = [i \in 1 .. n |-> db[place(i)]]
  BY <1>4, Zenon DEF LoadAudit
<1>6. \A i \in 1 .. n : place(i) = i
  BY <1>3
<1> HIDE DEF place
<1> QED
  BY <1>5, <1>6

\* What SQLite holds of the first boot is a chain that verifies, once every
\* writer has stored its row (sqlite.go, LoadAudit; verify.go, Verify).
THEOREM StoredChain == Spec => []StoredChainVerifies
<1>1. ChainInv /\ RowsInv => StoredChainVerifies
  <2> SUFFICES ASSUME ChainInv, RowsInv, boots = 0, Awaited = {}, lost = {}
               PROVE  Verify(LoadAudit)
    BY DEF StoredChainVerifies
  <2>1. /\ Len(log) \in Nat /\ DOMAIN db = 1 .. Len(log)
        /\ \A k \in 1 .. Len(log) : db[k] = Original(log[k])
    BY DEF RowsInv, ChainInv, IsSequence
  <2> DEFINE rows == [i \in 1 .. Len(log) |-> db[i]]
  <2>2. LoadAudit = rows
    BY <2>1, LoadInOrder
  <2>3. \A i \in 1 .. Len(log) : PrevHash(rows, i) = PrevHash(log, i)
    BY <2>1 DEF PrevHash, Original
  <2>4. ASSUME NEW i \in 1 .. Len(log)
        PROVE  /\ rows[i].seq = i /\ rows[i].prev = PrevHash(rows, i)
               /\ rows[i].hash = HashEntry(rows[i])
    <3>1. rows[i] = Original(log[i]) /\ Chained(log[i], i, PrevHash(log, i))
      BY <2>1 DEF ChainInv
    <3>2. log[i].seq = i /\ log[i].prev = PrevHash(log, i)
          /\ log[i].hash = [seq |-> i, body |-> log[i].hash.body, prev |-> PrevHash(log, i)]
      BY <3>1 DEF Chained
    <3> QED
      BY <2>3, <3>1, <3>2 DEF Original, HashEntry
  <2> QED
    BY <2>2, <2>4 DEF Verify
<1> QED
  BY <1>1, RowsAlways, PTL

\* No step changes or removes a row, not even a later boot's insertions
\* (sqlite.go:39, the primary key of audit_log).
THEOREM RowsOnlyAdded == Spec => RowsAppendOnly
<1> DEFINE Kept == \A k \in DOMAIN db : k \in DOMAIN db' /\ db'[k] = db[k]
<1>1. [Next]_vars => [Kept]_vars
  <2> SUFFICES ASSUME Next PROVE Kept
    OBVIOUS
  <2>1. ASSUME NEW w \in Writer, Persist(w) PROVE Kept
    BY <2>1 DEF Persist, Store
  <2>2. CASE UNCHANGED db
    BY <2>2
  <2> QED
    BY <2>1, <2>2 DEF Next, AppendEntry, PersistFails, Tamper, Restart
<1> QED
  BY <1>1, PTL DEF Spec, RowsAppendOnly
=============================================================================
