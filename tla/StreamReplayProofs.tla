------------------------- MODULE StreamReplayProofs -------------------------
(***************************************************************************)
(* Machine-checked proofs about StreamReplay, for every page size, every   *)
(* set of todo_update calls and every bound.                               *)
(***************************************************************************)
EXTENDS StreamReplay, FiniteSetTheorems, SequenceTheorems, TLAPS

\* The rows are numbered 1, 2, ... LastSeq, each once.
Numbered ==
  /\ IsFiniteSet(rows) /\ LastSeq \in Nat
  /\ \A r \in rows : r.seq \in 1 .. LastSeq
  /\ \A k \in 1 .. LastSeq : \E r \in rows : r.seq = k
  /\ \A q, r \in rows : q.seq = r.seq => q = r

\* The transaction with the advisory lock is the only one, and its number is
\* the next; a transaction of the agent's failure report is the agent's.
Locked ==
  /\ \A t \in open : /\ t.first # 0 => t.first = LastSeq + 1
                     /\ t.kind # "todo" => t.first # 0
                     /\ t.kind \in {"compact", "error"} => agent = t.kind
  /\ \A t, u \in open : t.first # 0 /\ u.first # 0 => t = u

\* The todo rows.
TodoRows == {r \in rows : r.type = "todo_update"}

\* The versions of the lists, of their rows and of the list about to be written.
Lists ==
  /\ IsFiniteSet(todos) /\ LastVersion = Cardinality(todos) /\ Cardinality(TodoRows) = Cardinality(todos)
  /\ {l.version : l \in todos} = 1 .. Cardinality(todos)
  /\ \A k, l \in todos : k.call = l.call => k = l
  /\ \A r \in TodoRows : r.version = Cardinality({q \in TodoRows : q.seq <= r.seq})
  /\ \A t, u \in open : t.kind = "todo" /\ u.kind = "todo" => t = u
  /\ \A t \in open : t.kind = "todo" => t.version = LastVersion + 1 /\ ~Replayed(t.call) /\ t.call \in Calls

Cancelling == {"cancelling", "cancelled"}

\* What a transaction is about to write agrees with the status.
OpenTrue ==
  /\ byAgent => status = "failed" /\ agent \notin {"idle", "work"}
  /\ agent = "error" => status = "failed"
  /\ status = "snapshotting" => agent = "idle"
  /\ unsent # {} => status \in Cancelling
  /\ \A t \in open : /\ t.kind = "final" => status = "running"
                     /\ t.kind = "cancel" => status = "cancelling"
                     /\ t.kind = "snapshot_error" => status = "snapshotting"
                     /\ t.kind = "error" => status = "failed"
                     /\ t.kind = "agent_cancel" => status \in Cancelling

\* What is written agrees with the status, and the status is written.
RowsTrue ==
  /\ \A r \in rows : /\ r.type = "done" => status = "completed"
                     /\ r.type = "error" => status = "failed"
                     /\ r.type \in {"cancelled", "cancelled_done"} => status \in Cancelling
  /\ status = "completed" => \E r \in rows : r.type = "done"
  /\ status = "cancelled" => \E r \in rows : r.type = "cancelled_done"
  /\ status = "failed" /\ ~byAgent => \E r \in rows : r.type = "error"

\* The client has received an event that makes its page final.
Told == \E i \in DOMAIN got : Tells(got[i])

\* The agent failed the analysis and its error event was not written when the poller
\* read the status.
Unreported == silent /\ status = "failed" /\ byAgent

\* EndTold, when a page that was final counts although it was reopened.
Closing ==
  conn = "ended" =>
    \/ Told
    \/ Unreported
    \/ over /\ \E i \in DOMAIN got : got[i].type = "compact_failed"
    \/ full /\ ~over

\* The reader continues where the client is.
Reading ==
  /\ ClientInOrder
  /\ conn # "off" => last = Len(got)
  /\ \A i \in DOMAIN page : page[i].seq = last + i /\ page[i] \in rows
  /\ over => \E i \in DOMAIN got : is_terminal_stream_event(got[i])
  /\ conn \in {"final", "emit_final"} => status \in Terminal
  /\ conn = "final" /\ status = "failed" /\ ~silent => \E r \in rows : r.type = "error"
  /\ conn = "emit_final" /\ ~full => Told \/ Unreported \/ \E i \in DOMAIN page : Tells(page[i])
  /\ Closing

\* The agent starts no turn once the end or the failure of the analysis is written.
StatusFirst ==
  \A q \in rows : q.type \in {"done", "error"} =>
    /\ \A r \in rows : r.type = "status" => r.seq < q.seq
    /\ agent # "work" /\ \A t \in open : t.kind # "status"

IInv == TypeOK /\ Numbered /\ Locked /\ Lists /\ OpenTrue /\ RowsTrue /\ Reading

USE StreamAssumption DEF database, poller

-----------------------------------------------------------------------------
(* Numbers                                                                 *)

\* Max is the member that bounds the set.
LEMMA MaxIs ==
  ASSUME NEW S \in SUBSET Nat, NEW n \in S, \A m \in S : m <= n
  PROVE  Max(S) = n
<1>1. \A m \in S : n >= m
  OBVIOUS
<1>2. Max(S) \in S /\ \A m \in S : Max(S) >= m
  BY <1>1 DEF Max
<1>3. Max(S) \in Nat /\ n \in Nat /\ Max(S) >= n /\ n >= Max(S)
  BY <1>1, <1>2
<1>4. QED BY <1>3

LEMMA BijectionCount ==
  ASSUME NEW S, NEW T, IsFiniteSet(S), NEW f \in [S -> T],
         \A x, y \in S : f[x] = f[y] => x = y, \A z \in T : \E x \in S : f[x] = z
  PROVE  IsFiniteSet(T) /\ Cardinality(T) = Cardinality(S)
<1>1. f \in Bijection(S, T)
  BY DEF Bijection, Injection, Surjection, IsInjective
<1>2. ExistsBijection(S, T)
  BY <1>1 DEF ExistsBijection
<1>3. QED BY <1>2, FS_Bijection

\* Rows numbered from a + 1 to b.
LEMMA NumberedCount ==
  ASSUME NEW S, NEW a \in Nat, NEW b \in Nat, a <= b,
         \A r \in S : r.seq \in (a + 1) .. b,
         \A k \in (a + 1) .. b : \E r \in S : r.seq = k,
         \A q, r \in S : q.seq = r.seq => q = r
  PROVE  IsFiniteSet(S) /\ Cardinality(S) = b - a
<1> DEFINE first == a + 1
           D == first .. b
           at == [k \in D |-> CHOOSE r \in S : r.seq = k]
<1>1. \A k \in D : at[k] \in S /\ at[k].seq = k
  OBVIOUS
<1>2. at \in [D -> S]
  BY <1>1
<1>3. \A j, k \in D : at[j] = at[k] => j = k
  BY <1>1
<1>4. \A r \in S : \E k \in D : at[k] = r
  BY <1>1
<1>5. IsFiniteSet(D) /\ Cardinality(D) = b - a
  <2>1. first \in Int /\ b \in Int /\ (first > b => b - a = 0) /\ (~(first > b) => b - first + 1 = b - a)
    OBVIOUS
  <2> HIDE DEF first
  <2>2. IsFiniteSet(D) /\ Cardinality(D) = IF first > b THEN 0 ELSE b - first + 1
    BY <2>1, FS_Interval
  <2>3. QED BY <2>1, <2>2
<1> HIDE DEF at, D
<1>6. IsFiniteSet(S) /\ Cardinality(S) = Cardinality(D)
  BY <1>2, <1>3, <1>4, <1>5, BijectionCount
<1>7. QED BY <1>5, <1>6

\* What each transaction inserts.
LEMMA InsertedRows ==
  ASSUME NEW t \in [kind : Kinds, call : Calls \cup {NoCall}, first : Nat, version : Nat]
  PROVE  /\ t.kind = "final" => Inserted(t) = {Row(t.first, "delta", t.version), Row(t.first + 1, "done", t.version)}
         /\ t.kind = "cancel" =>
              Inserted(t) = {Row(t.first, "cancelled", t.version), Row(t.first + 1, "cancelled_done", t.version)}
         /\ t.kind \notin {"final", "cancel"} =>
              \E type \in EventTypes :
                /\ Inserted(t) = {Row(t.first, type, t.version)}
                /\ type = "todo_update" <=> t.kind = "todo"
                /\ type = "error" <=> t.kind \in {"error", "snapshot_error"}
                /\ type = "cancelled" <=> t.kind = "agent_cancel"
                /\ type = "status" <=> t.kind = "status"
                /\ type \notin {"done", "cancelled_done"}
<1> DEFINE f == t.first
           v == t.version
<1>0. f \in Nat /\ t.kind \in Kinds
  OBVIOUS
<1>1. ASSUME NEW x, EventsOf(t) = <<x>>
      PROVE  Inserted(t) = {Row(f, x, v)}
  <2>1. DOMAIN EventsOf(t) = {1} /\ EventsOf(t)[1] = x /\ f + 1 - 1 = f
    BY <1>0, <1>1
  <2> HIDE DEF f, v
  <2>2. QED BY <2>1 DEF Inserted, f, v
<1>2. ASSUME NEW x, NEW y, EventsOf(t) = <<x, y>>
      PROVE  Inserted(t) = {Row(f, x, v), Row(f + 1, y, v)}
  <2>1. DOMAIN EventsOf(t) = {1, 2} /\ EventsOf(t)[1] = x /\ EventsOf(t)[2] = y /\ f + 1 - 1 = f /\ f + 2 - 1 = f + 1
    BY <1>0, <1>2
  <2>2. QED BY <2>1 DEF Inserted
<1>3. CASE t.kind = "final"
  BY <1>2, <1>3 DEF EventsOf
<1>4. CASE t.kind = "cancel"
  BY <1>2, <1>4 DEF EventsOf
<1>5. CASE t.kind \notin {"final", "cancel"}
  <2>1. \/ t.kind = "agent_cancel" /\ EventsOf(t) = <<"cancelled">>
        \/ t.kind = "status" /\ EventsOf(t) = <<"status">>
        \/ t.kind = "compact" /\ EventsOf(t) = <<"compact_failed">>
        \/ t.kind \in {"error", "snapshot_error"} /\ EventsOf(t) = <<"error">>
        \/ t.kind = "todo" /\ EventsOf(t) = <<"todo_update">>
    BY <1>0, <1>5 DEF EventsOf, Kinds
  <2>2. QED BY <1>1, <1>5, <2>1 DEF EventTypes
<1>6. QED BY <1>3, <1>4, <1>5

-----------------------------------------------------------------------------
(* Types                                                                   *)

Transactions == [kind : Kinds, call : Calls \cup {NoCall}, first : Nat, version : Nat]

Counters == [status : 0 .. MaxStatus, lists : 0 .. MaxLists, faults : 0 .. MaxFaults, cancels : 0 .. MaxCancels]

LEMMA CounterTypes ==
  ASSUME NEW c \in Counters
  PROVE  /\ c.status < MaxStatus => [c EXCEPT !.status = c.status + 1] \in Counters
         /\ c.lists < MaxLists => [c EXCEPT !.lists = c.lists + 1] \in Counters
         /\ c.faults < MaxFaults => [c EXCEPT !.faults = c.faults + 1] \in Counters
         /\ c.cancels < MaxCancels => [c EXCEPT !.cancels = c.cancels + 1] \in Counters
         /\ [c EXCEPT !.faults = c.faults] \in Counters
<1>1. c.status \in 0 .. MaxStatus /\ c.lists \in 0 .. MaxLists /\ c.faults \in 0 .. MaxFaults
      /\ c.cancels \in 0 .. MaxCancels
  BY DEF Counters
<1>2. /\ c.status < MaxStatus => c.status + 1 \in 0 .. MaxStatus
      /\ c.lists < MaxLists => c.lists + 1 \in 0 .. MaxLists
      /\ c.faults < MaxFaults => c.faults + 1 \in 0 .. MaxFaults
      /\ c.cancels < MaxCancels => c.cancels + 1 \in 0 .. MaxCancels
  BY <1>1
<1>3. /\ \A n \in 0 .. MaxStatus : [c EXCEPT !.status = n] \in Counters
      /\ \A n \in 0 .. MaxLists : [c EXCEPT !.lists = n] \in Counters
      /\ \A n \in 0 .. MaxFaults : [c EXCEPT !.faults = n] \in Counters
      /\ \A n \in 0 .. MaxCancels : [c EXCEPT !.cancels = n] \in Counters
  BY DEF Counters
<1>4. QED BY <1>1, <1>2, <1>3

\* A transaction that takes the advisory lock.
LEMMA NumberStep ==
  ASSUME TypeOK, LastSeq \in Nat, NEW kind \in Kinds, Number(kind)
  PROVE  /\ open' \in SUBSET Transactions /\ StreamLockFree
         /\ \E t \in Transactions : /\ t.kind = kind /\ t.first = LastSeq + 1 /\ t.first # 0
                                    /\ open' = open \cup {t}
<1> DEFINE t == [kind |-> kind, call |-> NoCall, first |-> LastSeq + 1, version |-> 0]
<1>1. t \in Transactions /\ t.kind = kind /\ t.first = LastSeq + 1 /\ t.first # 0
  BY DEF Transactions
<1>2. open' = open \cup {t} /\ StreamLockFree
  BY DEF Number
<1> HIDE DEF t
<1>3. QED BY <1>1, <1>2 DEF TypeOK, Transactions

LEMMA InsertedTypes ==
  ASSUME NEW t \in Transactions, t.first # 0
  PROVE  Inserted(t) \in SUBSET Rows
<1>1. t \in [kind : Kinds, call : Calls \cup {NoCall}, first : Nat, version : Nat] /\ t.first \in Nat \ {0}
  BY DEF Transactions
<1>2. \A x \in EventTypes : Row(t.first, x, t.version) \in Rows /\ Row(t.first + 1, x, t.version) \in Rows
  BY <1>1 DEF Row, Rows
<1>3. CASE t.kind = "final"
  BY <1>1, <1>2, <1>3, InsertedRows DEF EventTypes
<1>4. CASE t.kind = "cancel"
  BY <1>1, <1>2, <1>4, InsertedRows DEF EventTypes
<1>5. CASE t.kind \notin {"final", "cancel"}
  BY <1>1, <1>2, <1>5, InsertedRows
<1>6. QED BY <1>3, <1>4, <1>5

\* What the transactions of the writers set.
LEMMA WriterTypes ==
  ASSUME TypeOK, Numbered, Lists,
         \/ SnapshotReady \/ SnapshotFailed \/ AgentStatus \/ FinalAnswer \/ FailAnalysis \/ AgentReports \/ AgentDies
         \/ Cancel \/ HandleCancel \/ AgentHandlesCancel \/ (\E c \in Calls : TodoUpdate(c)) \/ TodoEvent
  PROVE  TypeOK'
<1>0. LastSeq \in Nat /\ LastVersion \in Nat
  BY FS_CardinalityType DEF Numbered, Lists
<1> USE DEF TypeOK
<1>1. CASE SnapshotReady
  BY <1>1 DEF SnapshotReady
<1>2. CASE SnapshotFailed
  <2>1. open' \in SUBSET Transactions
    BY <1>0, <1>2, NumberStep DEF SnapshotFailed, Kinds
  <2>2. QED BY <1>2, <2>1 DEF SnapshotFailed, Transactions
<1>3. CASE AgentStatus
  <2>1. open' \in SUBSET Transactions
    BY <1>0, <1>3, NumberStep DEF AgentStatus, Kinds
  <2>2. count' \in Counters
    BY <1>3, CounterTypes DEF AgentStatus, Counters
  <2>3. QED BY <1>3, <2>1, <2>2 DEF AgentStatus, Transactions, Counters
<1>4. CASE FinalAnswer
  <2>1. open' \in SUBSET Transactions
    BY <1>0, <1>4, NumberStep DEF FinalAnswer, Kinds
  <2>2. QED BY <1>4, <2>1 DEF FinalAnswer, Transactions
<1>5. CASE FailAnalysis
  BY <1>5 DEF FailAnalysis, Closed, Terminal, Continuable
<1>6. CASE AgentReports
  <2>1. open' \in SUBSET Transactions
    BY <1>0, <1>6, NumberStep DEF AgentReports, Kinds
  <2>2. QED BY <1>6, <2>1 DEF AgentReports, Transactions
<1>7. CASE AgentDies
  <2>1. count' \in Counters
    BY <1>7, CounterTypes DEF AgentDies, Counters
  <2>2. QED BY <1>7, <2>1 DEF AgentDies, Counters
<1>8. CASE Cancel
  <2>1. count' \in Counters
    BY <1>8, CounterTypes DEF Cancel, Counters
  <2>2. QED BY <1>8, <2>1 DEF Cancel, Closed, Counters
<1>9. CASE HandleCancel
  <2>1. open' \in SUBSET Transactions /\ unsent' \in SUBSET unsent
    <3>1. CASE status \in Terminal
      BY <1>9, <3>1 DEF HandleCancel, Transactions
    <3>2. CASE status \notin Terminal
      BY <1>0, <1>9, <3>2, NumberStep DEF HandleCancel, Kinds
    <3>3. QED BY <3>1, <3>2
  <2>2. QED BY <1>9, <2>1 DEF HandleCancel, Transactions
<1>10. CASE AgentHandlesCancel
  <2>1. open' \in SUBSET Transactions
    BY <1>0, <1>10, NumberStep DEF AgentHandlesCancel, Kinds
  <2>2. QED BY <1>10, <2>1 DEF AgentHandlesCancel, Transactions
<1>11. ASSUME NEW c \in Calls, TodoUpdate(c)
       PROVE  TypeOK'
  <2> DEFINE t == [kind |-> "todo", call |-> c, first |-> 0, version |-> LastVersion + 1]
  <2>1. t \in Transactions
    BY <1>0 DEF Transactions, Kinds
  <2>2. \/ UNCHANGED <<open, count>>
        \/ /\ count.lists < MaxLists /\ count' = [count EXCEPT !.lists = @ + 1]
           /\ open' = open \cup {t}
    BY <1>11 DEF TodoUpdate
  <2>3. open' \in SUBSET Transactions
    BY <2>1, <2>2 DEF Transactions
  <2>4. count' \in Counters
    <3> HIDE DEF t
    <3>1. QED BY <2>2, CounterTypes DEF Counters
  <2>5. QED BY <1>11, <2>3, <2>4 DEF TodoUpdate, Transactions, Counters
<1>12. CASE TodoEvent
  <2>1. PICK t \in open : open' = (open \ {t}) \cup {[t EXCEPT !.first = LastSeq + 1]}
    BY <1>12 DEF TodoEvent
  <2>2. t \in Transactions
    BY DEF Transactions
  <2>3. [t EXCEPT !.first = LastSeq + 1] \in Transactions
    <3>1. \A n \in Nat : [t EXCEPT !.first = n] \in Transactions
      BY <2>2 DEF Transactions
    <3> DEFINE n == LastSeq + 1
    <3>2. n \in Nat
      BY <1>0
    <3> HIDE DEF n
    <3>3. [t EXCEPT !.first = n] \in Transactions
      BY <3>1, <3>2
    <3>4. QED BY <3>3 DEF n
  <2>4. open' \in SUBSET Transactions
    BY <2>1, <2>3 DEF Transactions
  <2>5. QED BY <1>12, <2>4 DEF TodoEvent, Transactions
<1>13. QED BY <1>1, <1>2, <1>3, <1>4, <1>5, <1>6, <1>7, <1>8, <1>9, <1>10, <1>11, <1>12

LEMMA CommitTypes ==
  ASSUME TypeOK, Lists, NEW t \in open, Commit(t) \/ RollBack(t)
  PROVE  TypeOK'
<1>0. t \in Transactions
  BY DEF TypeOK, Transactions
<1>1. CASE Commit(t)
  <2>1. rows' \in SUBSET Rows
    BY <1>0, <1>1, InsertedTypes DEF Commit, TypeOK
  <2>2. todos' \in SUBSET [version : Nat \ {0}, call : Calls]
    <3>1. t.kind = "todo" => t.version \in Nat \ {0} /\ t.call \in Calls
      BY FS_CardinalityType DEF Lists
    <3>2. QED BY <1>1, <3>1 DEF Commit, TypeOK
  <2>3. status' \in Closed \cup {"snapshotting", "running"}
    BY <1>1 DEF Commit, StatusAfter, TypeOK, Closed, Terminal
  <2>4. agent' \in {"idle", "work", "compact", "error", "stopped"}
    BY <1>1 DEF Commit, AgentAfter, TypeOK
  <2>5. unsent' \in SUBSET {"analysis_worker", "agent_worker"}
    BY <1>1 DEF Commit, TypeOK
  <2>6. open' \subseteq open /\ UNCHANGED <<poller, byAgent, count>>
    BY <1>1 DEF Commit
  <2>7. QED BY <2>1, <2>2, <2>3, <2>4, <2>5, <2>6 DEF TypeOK
<1>2. CASE RollBack(t)
  <2>1. count' \in Counters
    <3>1. \/ count' = [count EXCEPT !.faults = @]
          \/ count.faults < MaxFaults /\ count' = [count EXCEPT !.faults = @ + 1]
      BY <1>2 DEF RollBack
    <3>2. count \in Counters
      BY DEF TypeOK, Counters
    <3>3. QED BY <3>1, <3>2, CounterTypes
  <2>2. QED BY <1>2, <2>1 DEF RollBack, TypeOK, Counters
<1>3. QED BY <1>1, <1>2

-----------------------------------------------------------------------------
(* The reader: pages                                                       *)

\* A page is the events that follow the given one, in order and without a gap.
LEMMA Page ==
  ASSUME TypeOK, Numbered, NEW after \in Nat, after <= LastSeq
  PROVE  /\ stream_events(after) \in Seq(Rows)
         /\ Len(stream_events(after)) <= PageSize
         /\ \A i \in DOMAIN stream_events(after) :
              stream_events(after)[i] \in rows /\ stream_events(after)[i].seq = after + i
         /\ Len(stream_events(after)) # PageSize =>
              \A r \in rows : r.seq > after => \E i \in DOMAIN stream_events(after) : stream_events(after)[i] = r
<1> DEFINE set == {r \in rows : r.seq > after}
           n == Min({PageSize, Cardinality(set)})
           below(r) == {q \in set : q.seq < r.seq}
           elem(i) == CHOOSE r \in set : Cardinality(below(r)) = i - 1
<1>0. /\ LastSeq \in Nat /\ \A r \in rows : r.seq \in 1 .. LastSeq
      /\ \A k \in 1 .. LastSeq : \E r \in rows : r.seq = k
      /\ \A q, r \in rows : q.seq = r.seq => q = r
  BY DEF Numbered
<1>1. Cardinality(set) = LastSeq - after
  <2> DEFINE hi == LastSeq
             S == set
  <2>1. /\ \A r \in S : r.seq \in (after + 1) .. hi
        /\ \A k \in (after + 1) .. hi : \E r \in S : r.seq = k
        /\ \A q, r \in S : q.seq = r.seq => q = r
        /\ hi \in Nat /\ after <= hi
    BY <1>0
  <2> HIDE DEF hi, S
  <2>2. Cardinality(S) = hi - after
    BY <2>1, NumberedCount
  <2>3. QED BY <2>2 DEF S, hi
<1>2. ASSUME NEW r \in set
      PROVE  Cardinality(below(r)) = r.seq - 1 - after
  <2> DEFINE m == r.seq - 1
             B == below(r)
  <2>0. m \in Nat /\ after <= m /\ r.seq \in 1 .. LastSeq
    BY <1>0
  <2>1. /\ \A q \in B : q.seq \in (after + 1) .. m
        /\ \A k \in (after + 1) .. m : \E q \in B : q.seq = k
        /\ \A p, q \in B : p.seq = q.seq => p = q
    BY <1>0, <2>0
  <2> HIDE DEF m, B
  <2>2. Cardinality(B) = m - after
    BY <2>0, <2>1, NumberedCount
  <2>3. QED BY <2>2 DEF m, B
<1>3. n \in Nat /\ n <= PageSize /\ n <= LastSeq - after /\ (n = PageSize \/ n = LastSeq - after)
  <2>1. PageSize \in Nat /\ Cardinality(set) \in Nat
    BY <1>0, <1>1
  <2> HIDE DEF set
  <2>2. \E x \in {PageSize, Cardinality(set)} : \A y \in {PageSize, Cardinality(set)} : x <= y
    BY <2>1
  <2>3. n \in {PageSize, Cardinality(set)} /\ \A y \in {PageSize, Cardinality(set)} : n <= y
    BY <2>2 DEF Min
  <2>4. QED BY <1>1, <2>1, <2>3
<1>4. ASSUME NEW i \in 1 .. n
      PROVE  elem(i) \in rows /\ elem(i).seq = after + i
  <2>1. after + i \in 1 .. LastSeq
    BY <1>0, <1>3
  <2>2. PICK r \in set : r.seq = after + i
    BY <1>0, <2>1
  <2>3. Cardinality(below(r)) = i - 1
    BY <1>2, <2>2
  <2>4. elem(i) \in set /\ Cardinality(below(elem(i))) = i - 1
    <3> HIDE DEF set, below
    <3>1. \E x \in set : Cardinality(below(x)) = i - 1
      BY <2>3
    <3>2. QED BY <3>1
  <2>5. Cardinality(below(elem(i))) = elem(i).seq - 1 - after
    <3> HIDE DEF elem, below
    <3>1. QED BY <1>2, <2>4
  <2>6. elem(i).seq \in Nat
    <3> HIDE DEF elem
    <3>1. QED BY <1>0, <2>4
  <2> HIDE DEF elem, below
  <2>7. QED BY <2>4, <2>5, <2>6
<1>5. stream_events(after) = [i \in 1 .. n |-> elem(i)]
  BY DEF stream_events, Ordered
<1>6. \A i \in 1 .. n : elem(i) \in Rows
  BY <1>4 DEF TypeOK
<1> HIDE DEF elem, n
<1>7. stream_events(after) \in Seq(Rows) /\ Len(stream_events(after)) = n /\ DOMAIN stream_events(after) = 1 .. n
  BY <1>3, <1>5, <1>6
<1>8. \A i \in 1 .. n : stream_events(after)[i] = elem(i)
  BY <1>5
<1>9. ASSUME n # PageSize, NEW r \in rows, r.seq > after
      PROVE  \E i \in 1 .. n : stream_events(after)[i] = r
  <2>1. r.seq - after \in 1 .. n /\ after + (r.seq - after) = r.seq
    BY <1>0, <1>3, <1>9
  <2>2. elem(r.seq - after) \in rows /\ elem(r.seq - after).seq = r.seq
    BY <1>4, <2>1
  <2>3. elem(r.seq - after) = r
    BY <1>0, <2>2
  <2>4. QED BY <1>8, <2>1, <2>3
<1>10. QED BY <1>3, <1>4, <1>7, <1>8, <1>9

\* The reader is never ahead of the rows.
LEMMA LastBound ==
  ASSUME TypeOK, Numbered, Reading, conn # "off"
  PROVE  last \in Nat /\ last <= LastSeq /\ last = Len(got)
<1>1. last = Len(got) /\ got \in Seq(Rows) /\ LastSeq \in Nat
  BY DEF Reading, TypeOK, Numbered
<1>2. Len(got) > 0 => Len(got) \in DOMAIN got
  BY <1>1
<1>3. Len(got) > 0 => got[Len(got)].seq = Len(got) /\ got[Len(got)] \in rows
  BY <1>2 DEF Reading, ClientInOrder
<1>4. QED BY <1>1, <1>3 DEF Numbered

\* What the client gets when an event is yielded is the next event.
LEMMA YieldNext ==
  ASSUME TypeOK, Numbered, Reading, Yield
  PROVE  /\ Head(page) = page[1] /\ Head(page) \in rows /\ Head(page).seq = Len(got) + 1
         /\ last' = last + 1 /\ last = Len(got)
         /\ Len(got') = Len(got) + 1 /\ got'[Len(got) + 1] = Head(page)
         /\ \A i \in DOMAIN got : i \in DOMAIN got' /\ got'[i] = got[i]
         /\ \A i \in DOMAIN got' : i \in DOMAIN got \/ i = Len(got) + 1
         /\ \A i \in DOMAIN page' : i + 1 \in DOMAIN page /\ page'[i] = page[i + 1]
         /\ \A i \in DOMAIN page : i # 1 => i - 1 \in DOMAIN page' /\ page'[i - 1] = page[i]
<1>1. page \in Seq(Rows) /\ page # <<>> /\ got \in Seq(Rows) /\ conn \in {"emit", "emit_final"}
  BY DEF Yield, TypeOK
<1>2. Head(page) = page[1] /\ 1 \in DOMAIN page /\ Head(page) \in Rows
  BY <1>1
<1>3. last \in Nat /\ last = Len(got)
  BY <1>1, LastBound
<1>4. Head(page) \in rows /\ Head(page).seq = last + 1
  BY <1>2, <1>3 DEF Reading
<1>5. last' = last + 1
  <2> DEFINE h == Head(page).seq
             S == {last, h}
  <2>1. h \in Nat /\ S \in SUBSET Nat /\ h \in S /\ \A m \in S : m <= h
    BY <1>3, <1>4
  <2>2. Max(S) = h
    <3> HIDE DEF h, S
    <3>1. QED BY <2>1, MaxIs
  <2>3. QED BY <1>4, <2>2 DEF Yield
<1>6. got' = Append(got, Head(page)) /\ page' = Tail(page)
  BY DEF Yield
<1>7. /\ Len(got') = Len(got) + 1 /\ got'[Len(got) + 1] = Head(page)
      /\ \A i \in DOMAIN got : i \in DOMAIN got' /\ got'[i] = got[i]
      /\ \A i \in DOMAIN got' : i \in DOMAIN got \/ i = Len(got) + 1
  BY <1>1, <1>2, <1>6
<1>8. /\ \A i \in DOMAIN page' : i + 1 \in DOMAIN page /\ page'[i] = page[i + 1]
      /\ \A i \in DOMAIN page : i # 1 => i - 1 \in DOMAIN page' /\ page'[i - 1] = page[i]
  <2>1. Tail(page) \in Seq(Rows) /\ Len(Tail(page)) = Len(page) - 1 /\ Len(page) \in Nat
        /\ DOMAIN page = 1 .. Len(page) /\ DOMAIN Tail(page) = 1 .. Len(Tail(page))
        /\ \A i \in 1 .. Len(Tail(page)) : Tail(page)[i] = page[i + 1]
    BY <1>1, HeadTailProperties
  <2> DEFINE L == Len(page)
             T == Tail(page)
  <2>2. L \in Nat /\ DOMAIN page = 1 .. L /\ DOMAIN T = 1 .. (L - 1) /\ \A i \in 1 .. (L - 1) : T[i] = page[i + 1]
    BY <2>1
  <2> HIDE DEF L, T
  <2>3. \A i \in DOMAIN T : i + 1 \in DOMAIN page /\ T[i] = page[i + 1]
    BY <2>2
  <2>4. ASSUME NEW i \in DOMAIN page, i # 1
        PROVE  i - 1 \in DOMAIN T /\ T[i - 1] = page[i]
    <3>1. i - 1 \in 1 .. (L - 1) /\ (i - 1) + 1 = i
      BY <2>2, <2>4
    <3>2. QED BY <2>2, <3>1
  <2>5. page' = T
    BY <1>6 DEF T
  <2>6. QED BY <2>3, <2>4, <2>5
<1>9. QED BY <1>2, <1>3, <1>4, <1>5, <1>7, <1>8

LEMMA ReaderTypes ==
  ASSUME TypeOK, Numbered, Reading, Connect \/ ReadPage \/ Yield \/ AfterPage \/ Drop
  PROVE  TypeOK'
<1>1. CASE Connect
  <2>1. last' \in Nat
    <3>1. got # <<>> => Len(got) \in DOMAIN got /\ got[Len(got)] \in Rows
      BY DEF TypeOK
    <3>2. QED BY <1>1, <3>1 DEF Connect, LastEventId, Rows
  <2>2. <<>> \in Seq(Rows)
    OBVIOUS
  <2>3. QED BY <1>1, <2>1, <2>2 DEF Connect, TypeOK
<1>2. CASE ReadPage
  <2>1. page' \in Seq(Rows)
    BY <1>2, LastBound, Page DEF ReadPage
  <2>2. full' \in BOOLEAN /\ conn' \in {"emit", "emit_final"}
    BY <1>2 DEF ReadPage
  <2>3. QED BY <1>2, <2>1, <2>2 DEF ReadPage, TypeOK
<1>3. CASE Yield
  <2>1. Head(page) \in Rows /\ Tail(page) \in Seq(Rows) /\ Append(got, Head(page)) \in Seq(Rows)
    BY <1>3 DEF Yield, TypeOK
  <2>2. last' \in Nat
    BY <1>3, YieldNext, SMTT(30) DEF TypeOK
  <2>3. over' \in BOOLEAN
    BY <1>3 DEF Yield, TypeOK, is_terminal_stream_event
  <2>4. QED BY <1>3, <2>1, <2>2, <2>3 DEF Yield, TypeOK
<1>4. CASE AfterPage
  <2>1. silent' \in BOOLEAN
    BY <1>4 DEF AfterPage, TypeOK, NoErrorYet
  <2>2. QED BY <1>4, <2>1 DEF AfterPage, TypeOK
<1>5. CASE Drop
  <2>1. count' \in Counters
    BY <1>5, CounterTypes DEF Drop, Counters, TypeOK
  <2>2. <<>> \in Seq(Rows)
    OBVIOUS
  <2>3. QED BY <1>5, <2>1, <2>2 DEF Drop, TypeOK, Counters
<1>6. QED BY <1>1, <1>2, <1>3, <1>4, <1>5

-----------------------------------------------------------------------------
(* The reader: the client                                                  *)

\* Reading, when the database changes and the reader does not.
LEMMA ReadingKept ==
  ASSUME Reading, UNCHANGED poller, rows \subseteq rows',
         status \in Terminal => status' = status,
         byAgent /\ status = "failed" => byAgent'
  PROVE  Reading'
<1>1. UNCHANGED <<conn, last, page, over, got, full, silent>>
  OBVIOUS
<1>2. ClientInOrder'
  BY <1>1 DEF Reading, ClientInOrder
<1>3. Told' = Told
  BY <1>1 DEF Told, Tells
<1>4. Unreported => Unreported'
  BY <1>1 DEF Unreported, Terminal
<1>5. Closing'
  BY <1>1, <1>3, <1>4 DEF Reading, Closing
<1>6. conn' = "emit_final" /\ ~full' => Told' \/ Unreported' \/ \E i \in DOMAIN page' : Tells(page'[i])
  BY <1>1, <1>3, <1>4 DEF Reading
<1>7. conn' = "final" /\ status' = "failed" /\ ~silent' => \E r \in rows' : r.type = "error"
  BY <1>1 DEF Reading
<1>8. QED BY <1>1, <1>2, <1>5, <1>6, <1>7 DEF Reading, is_terminal_stream_event, Tells

LEMMA ReaderSteps ==
  ASSUME TypeOK, Numbered, RowsTrue, Reading, Connect \/ ReadPage \/ Yield \/ AfterPage \/ Drop
  PROVE  Reading'
<1>1. CASE Connect
  <2>1. last' = Len(got)
    <3>1. got \in Seq(Rows)
      BY DEF TypeOK
    <3>2. got # <<>> => Len(got) \in DOMAIN got
      BY <3>1
    <3>3. got # <<>> => got[Len(got)].seq = Len(got)
      BY <3>2 DEF Reading, ClientInOrder
    <3>4. got = <<>> => Len(got) = 0
      OBVIOUS
    <3>5. QED BY <1>1, <3>3, <3>4 DEF Connect, LastEventId
  <2>2. ClientInOrder'
    BY <1>1 DEF Connect, Reading, ClientInOrder
  <2>3. conn' = "read" /\ got' = got /\ page' = <<>> /\ over' = FALSE
    BY <1>1 DEF Connect
  <2>4. QED BY <2>1, <2>2, <2>3 DEF Reading, Closing
<1>2. CASE ReadPage
  <2>1. last \in Nat /\ last <= LastSeq /\ last = Len(got) /\ got \in Seq(Rows) /\ conn \in {"read", "final"}
    BY <1>2, LastBound DEF ReadPage, TypeOK
  <2> DEFINE p == stream_events(last)
  <2>2. /\ p \in Seq(Rows) /\ Len(p) <= PageSize
        /\ \A i \in DOMAIN p : p[i] \in rows /\ p[i].seq = last + i
        /\ Len(p) # PageSize => \A r \in rows : r.seq > last => \E i \in DOMAIN p : p[i] = r
    BY <2>1, Page
  <2>3. /\ page' = p /\ (full' <=> Len(p) = PageSize) /\ conn' = IF conn = "read" THEN "emit" ELSE "emit_final"
        /\ UNCHANGED <<status, rows, todos, open, agent, unsent, last, over, got, silent, byAgent, count>>
    BY <1>2 DEF ReadPage
  <2> HIDE DEF p
  <2>4. ClientInOrder'
    BY <2>3 DEF Reading, ClientInOrder
  <2>5. (Told' <=> Told) /\ (Unreported' <=> Unreported)
    BY <2>3 DEF Told, Tells, Unreported
  <2>6. \A i \in DOMAIN page' : page'[i].seq = last' + i /\ page'[i] \in rows'
    BY <2>2, <2>3
  <2>7. ASSUME conn' = "emit_final", ~full', ~Told, ~Unreported
        PROVE  \E i \in DOMAIN p : Tells(p[i])
    <3>1. conn = "final" /\ status \in Terminal
      BY <2>1, <2>3, <2>7 DEF Reading
    <3>2. PICK r \in rows : Tells(r)
      <4>1. CASE status = "failed" /\ byAgent
        BY <2>7, <3>1, <4>1 DEF Reading, Unreported, Tells
      <4>2. CASE ~(status = "failed" /\ byAgent)
        BY <3>1, <4>2 DEF RowsTrue, Tells, Terminal
      <4>3. QED BY <4>1, <4>2
    <3>3. r.seq \in 1 .. LastSeq
      BY DEF Numbered
    <3>4. ~(r.seq <= last)
      <4>1. SUFFICES ASSUME r.seq <= last PROVE FALSE
        OBVIOUS
      <4>2. r.seq \in DOMAIN got
        BY <2>1, <3>3, <4>1 DEF Numbered
      <4>3. got[r.seq] = r
        BY <4>2 DEF Reading, ClientInOrder, Numbered
      <4>4. QED BY <2>7, <3>2, <4>2, <4>3 DEF Told
    <3>5. r.seq > last
      BY <2>1, <3>3, <3>4 DEF Numbered
    <3>6. QED BY <2>2, <2>3, <2>7, <3>2, <3>5
  <2>8. QED
    <3>1. conn' \in {"emit", "emit_final"} /\ (conn' = "emit_final" => conn = "final")
      BY <2>1, <2>3
    <3>2. last' = Len(got')
      BY <2>1, <2>3
    <3>3. over' => \E i \in DOMAIN got' : is_terminal_stream_event(got'[i])
      BY <2>3 DEF Reading, is_terminal_stream_event
    <3>4. conn' = "emit_final" => status' \in Terminal
      BY <2>3, <3>1 DEF Reading
    <3>5. conn' = "emit_final" /\ ~full' =>
            Told' \/ Unreported' \/ \E i \in DOMAIN page' : Tells(page'[i])
      BY <2>3, <2>5, <2>7
    <3>6. QED BY <2>4, <2>6, <3>1, <3>2, <3>3, <3>4, <3>5 DEF Reading, Closing, is_terminal_stream_event, Tells
<1>3. CASE Yield
  <2>1. /\ Head(page) = page[1] /\ Head(page) \in rows /\ Head(page).seq = Len(got) + 1
        /\ last' = last + 1 /\ last = Len(got)
        /\ Len(got') = Len(got) + 1 /\ got'[Len(got) + 1] = Head(page)
        /\ \A i \in DOMAIN got : i \in DOMAIN got' /\ got'[i] = got[i]
        /\ \A i \in DOMAIN got' : i \in DOMAIN got \/ i = Len(got) + 1
        /\ \A i \in DOMAIN page' : i + 1 \in DOMAIN page /\ page'[i] = page[i + 1]
        /\ \A i \in DOMAIN page : i # 1 => i - 1 \in DOMAIN page' /\ page'[i - 1] = page[i]
    BY <1>3, YieldNext
  <2>2. /\ conn \in {"emit", "emit_final"} /\ (over' <=> over \/ is_terminal_stream_event(Head(page)))
        /\ UNCHANGED <<status, rows, conn, full, silent, byAgent>>
    BY <1>3 DEF Yield
  <2>3. got' \in Seq(Rows) /\ page \in Seq(Rows) /\ page' \in Seq(Rows) /\ last \in Nat
    BY <1>3, ReaderTypes DEF TypeOK
  <2>4. Len(got) + 1 \in DOMAIN got'
    BY <2>1, <2>3
  <2>5. ClientInOrder'
    <3> SUFFICES ASSUME NEW i \in DOMAIN got' PROVE got'[i].seq = i /\ got'[i] \in rows'
      BY DEF ClientInOrder
    <3>1. CASE i \in DOMAIN got
      BY <2>1, <2>2, <3>1 DEF Reading, ClientInOrder
    <3>2. CASE i = Len(got) + 1
      BY <2>1, <2>2, <3>2
    <3>3. QED BY <2>1, <3>1, <3>2
  <2>6. \A i \in DOMAIN page' : page'[i].seq = last' + i /\ page'[i] \in rows'
    <3> TAKE i \in DOMAIN page'
    <3>1. i \in Nat /\ i + 1 \in DOMAIN page /\ page'[i] = page[i + 1]
      BY <2>1, <2>3
    <3>2. page[i + 1].seq = last + (i + 1) /\ page[i + 1] \in rows
      BY <3>1 DEF Reading
    <3>3. last' = last + 1
      BY <2>1
    <3>4. last \in Nat
      BY <2>3
    <3>5. (last + 1) + i = last + (i + 1)
      BY <3>1, <3>4
    <3>6. QED BY <2>2, <3>1, <3>2, <3>3, <3>5
  <2>7. over' => \E i \in DOMAIN got' : is_terminal_stream_event(got'[i])
    <3>1. CASE over
      BY <2>1, <3>1 DEF Reading
    <3>2. CASE is_terminal_stream_event(Head(page))
      <4>1. is_terminal_stream_event(got'[Len(got) + 1])
        BY <2>1, <3>2
      <4>2. QED BY <2>4, <4>1
    <3>3. QED BY <2>2, <3>1, <3>2
  <2>8. Told \/ Tells(Head(page)) => Told'
    <3>1. CASE Told
      <4>1. PICK i \in DOMAIN got : Tells(got[i])
        BY <3>1 DEF Told
      <4>2. i \in DOMAIN got' /\ Tells(got'[i])
        BY <2>1, <4>1
      <4>3. QED BY <4>2 DEF Told, Tells
    <3>2. CASE Tells(Head(page))
      <4>1. Tells(got'[Len(got) + 1])
        BY <2>1, <3>2
      <4>2. QED BY <2>4, <4>1 DEF Told, Tells
    <3>3. QED BY <3>1, <3>2
  <2>9. conn' = "emit_final" /\ ~full' =>
          Told' \/ Unreported' \/ \E i \in DOMAIN page' : Tells(page'[i])
    <3>1. SUFFICES ASSUME conn = "emit_final", ~full, ~Told, ~Unreported, ~Tells(Head(page))
                   PROVE  \E i \in DOMAIN page' : Tells(page'[i])
      BY <2>2, <2>8 DEF Unreported
    <3>2. PICK i \in DOMAIN page : Tells(page[i])
      BY <3>1 DEF Reading
    <3>3. i # 1
      BY <2>1, <3>1, <3>2
    <3>4. i - 1 \in DOMAIN page' /\ page'[i - 1] = page[i]
      BY <2>1, <3>3
    <3>5. QED BY <3>2, <3>4
  <2>10. QED
    <3>1. last' = Len(got') /\ conn' = conn /\ conn # "ended" /\ conn # "final"
      BY <2>1, <2>2
    <3>2. conn' = "emit_final" => status' \in Terminal
      BY <2>2 DEF Reading
    <3>3. QED BY <2>5, <2>6, <2>7, <2>9, <3>1, <3>2 DEF Reading, Closing, is_terminal_stream_event, Tells
<1>4. CASE AfterPage
  <2>1. /\ conn \in {"emit", "emit_final"} /\ page = <<>>
        /\ UNCHANGED <<status, rows, last, page, over, got, full, byAgent>>
        /\ \/ conn' = "ended" /\ (over \/ conn = "emit_final") /\ silent' = silent
           \/ conn' = "final" /\ status \in Terminal /\ silent' = NoErrorYet
           \/ conn' = "read"
    BY <1>4 DEF AfterPage, OverByStatus
  <2>2. ClientInOrder'
    BY <2>1 DEF Reading, ClientInOrder
  <2>3. Told' <=> Told
    BY <2>1 DEF Told, Tells
  <2>4. Closing'
    <3>1. SUFFICES ASSUME conn' = "ended", ~Told, ~Unreported, ~(full /\ ~over)
                   PROVE  over /\ \E i \in DOMAIN got : got[i].type = "compact_failed"
      BY <2>1, <2>3 DEF Closing, Unreported
    <3>2. over
      BY <2>1, <3>1 DEF Reading
    <3>3. PICK i \in DOMAIN got : is_terminal_stream_event(got[i])
      BY <3>2 DEF Reading
    <3>4. QED BY <3>1, <3>2, <3>3 DEF Told, Tells, is_terminal_stream_event
  <2>5. over' => \E i \in DOMAIN got' : is_terminal_stream_event(got'[i])
    BY <2>1 DEF Reading, is_terminal_stream_event
  <2>6. last' = Len(got')
    BY <2>1 DEF Reading
  <2>7. \A i \in DOMAIN page' : page'[i].seq = last' + i /\ page'[i] \in rows'
    BY <2>1
  <2>8. conn' = "final" /\ status' = "failed" /\ ~silent' => \E r \in rows' : r.type = "error"
    BY <2>1 DEF NoErrorYet
  <2>9. QED BY <2>1, <2>2, <2>4, <2>5, <2>6, <2>7, <2>8 DEF Reading, is_terminal_stream_event, Tells
<1>5. CASE Drop
  <2>1. conn' = "off" /\ page' = <<>> /\ over' = FALSE /\ UNCHANGED <<rows, got>>
    BY <1>5 DEF Drop
  <2>2. ClientInOrder'
    BY <2>1 DEF Reading, ClientInOrder
  <2>3. QED BY <2>1, <2>2 DEF Reading, Closing
<1>6. QED BY <1>1, <1>2, <1>3, <1>4, <1>5

-----------------------------------------------------------------------------
(* The rows: numbers                                                       *)

\* Numbered, of any set of rows.
NumberedTo(S, n) ==
  /\ IsFiniteSet(S) /\ n \in Nat
  /\ \A r \in S : r.seq \in 1 .. n
  /\ \A k \in 1 .. n : \E r \in S : r.seq = k
  /\ \A q, r \in S : q.seq = r.seq => q = r

LEMMA AddRow ==
  ASSUME NEW S, NEW n, NumberedTo(S, n), NEW r, r.seq = n + 1
  PROVE  NumberedTo(S \cup {r}, n + 1)
<1>1. IsFiniteSet(S \cup {r}) /\ n \in Nat
  BY FS_AddElement DEF NumberedTo
<1>2. \A q \in S : q.seq \in 1 .. n
  BY DEF NumberedTo
<1>3. \A q \in S \cup {r} : q.seq \in 1 .. (n + 1)
  BY <1>1, <1>2
<1>4. \A k \in 1 .. (n + 1) : k \in 1 .. n \/ k = n + 1
  BY <1>1
<1>5. \A k \in 1 .. (n + 1) : \E q \in S \cup {r} : q.seq = k
  BY <1>4 DEF NumberedTo
<1>6. \A p, q \in S \cup {r} : p.seq = q.seq => p = q
  <2>1. \A q \in S : q.seq # n + 1
    BY <1>1, <1>2
  <2>2. QED BY <2>1 DEF NumberedTo
<1>7. QED BY <1>1, <1>3, <1>5, <1>6 DEF NumberedTo

LEMMA NumberedMax ==
  ASSUME NEW S, NEW n, NumberedTo(S, n)
  PROVE  Max({r.seq : r \in S} \cup {0}) = n
<1> DEFINE N == {r.seq : r \in S} \cup {0}
<1>1. n \in Nat /\ \A m \in N : m \in Nat /\ m <= n
  BY DEF NumberedTo
<1>2. n \in N
  <2>1. CASE n = 0
    BY <2>1
  <2>2. CASE n # 0
    <3>1. n \in 1 .. n
      BY <1>1, <2>2
    <3>2. PICK r \in S : r.seq = n
      BY <3>1 DEF NumberedTo
    <3>3. QED BY <3>2
  <2>3. QED BY <2>1, <2>2
<1> HIDE DEF N
<1>3. Max(N) = n
  BY <1>1, <1>2, MaxIs
<1>4. QED BY <1>3 DEF N

\* What a commit does to the numbers.
LEMMA CommitNumbers ==
  ASSUME TypeOK, Numbered, NEW t \in Transactions, t.first = LastSeq + 1, rows' = rows \cup Inserted(t)
  PROVE  Numbered' /\ LastSeq' > LastSeq
<1> DEFINE n == LastSeq
<1>0. NumberedTo(rows, n) /\ n \in Nat
  BY DEF Numbered, NumberedTo
<1>1. t \in [kind : Kinds, call : Calls \cup {NoCall}, first : Nat, version : Nat]
  BY DEF Transactions
<1> HIDE DEF n
<1>2. ASSUME NEW x, Inserted(t) = {Row(t.first, x, t.version)}
      PROVE  NumberedTo(rows', n + 1)
  <2>1. Row(t.first, x, t.version).seq = n + 1
    BY DEF Row, n
  <2>2. QED BY <1>0, <1>2, <2>1, AddRow
<1>3. ASSUME NEW x, NEW y, Inserted(t) = {Row(t.first, x, t.version), Row(t.first + 1, y, t.version)}
      PROVE  NumberedTo(rows', n + 2)
  <2> DEFINE p == Row(t.first, x, t.version)
             q == Row(t.first + 1, y, t.version)
             m == n + 1
  <2>1. p.seq = m /\ q.seq = m + 1 /\ m + 1 = n + 2
    BY <1>0 DEF Row, n
  <2>2. rows' = (rows \cup {p}) \cup {q}
    BY <1>3
  <2> HIDE DEF p, q
  <2>3. NumberedTo(rows \cup {p}, m)
    BY <1>0, <2>1, AddRow
  <2> HIDE DEF m
  <2>4. NumberedTo((rows \cup {p}) \cup {q}, m + 1)
    BY <2>1, <2>3, AddRow
  <2>5. QED BY <2>1, <2>2, <2>4
<1>4. \E k \in Nat : NumberedTo(rows', k) /\ k > n
  <2>1. CASE t.kind \in {"final", "cancel"}
    <3>1. NumberedTo(rows', n + 2)
      BY <1>1, <1>3, <2>1, InsertedRows
    <3>2. QED BY <1>0, <3>1
  <2>2. CASE t.kind \notin {"final", "cancel"}
    <3>1. NumberedTo(rows', n + 1)
      BY <1>1, <1>2, <2>2, InsertedRows
    <3>2. QED BY <1>0, <3>1
  <2>3. QED BY <2>1, <2>2
<1>5. PICK k \in Nat : NumberedTo(rows', k) /\ k > n
  BY <1>4
<1>6. LastSeq' = k
  BY <1>5, NumberedMax DEF LastSeq
<1>7. QED BY <1>5, <1>6 DEF Numbered, NumberedTo, n

-----------------------------------------------------------------------------
(* The todo lists                                                          *)

\* Lists, when no list is written.
LEMMA ListsKept ==
  ASSUME Lists, todos' = todos, TodoRows' = TodoRows,
         \A t \in open' : t.kind = "todo" => \E u \in open : u.kind = "todo" /\ u.version = t.version /\ u.call = t.call,
         \A t, u \in open' : t.kind = "todo" /\ u.kind = "todo" => t = u
  PROVE  Lists'
<1>1. LastVersion' = LastVersion /\ \A c : Replayed(c)' <=> Replayed(c)
  BY DEF LastVersion, Replayed
<1>2. \A t \in open' : t.kind = "todo" => t.version = LastVersion' + 1 /\ ~Replayed(t.call)' /\ t.call \in Calls
  BY <1>1 DEF Lists
<1>3. QED BY <1>1, <1>2 DEF Lists

\* Only a todo transaction writes todo rows.
LEMMA OtherCommit ==
  ASSUME TypeOK, NEW t \in open, t.kind # "todo", rows' = rows \cup Inserted(t)
  PROVE  TodoRows' = TodoRows
<1>1. t \in [kind : Kinds, call : Calls \cup {NoCall}, first : Nat, version : Nat]
  BY DEF TypeOK
<1>2. \A a, x, v : Row(a, x, v).type = x
  BY DEF Row
<1>3. \A r \in Inserted(t) : r.type # "todo_update"
  <2>1. CASE t.kind = "final"
    BY <1>1, <1>2, <2>1, InsertedRows
  <2>2. CASE t.kind = "cancel"
    BY <1>1, <1>2, <2>2, InsertedRows
  <2>3. CASE t.kind \notin {"final", "cancel"}
    BY <1>1, <1>2, <2>3, InsertedRows
  <2>4. QED BY <2>1, <2>2, <2>3
<1>4. QED BY <1>3 DEF TodoRows

LEMMA TodoCommit ==
  ASSUME TypeOK, Numbered, Locked, Lists, NEW t \in open, t.kind = "todo", Commit(t)
  PROVE  Lists'
<1> DEFINE n == Cardinality(todos)
           l == [version |-> t.version, call |-> t.call]
           r == Row(LastSeq + 1, "todo_update", t.version)
<1>0. /\ n \in Nat /\ IsFiniteSet(todos) /\ LastVersion = n /\ Cardinality(TodoRows) = n
      /\ {k.version : k \in todos} = 1 .. n /\ t.version = n + 1 /\ ~Replayed(t.call) /\ t.call \in Calls
  BY FS_CardinalityType DEF Lists
<1>1. todos' = todos \cup {l} /\ open' = open \ {t} /\ l.version = n + 1 /\ l.call = t.call
  BY <1>0 DEF Commit
<1>2. rows' = rows \cup {r} /\ r.type = "todo_update" /\ r.version = n + 1 /\ r.seq = LastSeq + 1
  <2>1. t \in [kind : Kinds, call : Calls \cup {NoCall}, first : Nat, version : Nat] /\ t.first = LastSeq + 1
    BY DEF TypeOK, Locked, Commit
  <2>2. Inserted(t) = {r}
    BY <2>1, InsertedRows
  <2>3. QED BY <1>0, <2>2 DEF Commit, Row
<1> HIDE DEF n, l, r
<1>3. l \notin todos /\ \A k \in todos : k.call # l.call
  BY <1>0, <1>1 DEF Replayed
<1>4. IsFiniteSet(todos') /\ Cardinality(todos') = n + 1
  BY <1>0, <1>1, <1>3, FS_AddElement DEF n
<1>5. {k.version : k \in todos'} = 1 .. (n + 1)
  <2>1. {k.version : k \in todos'} = {k.version : k \in todos} \cup {n + 1}
    BY <1>1
  <2>2. QED BY <1>0, <2>1
<1>6. LastVersion' = n + 1
  <2> DEFINE S == {k.version : k \in todos'} \cup {0}
             m == n + 1
  <2>1. S \in SUBSET Nat /\ m \in S /\ \A k \in S : k <= m
    BY <1>0, <1>5
  <2> HIDE DEF S, m
  <2>2. Max(S) = m
    BY <2>1, MaxIs
  <2>3. QED BY <2>2 DEF LastVersion, S, m
<1>7. LastSeq \in Nat /\ \A q \in rows : q.seq \in Nat /\ q.seq <= LastSeq
  BY DEF Numbered
<1>8. TodoRows' = TodoRows \cup {r} /\ r \notin TodoRows
  BY <1>2, <1>7 DEF TodoRows
<1>9. IsFiniteSet(TodoRows) /\ Cardinality(TodoRows') = n + 1
  <2>1. IsFiniteSet(TodoRows)
    BY FS_Subset DEF TodoRows, Numbered
  <2>2. QED BY <1>0, <1>8, <2>1, FS_AddElement
<1>10. \A q \in TodoRows' : q.version = Cardinality({p \in TodoRows' : p.seq <= q.seq})
  <2> TAKE q \in TodoRows'
  <2>1. CASE q = r
    <3>1. {p \in TodoRows' : p.seq <= q.seq} = TodoRows'
      BY <1>2, <1>7, <1>8, <2>1 DEF TodoRows
    <3>2. QED BY <1>2, <1>9, <2>1, <3>1
  <2>2. CASE q \in TodoRows
    <3>1. {p \in TodoRows' : p.seq <= q.seq} = {p \in TodoRows : p.seq <= q.seq}
      <4>1. ~(r.seq <= q.seq)
        BY <1>2, <1>7, <2>2 DEF TodoRows
      <4>2. QED BY <1>8, <4>1
    <3>2. QED BY <2>2, <3>1 DEF Lists
  <2>3. QED BY <1>8, <2>1, <2>2
<1>11. \A u \in open' : u.kind # "todo"
  BY <1>1 DEF Lists
<1>12. \A j, k \in todos' : j.call = k.call => j = k
  BY <1>1, <1>3 DEF Lists
<1>13. QED BY <1>0, <1>4, <1>5, <1>6, <1>9, <1>10, <1>11, <1>12 DEF Lists

-----------------------------------------------------------------------------
(* The steps                                                               *)

Data == Numbered /\ Locked /\ Lists /\ OpenTrue /\ RowsTrue

LEMMA DataUnchanged ==
  ASSUME Data, UNCHANGED <<database, agent, unsent, byAgent>>
  PROVE  Data'
<1>0. UNCHANGED <<status, rows, todos, open, agent, unsent, byAgent>>
  OBVIOUS
<1>1. Numbered' /\ LastSeq' = LastSeq
  BY <1>0 DEF Data, Numbered, LastSeq
<1>2. Locked'
  BY <1>0, <1>1 DEF Data, Locked
<1>3. Lists'
  BY <1>0, ListsKept DEF Data, TodoRows, Lists
<1>4. OpenTrue' /\ RowsTrue'
  BY <1>0 DEF Data, OpenTrue, RowsTrue
<1>5. QED BY <1>1, <1>2, <1>3, <1>4 DEF Data

\* The invariants of the rows, when only a transaction starts or stops.
LEMMA RowsKept ==
  ASSUME Numbered, RowsTrue, Reading, UNCHANGED <<status, rows, byAgent, poller>>
  PROVE  Numbered' /\ LastSeq' = LastSeq /\ RowsTrue' /\ Reading' /\ TodoRows' = TodoRows
<1>1. Numbered' /\ LastSeq' = LastSeq
  BY DEF Numbered, LastSeq
<1>2. RowsTrue'
  BY DEF RowsTrue
<1>3. TodoRows' = TodoRows
  BY DEF TodoRows
<1>4. Reading'
  <2>1. UNCHANGED poller /\ rows \subseteq rows' /\ status' = status /\ byAgent' = byAgent
    OBVIOUS
  <2>2. QED BY <2>1, ReadingKept
<1>5. QED BY <1>1, <1>2, <1>3, <1>4

\* A transaction takes the advisory lock.
LEMMA NumberInv ==
  ASSUME IInv, NEW kind \in Kinds \ {"todo"}, Number(kind),
         UNCHANGED <<status, rows, todos, agent, unsent, poller, byAgent>>,
         kind = "final" => status = "running",
         kind = "cancel" => status = "cancelling",
         kind = "snapshot_error" => status = "snapshotting",
         kind = "error" => status = "failed",
         kind = "agent_cancel" => status \in Cancelling,
         kind \in {"compact", "error"} => agent = kind
  PROVE  Data' /\ Reading'
<1>0. TypeOK /\ LastSeq \in Nat /\ Numbered /\ Locked /\ Lists /\ OpenTrue /\ RowsTrue /\ Reading
  BY DEF IInv, Numbered
<1>1. Numbered' /\ LastSeq' = LastSeq /\ RowsTrue' /\ Reading' /\ TodoRows' = TodoRows
  BY <1>0, RowsKept
<1>2. PICK t \in Transactions : /\ t.kind = kind /\ t.first = LastSeq + 1 /\ t.first # 0
                                /\ open' = open \cup {t} /\ StreamLockFree
  BY <1>0, NumberStep
<1>3. \A u \in open : u.first = 0 /\ u.kind = "todo"
  BY <1>0, <1>2 DEF StreamLockFree, Locked
<1>4. Locked'
  BY <1>0, <1>1, <1>2, <1>3 DEF Locked
<1>5. Lists'
  BY <1>0, <1>1, <1>2, ListsKept DEF Lists
<1>6. OpenTrue'
  BY <1>0, <1>2, <1>3 DEF OpenTrue
<1>7. QED BY <1>1, <1>4, <1>5, <1>6 DEF Data

LEMMA NumberSteps ==
  ASSUME IInv, SnapshotFailed \/ AgentStatus \/ FinalAnswer \/ AgentReports \/ HandleCancel \/ AgentHandlesCancel
  PROVE  Data' /\ Reading'
<1>0. TypeOK /\ Numbered /\ Locked /\ Lists /\ OpenTrue /\ RowsTrue /\ Reading
  BY DEF IInv
<1>1. CASE SnapshotFailed
  BY <1>1, NumberInv DEF SnapshotFailed, Kinds
<1>2. CASE AgentStatus
  BY <1>2, NumberInv DEF AgentStatus, Kinds
<1>3. CASE FinalAnswer
  <2>1. status = "running"
    BY <1>0, <1>3 DEF FinalAnswer, Continuable, TypeOK
  <2>2. QED BY <1>3, <2>1, NumberInv DEF FinalAnswer, Kinds
<1>4. CASE AgentReports
  <2>1. agent = "error" => status = "failed"
    BY <1>0 DEF OpenTrue
  <2>2. QED BY <1>4, <2>1, NumberInv DEF AgentReports, Kinds
<1>5. CASE HandleCancel
  <2>1. status \in Cancelling
    BY <1>0, <1>5 DEF HandleCancel, OpenTrue
  <2>2. CASE status \in Terminal
    <3>1. unsent' \subseteq unsent /\ UNCHANGED <<status, rows, todos, open, agent, poller, byAgent>>
      BY <1>5, <2>2 DEF HandleCancel
    <3>2. Numbered' /\ LastSeq' = LastSeq /\ RowsTrue' /\ Reading' /\ TodoRows' = TodoRows
      BY <1>0, <3>1, RowsKept
    <3>3. Locked' /\ OpenTrue'
      BY <1>0, <3>1, <3>2 DEF Locked, OpenTrue
    <3>4. Lists'
      BY <1>0, <3>1, <3>2, ListsKept DEF Lists
    <3>5. QED BY <3>2, <3>3, <3>4 DEF Data
  <2>3. CASE status \notin Terminal
    <3>1. status = "cancelling"
      BY <2>1, <2>3 DEF Cancelling, Terminal
    <3>2. QED BY <1>5, <2>3, <3>1, NumberInv DEF HandleCancel, Kinds
  <2>4. QED BY <2>2, <2>3
<1>6. CASE AgentHandlesCancel
  <2>1. status \in Cancelling
    BY <1>0, <1>6 DEF AgentHandlesCancel, OpenTrue
  <2>2. QED BY <1>6, <2>1, NumberInv DEF AgentHandlesCancel, Kinds
<1>7. QED BY <1>1, <1>2, <1>3, <1>4, <1>5, <1>6

\* The todo tool: the list and, in the same transaction, its event.
LEMMA TodoSteps ==
  ASSUME IInv, (\E c \in Calls : TodoUpdate(c)) \/ TodoEvent
  PROVE  Data' /\ Reading'
<1>0. TypeOK /\ Numbered /\ Locked /\ Lists /\ OpenTrue /\ RowsTrue /\ Reading
  BY DEF IInv
<1>1. UNCHANGED <<status, rows, todos, agent, unsent, poller, byAgent>>
  BY DEF TodoUpdate, TodoEvent
<1>2. Numbered' /\ LastSeq' = LastSeq /\ RowsTrue' /\ Reading' /\ TodoRows' = TodoRows
  BY <1>0, <1>1, RowsKept
<1>3. LastVersion' = LastVersion /\ (\A c : Replayed(c)' <=> Replayed(c)) /\ LastSeq \in Nat /\ LastVersion \in Nat
  BY <1>0, <1>1, FS_CardinalityType DEF LastVersion, Replayed, Numbered, Lists
<1>4. CASE UNCHANGED open
  BY <1>0, <1>1, <1>2, <1>4, DataUnchanged DEF Data
<1>5. ASSUME NEW c \in Calls, TodoUpdate(c), ~UNCHANGED open
      PROVE  Locked' /\ Lists' /\ OpenTrue'
  <2> DEFINE t == [kind |-> "todo", call |-> c, first |-> 0, version |-> LastVersion + 1]
  <2>1. open' = open \cup {t} /\ ~Replayed(c) /\ \A u \in open : u.kind # "todo"
    BY <1>5 DEF TodoUpdate
  <2>2. t.kind = "todo" /\ t.call = c /\ t.first = 0 /\ t.version = LastVersion + 1
    OBVIOUS
  <2> HIDE DEF t
  <2>3. Locked'
    BY <1>0, <1>1, <1>2, <2>1, <2>2 DEF Locked
  <2>4. OpenTrue'
    BY <1>0, <1>1, <2>1, <2>2 DEF OpenTrue
  <2>5. Lists'
    <3>1. \A u \in open' : u.kind = "todo" => u = t
      BY <2>1
    <3>2. \A u \in open' : u.kind = "todo" => u.version = LastVersion' + 1 /\ ~Replayed(u.call)' /\ u.call \in Calls
      BY <1>3, <2>1, <2>2, <3>1
    <3>3. QED BY <1>0, <1>1, <1>2, <1>3, <3>1, <3>2 DEF Lists
  <2>6. QED BY <2>3, <2>4, <2>5
<1>6. CASE TodoEvent
  <2>1. PICK t \in open : /\ t.kind = "todo" /\ t.first = 0 /\ StreamLockFree
                          /\ open' = (open \ {t}) \cup {[t EXCEPT !.first = LastSeq + 1]}
    BY <1>6 DEF TodoEvent
  <2> DEFINE u == [t EXCEPT !.first = LastSeq + 1]
  <2>2. u.kind = "todo" /\ u.call = t.call /\ u.first = LastSeq + 1 /\ u.version = t.version /\ u.first # 0
    BY <1>0, <1>3, <2>1 DEF TypeOK
  <2>3. open' = (open \ {t}) \cup {u}
    BY <2>1
  <2> HIDE DEF u
  <2>4. \A s \in open : s.first = 0 /\ s.kind = "todo" /\ s = t
    BY <1>0, <2>1 DEF StreamLockFree, Locked, Lists
  <2>5. open' = {u}
    BY <2>3, <2>4
  <2>6. Locked' /\ OpenTrue'
    BY <1>0, <1>1, <1>2, <2>2, <2>5 DEF Locked, OpenTrue
  <2>7. Lists'
    BY <1>0, <1>1, <1>2, <2>1, <2>2, <2>5, ListsKept
  <2>8. QED BY <1>2, <2>6, <2>7 DEF Data
<1>7. QED BY <1>2, <1>4, <1>5, <1>6 DEF Data

\* The transactions that change the status and write no event.
LEMMA StatusSteps ==
  ASSUME IInv, SnapshotReady \/ FailAnalysis \/ AgentDies \/ Cancel
  PROVE  Data' /\ Reading'
<1>0. TypeOK /\ Numbered /\ Locked /\ Lists /\ OpenTrue /\ RowsTrue /\ Reading
  BY DEF IInv
<1>1. UNCHANGED <<rows, todos, open, poller>>
  BY DEF SnapshotReady, FailAnalysis, AgentDies, Cancel
<1>2. Numbered' /\ LastSeq' = LastSeq /\ TodoRows' = TodoRows
  BY <1>0, <1>1 DEF Numbered, LastSeq, TodoRows
<1>3. Lists'
  BY <1>0, <1>1, <1>2, ListsKept DEF Lists
<1>4. ASSUME Locked', OpenTrue', RowsTrue', status \in Terminal => status' = status, byAgent /\ status = "failed" => byAgent'
      PROVE  Data' /\ Reading'
  <2>1. Reading'
    BY <1>0, <1>1, <1>4, ReadingKept
  <2>2. QED BY <1>2, <1>3, <1>4, <2>1 DEF Data
<1>5. ~RowLocked => \A t \in open : t.kind \notin {"final", "cancel", "snapshot_error"}
  BY DEF RowLocked
<1>6. CASE SnapshotReady
  <2>1. /\ status = "snapshotting" /\ ~RowLocked /\ status' = "running" /\ agent' = "work"
        /\ UNCHANGED <<unsent, byAgent>>
    BY <1>6 DEF SnapshotReady
  <2>2. agent = "idle" /\ ~byAgent /\ unsent = {}
    BY <1>0, <2>1 DEF OpenTrue, Cancelling
  <2>3. Locked'
    BY <1>0, <1>1, <1>2, <2>2 DEF Locked
  <2>4. OpenTrue'
    BY <1>0, <1>1, <1>5, <2>1, <2>2 DEF OpenTrue, Cancelling
  <2>5. RowsTrue'
    BY <1>0, <1>1, <2>1 DEF RowsTrue, Cancelling
  <2>6. QED BY <1>4, <2>1, <2>2, <2>3, <2>4, <2>5 DEF Terminal
<1>7. CASE FailAnalysis
  <2>1. PICK next \in {"compact", "error"} :
          /\ agent = "work" /\ ~RowLocked
          /\ status' = IF Continuable THEN "failed" ELSE status
          /\ byAgent' = Continuable
          /\ agent' = IF Continuable \/ next = "compact" THEN next ELSE "stopped"
    BY <1>7 DEF FailAnalysis
  <2>2. unsent' = unsent /\ ~byAgent /\ status # "snapshotting"
    BY <1>0, <1>7, <2>1 DEF OpenTrue, FailAnalysis
  <2>3. Locked'
    BY <1>0, <1>1, <1>2, <2>1 DEF Locked
  <2>4. CASE Continuable
    <3>1. status = "running" /\ status' = "failed" /\ byAgent' /\ agent' = next
      BY <1>0, <2>1, <2>4 DEF Continuable, TypeOK
    <3>2. OpenTrue'
      BY <1>0, <1>1, <1>5, <2>1, <2>2, <3>1 DEF OpenTrue, Cancelling
    <3>3. RowsTrue'
      BY <1>0, <1>1, <3>1 DEF RowsTrue, Cancelling
    <3>4. QED BY <1>4, <2>3, <3>1, <3>2, <3>3 DEF Terminal
  <2>5. CASE ~Continuable
    <3>1. status' = status /\ ~byAgent' /\ agent' \in {"compact", "stopped"}
      BY <2>1, <2>5
    <3>2. OpenTrue'
      BY <1>0, <1>1, <2>2, <3>1 DEF OpenTrue
    <3>3. RowsTrue'
      BY <1>0, <1>1, <2>2, <3>1 DEF RowsTrue
    <3>4. QED BY <1>4, <2>2, <2>3, <3>1, <3>2, <3>3
  <2>6. QED BY <2>4, <2>5
<1>8. CASE AgentDies
  <2>1. /\ agent \in {"compact", "error"} /\ agent' = "stopped" /\ (\A t \in open : t.kind # agent)
        /\ UNCHANGED <<status, unsent, byAgent>>
    BY <1>8 DEF AgentDies
  <2>2. Locked'
    BY <1>0, <1>1, <1>2, <2>1 DEF Locked
  <2>3. OpenTrue'
    BY <1>0, <1>1, <2>1 DEF OpenTrue
  <2>4. RowsTrue'
    BY <1>0, <1>1, <2>1 DEF RowsTrue
  <2>5. QED BY <1>4, <2>1, <2>2, <2>3, <2>4
<1>9. CASE Cancel
  <2>1. /\ status \notin Terminal /\ ~RowLocked /\ status' = "cancelling"
        /\ UNCHANGED <<agent, byAgent>>
    BY <1>9 DEF Cancel
  <2>2. ~byAgent /\ agent # "error"
    BY <1>0, <2>1 DEF OpenTrue, Terminal
  <2>3. Locked'
    BY <1>0, <1>1, <1>2, <2>1 DEF Locked
  <2>4. OpenTrue'
    BY <1>0, <1>1, <1>5, <2>1, <2>2 DEF OpenTrue, Cancelling, Terminal
  <2>5. RowsTrue'
    BY <1>0, <1>1, <2>1 DEF RowsTrue, Cancelling, Terminal
  <2>6. QED BY <1>4, <2>1, <2>2, <2>3, <2>4, <2>5
<1>10. QED BY <1>6, <1>7, <1>8, <1>9

\* A transaction ends.
LEMMA EndSteps ==
  ASSUME IInv, NEW t \in open, Commit(t) \/ RollBack(t)
  PROVE  Data' /\ Reading'
<1>0. TypeOK /\ Numbered /\ Locked /\ Lists /\ OpenTrue /\ RowsTrue /\ Reading /\ t \in Transactions
  BY DEF IInv, TypeOK, Transactions
<1>1. CASE RollBack(t)
  <2>1. /\ open' = open \ {t} /\ UNCHANGED <<status, rows, todos, unsent, poller, byAgent>>
        /\ agent' = IF t.kind \in {"compact", "error"} THEN "stopped" ELSE agent
    BY <1>1 DEF RollBack
  <2>2. Numbered' /\ LastSeq' = LastSeq /\ RowsTrue' /\ Reading' /\ TodoRows' = TodoRows
    BY <1>0, <2>1, RowsKept
  <2>3. Locked'
    <3>1. CASE t.kind \in {"compact", "error"}
      <4>1. \A u \in open' : u.kind \notin {"compact", "error"}
        BY <1>0, <2>1, <3>1 DEF Locked
      <4>2. QED BY <1>0, <2>1, <2>2, <4>1 DEF Locked
    <3>2. CASE t.kind \notin {"compact", "error"}
      BY <1>0, <2>1, <2>2, <3>2 DEF Locked
    <3>3. QED BY <3>1, <3>2
  <2>4. OpenTrue'
    <3>1. t.kind \in {"compact", "error"} => agent = t.kind
      BY <1>0 DEF Locked
    <3>2. QED BY <1>0, <2>1, <3>1 DEF OpenTrue
  <2>5. Lists'
    BY <1>0, <2>1, <2>2, ListsKept DEF Lists
  <2>6. QED BY <2>2, <2>3, <2>4, <2>5 DEF Data
<1>2. CASE Commit(t)
  <2>1. /\ t.first = LastSeq + 1 /\ t.first # 0 /\ open' = open \ {t} /\ rows' = rows \cup Inserted(t)
        /\ status' = StatusAfter(t) /\ agent' = AgentAfter(t) /\ UNCHANGED <<poller, byAgent>>
        /\ unsent' \subseteq unsent /\ (t.kind # "todo" => todos' = todos)
    BY <1>0, <1>2 DEF Commit, Locked
  <2>2. Numbered'
    BY <1>0, <2>1, CommitNumbers
  <2>3. \A u \in open' : u.first = 0 /\ u.kind = "todo"
    BY <1>0, <2>1 DEF Locked
  <2>4. Locked'
    BY <2>3 DEF Locked
  <2>5. Lists'
    <3>1. CASE t.kind = "todo"
      BY <1>0, <1>2, <3>1, TodoCommit
    <3>2. CASE t.kind # "todo"
      BY <1>0, <2>1, <3>2, OtherCommit, ListsKept DEF Lists
    <3>3. QED BY <3>1, <3>2
  <2>6. \A a, x, v : Row(a, x, v).type = x
    BY DEF Row
  <2>7. t \in [kind : Kinds, call : Calls \cup {NoCall}, first : Nat, version : Nat]
    BY <1>0 DEF Transactions
  <2>8. /\ status \in Terminal => status' = status
        /\ OpenTrue' /\ RowsTrue'
    <3>1. CASE t.kind = "final"
      <4>1. status = "running" /\ status' = "completed" /\ agent' = "stopped" /\ ~byAgent /\ unsent = {}
        BY <1>0, <2>1, <3>1 DEF OpenTrue, StatusAfter, AgentAfter, Cancelling
      <4>2. \E r \in rows' : r.type = "done"
        BY <2>1, <2>6, <2>7, <3>1, InsertedRows
      <4>3. \A r \in rows' : r \in rows \/ r.type \in {"delta", "done"}
        BY <2>1, <2>6, <2>7, <3>1, InsertedRows
      <4>4. RowsTrue'
        BY <1>0, <4>1, <4>2, <4>3 DEF RowsTrue, Cancelling
      <4>5. OpenTrue'
        BY <2>1, <2>3, <4>1 DEF OpenTrue
      <4>6. QED BY <4>1, <4>4, <4>5 DEF Terminal
    <3>2. CASE t.kind = "cancel"
      <4>1. status = "cancelling" /\ status' = "cancelled" /\ agent' = agent /\ ~byAgent /\ agent # "error"
        BY <1>0, <2>1, <3>2 DEF OpenTrue, StatusAfter, AgentAfter
      <4>2. \E r \in rows' : r.type = "cancelled_done"
        BY <2>1, <2>6, <2>7, <3>2, InsertedRows
      <4>3. \A r \in rows' : r \in rows \/ r.type \in {"cancelled", "cancelled_done"}
        BY <2>1, <2>6, <2>7, <3>2, InsertedRows
      <4>4. RowsTrue'
        BY <1>0, <4>1, <4>2, <4>3 DEF RowsTrue, Cancelling
      <4>5. OpenTrue'
        BY <2>1, <2>3, <4>1 DEF OpenTrue, Cancelling
      <4>6. QED BY <4>1, <4>4, <4>5 DEF Terminal
    <3>3. CASE t.kind \notin {"final", "cancel"}
      <4>1. PICK type \in EventTypes :
               /\ Inserted(t) = {Row(t.first, type, t.version)}
               /\ type = "todo_update" <=> t.kind = "todo"
               /\ type = "error" <=> t.kind \in {"error", "snapshot_error"}
               /\ type = "cancelled" <=> t.kind = "agent_cancel"
               /\ type \notin {"done", "cancelled_done"}
        BY <2>7, <3>3, InsertedRows
      <4>2. (\A r \in rows' : r \in rows \/ r.type = type) /\ (\E r \in rows' : r.type = type) /\ rows \subseteq rows'
        BY <2>1, <2>6, <4>1
      <4>3. CASE t.kind = "snapshot_error"
        <5>1. /\ status = "snapshotting" /\ status' = "failed" /\ agent' = agent /\ agent = "idle" /\ ~byAgent
              /\ unsent = {}
          BY <1>0, <2>1, <4>3 DEF OpenTrue, StatusAfter, AgentAfter, Cancelling
        <5>2. RowsTrue'
          BY <1>0, <2>1, <4>1, <4>2, <4>3, <5>1 DEF RowsTrue, Cancelling
        <5>3. OpenTrue'
          BY <2>1, <2>3, <5>1 DEF OpenTrue
        <5>4. QED BY <5>1, <5>2, <5>3 DEF Terminal
      <4>4. CASE t.kind # "snapshot_error"
        <5>1. status' = status
          BY <2>1, <3>3, <4>4 DEF StatusAfter
        <5>2. t.kind = "error" => status = "failed"
          BY <1>0 DEF OpenTrue
        <5>3. t.kind = "agent_cancel" => status \in Cancelling
          BY <1>0 DEF OpenTrue
        <5>4. RowsTrue'
          BY <1>0, <2>1, <4>1, <4>2, <4>4, <5>1, <5>2, <5>3 DEF RowsTrue
        <5>5. /\ t.kind = "compact" => agent = "compact" /\ agent' = IF byAgent THEN "error" ELSE "stopped"
              /\ t.kind = "error" => agent = "error" /\ agent' = "stopped"
              /\ t.kind \notin {"compact", "error"} => agent' = agent
          BY <1>0, <2>1, <3>3 DEF AgentAfter, Locked
        <5>6. OpenTrue'
          BY <1>0, <2>1, <2>3, <5>1, <5>5 DEF OpenTrue
        <5>7. QED BY <5>1, <5>4, <5>6
      <4>5. QED BY <4>3, <4>4
    <3>4. QED BY <3>1, <3>2, <3>3
  <2>9. Reading'
    BY <1>0, <2>1, <2>8, ReadingKept
  <2>10. QED BY <2>2, <2>4, <2>5, <2>8, <2>9 DEF Data
<1>3. QED BY <1>1, <1>2

-----------------------------------------------------------------------------
(* The theorems                                                            *)

LEMMA InvInit ==
  ASSUME Init
  PROVE  IInv
<1> USE DEF Init
<1>0. LastSeq = 0 /\ LastVersion = 0 /\ Cardinality(todos) = 0 /\ Cardinality(TodoRows) = 0 /\ IsFiniteSet({})
  <2>1. {r.seq : r \in rows} \cup {0} = {0} /\ {l.version : l \in todos} \cup {0} = {0} /\ TodoRows = {}
    BY DEF TodoRows
  <2>2. Max({0}) = 0
    BY MaxIs
  <2>3. QED BY <2>1, <2>2, FS_EmptySet DEF LastSeq, LastVersion
<1>1. TypeOK
  <2>1. <<>> \in Seq(Rows)
    OBVIOUS
  <2>2. count \in Counters
    BY DEF Counters
  <2>3. QED BY <2>1, <2>2 DEF TypeOK, Counters
<1>2. Numbered
  BY <1>0 DEF Numbered
<1>3. Locked /\ OpenTrue /\ RowsTrue
  BY DEF Locked, OpenTrue, RowsTrue
<1>4. Lists
  BY <1>0 DEF Lists, TodoRows
<1>5. Reading
  BY DEF Reading, ClientInOrder, Closing
<1>6. QED BY <1>1, <1>2, <1>3, <1>4, <1>5 DEF IInv

LEMMA InvStep ==
  ASSUME IInv, [Next]_vars
  PROVE  IInv'
<1>0. TypeOK /\ Numbered /\ Locked /\ Lists /\ OpenTrue /\ RowsTrue /\ Reading
  BY DEF IInv
<1>1. ASSUME TypeOK', Data' /\ Reading'
      PROVE  IInv'
  BY <1>1 DEF IInv, Data
<1>2. CASE \/ SnapshotReady \/ FailAnalysis \/ AgentDies \/ Cancel
  BY <1>0, <1>1, <1>2, StatusSteps, WriterTypes
<1>3. CASE SnapshotFailed \/ AgentStatus \/ FinalAnswer \/ AgentReports \/ HandleCancel \/ AgentHandlesCancel
  BY <1>0, <1>1, <1>3, NumberSteps, WriterTypes
<1>4. CASE (\E c \in Calls : TodoUpdate(c)) \/ TodoEvent
  BY <1>0, <1>1, <1>4, TodoSteps, WriterTypes
<1>5. CASE CommitAny \/ RollBackAny
  BY <1>0, <1>1, <1>5, EndSteps, CommitTypes DEF CommitAny, RollBackAny
<1>6. CASE Connect \/ ReadPage \/ Yield \/ AfterPage \/ Drop
  <2>1. UNCHANGED <<database, agent, unsent, byAgent>>
    BY <1>6 DEF Connect, ReadPage, Yield, AfterPage, Drop
  <2>2. Data'
    BY <1>0, <2>1, DataUnchanged DEF Data
  <2>3. QED BY <1>0, <1>1, <1>6, <2>2, ReaderTypes, ReaderSteps
<1>7. CASE UNCHANGED vars
  <2>1. UNCHANGED <<status, rows, todos, open, agent, unsent, poller, byAgent, count>>
    BY <1>7 DEF vars
  <2>2. Data'
    BY <1>0, <2>1, DataUnchanged DEF Data
  <2>3. Reading'
    BY <1>0, <2>1, RowsKept
  <2>4. TypeOK'
    BY <1>0, <2>1 DEF TypeOK
  <2>5. QED BY <1>1, <2>2, <2>3, <2>4
<1>8. QED BY <1>2, <1>3, <1>4, <1>5, <1>6, <1>7 DEF Next, Serve

\* The inductive invariant holds in every state of the event stream.
THEOREM Invariant == Spec => []IInv
<1>1. Init => IInv
  BY InvInit
<1>2. IInv /\ [Next]_vars => IInv'
  BY InvStep
<1>3. QED BY <1>1, <1>2, PTL DEF Spec

\* Every variable of StreamReplay keeps its type: rows, transactions, the pages
\* of the reader and the counters.
THEOREM TypeCorrect == Spec => []TypeOK
<1>1. IInv => TypeOK
  BY DEF IInv
<1>2. QED BY <1>1, Invariant, PTL

\* Over all its connections the client of stream_analysis_events receives the
\* events from the first on, in order, without a gap and without a repetition,
\* whatever commits between two pages.
THEOREM ClientReceivesInOrder == Spec => []ClientInOrder
<1>1. IInv => ClientInOrder
  BY DEF IInv, Reading
<1>2. QED BY <1>1, Invariant, PTL

\* The status events of the agent come before the answer and before an error.
LEMMA StatusFirstStep ==
  ASSUME IInv, StatusFirst, [Next]_vars
  PROVE  StatusFirst'
<1>0. TypeOK /\ Numbered /\ Locked /\ OpenTrue /\ RowsTrue /\ StatusFirst
  BY DEF IInv
<1>1. ASSUME UNCHANGED rows,
             agent' = "work" => agent = "work" \/ status = "snapshotting",
             \A t \in open' : t.kind = "status" => t \in open \/ agent = "work"
      PROVE  StatusFirst'
  BY <1>0, <1>1 DEF StatusFirst, RowsTrue
<1>2. ASSUME NEW t \in open, Commit(t)
      PROVE  StatusFirst'
  <2>1. /\ t \in Transactions /\ t.first = LastSeq + 1 /\ LastSeq \in Nat /\ open' = open \ {t}
        /\ rows' = rows \cup Inserted(t) /\ agent' = AgentAfter(t)
    BY <1>0, <1>2 DEF Commit, Locked, Numbered, TypeOK, Transactions
  <2>2. \A u \in open' : u.kind = "todo"
    BY <1>0, <1>2, <2>1 DEF Commit, Locked
  <2>3. \A r \in rows : r.seq \in Nat /\ r.seq <= LastSeq
    BY <1>0, <2>1 DEF Numbered
  <2>4. \A a, x, v : Row(a, x, v).type = x /\ Row(a, x, v).seq = a
    BY DEF Row
  <2>5. t \in [kind : Kinds, call : Calls \cup {NoCall}, first : Nat, version : Nat]
    BY <2>1 DEF Transactions
  <2>6. agent' = "work" => agent = "work"
    BY <2>1 DEF AgentAfter
  <2>7. ASSUME agent' # "work", \A r \in rows' : r.type = "status" => r \in rows,
               \A q \in rows' : q \in rows \/ q.seq \in {LastSeq + 1, LastSeq + 2}
        PROVE  StatusFirst'
    <3>1. SUFFICES ASSUME NEW q \in rows', q.type \in {"done", "error"}, NEW r \in rows', r.type = "status"
                   PROVE  r.seq < q.seq
      BY <2>2, <2>7 DEF StatusFirst
    <3>2. CASE q \in rows
      BY <1>0, <2>7, <3>1, <3>2 DEF StatusFirst
    <3>3. CASE q.seq \in {LastSeq + 1, LastSeq + 2}
      BY <2>1, <2>3, <2>7, <3>1, <3>3
    <3>4. QED BY <2>7, <3>2, <3>3
  <2>8. CASE t.kind = "final"
    <3>1. Inserted(t) = {Row(t.first, "delta", t.version), Row(t.first + 1, "done", t.version)}
      BY <2>5, <2>8, InsertedRows
    <3>2. agent' = "stopped"
      BY <2>1, <2>8 DEF AgentAfter
    <3>3. \A r \in rows' : r.type = "status" => r \in rows
      BY <2>1, <2>4, <3>1
    <3>4. \A q \in rows' : q \in rows \/ q.seq \in {LastSeq + 1, LastSeq + 2}
      BY <2>1, <2>4, <3>1
    <3>5. QED BY <2>7, <3>2, <3>3, <3>4
  <2>9. CASE t.kind = "cancel"
    <3>1. \A q \in rows' : q \in rows \/ q.type \in {"cancelled", "cancelled_done"}
      BY <2>1, <2>4, <2>5, <2>9, InsertedRows
    <3>2. QED BY <1>0, <2>2, <2>6, <3>1 DEF StatusFirst
  <2>10. CASE t.kind \notin {"final", "cancel"}
    <3>1. PICK type \in EventTypes :
            /\ Inserted(t) = {Row(t.first, type, t.version)}
            /\ type = "error" <=> t.kind \in {"error", "snapshot_error"}
            /\ type = "status" <=> t.kind = "status"
            /\ type # "done"
      BY <2>5, <2>10, InsertedRows
    <3>2. \A q \in rows' : q \in rows \/ (q.type = type /\ q.seq = LastSeq + 1)
      BY <2>1, <2>4, <3>1
    <3>3. CASE type = "status"
      <4>1. \A q \in rows' : q.type \notin {"done", "error"}
        BY <1>0, <3>1, <3>2, <3>3 DEF StatusFirst
      <4>2. QED BY <4>1 DEF StatusFirst
    <3>4. CASE type = "error"
      <4>1. agent' # "work"
        <5>1. CASE t.kind = "error"
          BY <2>1, <5>1 DEF AgentAfter
        <5>2. CASE t.kind = "snapshot_error"
          BY <1>0, <2>6, <5>2 DEF OpenTrue
        <5>3. QED BY <3>1, <3>4, <5>1, <5>2
      <4>2. \A r \in rows' : r.type = "status" => r \in rows
        BY <3>2, <3>4
      <4>3. \A q \in rows' : q \in rows \/ q.seq \in {LastSeq + 1, LastSeq + 2}
        BY <3>2
      <4>4. QED BY <2>7, <4>1, <4>2, <4>3
    <3>5. CASE type \notin {"status", "error"}
      <4>1. \A q \in rows' : q.type \in {"status", "done", "error"} => q \in rows
        BY <3>1, <3>2, <3>5
      <4>2. QED BY <1>0, <2>2, <2>6, <4>1 DEF StatusFirst
    <3>6. QED BY <3>3, <3>4, <3>5
  <2>11. QED BY <2>8, <2>9, <2>10
<1>3. ASSUME NEW kind, kind # "status" \/ agent = "work", Number(kind), UNCHANGED <<rows, agent>>
      PROVE  StatusFirst'
  <2>1. \A t \in open' : t \in open \/ t.kind = kind
    BY <1>3 DEF Number
  <2>2. QED BY <1>1, <1>3, <2>1
<1>4. CASE SnapshotReady \/ FailAnalysis \/ AgentDies \/ Cancel
  BY <1>1, <1>4 DEF SnapshotReady, FailAnalysis, AgentDies, Cancel
<1>5. CASE SnapshotFailed \/ AgentStatus \/ FinalAnswer \/ AgentReports \/ AgentHandlesCancel
  BY <1>3, <1>5 DEF SnapshotFailed, AgentStatus, FinalAnswer, AgentReports, AgentHandlesCancel
<1>6. CASE HandleCancel
  <2>1. CASE status \in Terminal
    BY <1>1, <1>6, <2>1 DEF HandleCancel
  <2>2. CASE status \notin Terminal
    BY <1>3, <1>6, <2>2 DEF HandleCancel
  <2>3. QED BY <2>1, <2>2
<1>7. ASSUME NEW c \in Calls, TodoUpdate(c)
      PROVE  StatusFirst'
  <2>1. \A t \in open' : t \in open \/ t.kind = "todo"
    BY <1>7 DEF TodoUpdate
  <2>2. QED BY <1>1, <1>7, <2>1 DEF TodoUpdate
<1>8. CASE TodoEvent
  <2>1. \A t \in open' : t \in open \/ t.kind = "todo"
    BY <1>0, <1>8 DEF TodoEvent, TypeOK
  <2>2. QED BY <1>1, <1>8, <2>1 DEF TodoEvent
<1>9. ASSUME NEW t \in open, RollBack(t)
      PROVE  StatusFirst'
  BY <1>1, <1>9 DEF RollBack
<1>10. CASE Connect \/ ReadPage \/ Yield \/ AfterPage \/ Drop
  BY <1>1, <1>10 DEF Connect, ReadPage, Yield, AfterPage, Drop
<1>11. CASE UNCHANGED vars
  BY <1>1, <1>11 DEF vars
<1>12. QED BY <1>2, <1>4, <1>5, <1>6, <1>7, <1>8, <1>9, <1>10, <1>11 DEF Next, Serve, CommitAny, RollBackAny

\* _polling_sse_event_records ends a stream only when the page of the client is
\* final, except in the four situations EndTold names; of the endings only a
\* cancellation's can be reopened by a later status event.
THEOREM StreamEndTold == Spec => []EndTold
<1>1. Init => StatusFirst
  BY DEF Init, StatusFirst
<1>2. IInv /\ StatusFirst /\ [Next]_vars => StatusFirst'
  BY StatusFirstStep
<1>3. IInv /\ StatusFirst => EndTold
  <2>1. SUFFICES ASSUME IInv, StatusFirst, Told PROVE PageFinal \/ Reopened
    BY DEF IInv, Reading, Closing, Unreported, EndTold
  <2>2. PICK i \in DOMAIN got : Tells(got[i])
    BY <2>1 DEF Told
  <2>3. SUFFICES ASSUME NEW j \in DOMAIN got, j > i, got[j].type = "status" PROVE Reopened
    BY <2>2 DEF PageFinal
  <2>4. /\ got[i] \in rows /\ got[j] \in rows /\ got[i].seq = i /\ got[j].seq = j
        /\ i \in Nat /\ j \in Nat
    BY <2>1 DEF IInv, Reading, ClientInOrder, TypeOK
  <2>5. got[i].type \notin {"done", "error"}
    BY <2>1, <2>3, <2>4 DEF StatusFirst
  <2>6. QED BY <2>2, <2>3, <2>4, <2>5 DEF Tells, Reopened
<1>4. QED BY <1>1, <1>2, <1>3, Invariant, PTL DEF Spec

\* The ending the client is told is the status of the analysis, however the
\* writers' transactions interleave.
THEOREM EndingTrue == Spec => []ToldTruth
<1>1. IInv => ToldTruth
  BY DEF IInv, Reading, ClientInOrder, RowsTrue, ToldTruth, Cancelling
<1>2. QED BY <1>1, Invariant, PTL

\* The lists a client has seen are the rows of the lists written up to there.
LEMMA ShownCount ==
  ASSUME IInv, NEW n \in DOMAIN got
  PROVE  Cardinality({q \in TodoRows : q.seq <= n}) = Cardinality(ListsShown(n))
<1>0. TypeOK /\ Numbered /\ ClientInOrder
  BY DEF IInv, Reading
<1>1. got \in Seq(Rows) /\ n \in 1 .. Len(got) /\ Len(got) \in Nat /\ DOMAIN got = 1 .. Len(got)
  BY <1>0 DEF TypeOK
<1> DEFINE S == ListsShown(n)
           T == {q \in TodoRows : q.seq <= n}
           f == [i \in S |-> got[i]]
<1>2. IsFiniteSet(S)
  <2>1. IsFiniteSet(1 .. n) /\ S \subseteq 1 .. n
    BY <1>1, FS_Interval DEF ListsShown
  <2>2. QED BY <2>1, FS_Subset
<1>3. \A i \in S : i \in DOMAIN got /\ got[i] \in rows /\ got[i].seq = i /\ got[i].type = "todo_update" /\ i <= n
  BY <1>0, <1>1 DEF ListsShown, ClientInOrder
<1>4. f \in [S -> T]
  BY <1>3 DEF TodoRows
<1>5. \A i, j \in S : f[i] = f[j] => i = j
  BY <1>3
<1>6. \A q \in T : \E i \in S : f[i] = q
  <2> TAKE q \in T
  <2>1. q \in rows /\ q.type = "todo_update" /\ q.seq \in 1 .. n
    BY <1>0, <1>1 DEF TodoRows, Numbered
  <2>2. q.seq \in DOMAIN got
    BY <1>1, <2>1
  <2>3. got[q.seq] = q
    BY <1>0, <2>1, <2>2 DEF ClientInOrder, Numbered
  <2>4. q.seq \in S
    BY <2>1, <2>3 DEF ListsShown
  <2>5. QED BY <2>3, <2>4
<1> HIDE DEF S, T, f
<1>7. Cardinality(T) = Cardinality(S)
  BY <1>2, <1>4, <1>5, <1>6, BijectionCount
<1>8. QED BY <1>7 DEF S, T

\* Each todo_update call leaves one list, the versions are 1, 2, ..., and the
\* client sees each list once and in the order of the versions.
THEOREM TodoListsInOrder == Spec => []TodoInOrder
<1>1. IInv => TodoInOrder
  <2> SUFFICES ASSUME IInv PROVE TodoInOrder
    OBVIOUS
  <2>1. ASSUME NEW n \in DOMAIN got, got[n].type = "todo_update"
        PROVE  got[n].version = Cardinality(ListsShown(n))
    <3>1. got[n] \in TodoRows /\ got[n].seq = n
      BY <2>1 DEF IInv, Reading, ClientInOrder, TodoRows
    <3>2. got[n].version = Cardinality({q \in TodoRows : q.seq <= n})
      BY <3>1 DEF IInv, Lists
    <3>3. QED BY <3>2, ShownCount
  <2>2. QED BY <2>1 DEF IInv, Lists, TodoInOrder
<1>2. QED BY <1>1, Invariant, PTL
=============================================================================
