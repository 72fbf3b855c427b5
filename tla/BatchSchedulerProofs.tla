------------------------ MODULE BatchSchedulerProofs ------------------------
(***************************************************************************)
(* Machine-checked proofs about BatchScheduler, for every number of items, *)
(* schedulers and dying consumers and every max_parallel.                  *)
(***************************************************************************)
EXTENDS BatchScheduler, FiniteSetTheorems, WellFoundedInduction, TLAPS

\* What a transaction holds at each statement.
Transaction(s) ==
  /\ pc[s] \in {"idle", "update_item", "ack"} => own[s] = {} /\ claimed[s] = {} /\ holder # s
  /\ pc[s] = "idle" => event[s] = Submitted
  /\ pc[s] = "update_item" => event[s].type \in DOMAIN TerminalStatus
  /\ pc[s] \in {"refresh", "write"} => own[s] # {} /\ holder # s
  /\ pc[s] \in {"refresh", "write", "lock_batch", "claim"} => claimed[s] = {}
  /\ pc[s] \in {"claim", "refresh_last", "write_last"} => holder = s /\ row[s].status \notin Terminal
  /\ \A i \in own[s] :
       i = event[s].item /\ event[s].type \in DOMAIN TerminalStatus /\ item[i] \notin Terminal
  /\ \A i \in claimed[s] : item[i] = "pending" /\ i \notin own[s]
Transactions == \A s \in Schedulers : Transaction(s)

\* No two transactions lock the same item.
Locks == \A s, t \in Schedulers : s # t => LockedBy(s) \cap LockedBy(t) = {}

\* An event that reports the end of an analysis tells how it ended.
Reports ==
  /\ \A e \in inbox : e.type \in DOMAIN TerminalStatus => analysis[e.item] = TerminalStatus[e.type]
  /\ \A s \in Schedulers :
       event[s].type \in DOMAIN TerminalStatus => analysis[event[s].item] = TerminalStatus[event[s].type]
  /\ \A i \in unsent : analysis[i] = "failed"

\* An item that was withdrawn is terminal.
Withdrawn == \A i \in withdrawn : item[i] \in Terminal

\* A row that reports the end of the batch agrees with the items.
Agrees(b, view) ==
  /\ \A i \in Items : view[i] \in Terminal
  /\ b.status = "failed" <=> \E i \in Items : view[i] = "failed"
  /\ b.pending = 0 /\ b.active = 0

\* Counts that call for the end of the batch are not outdated when they are used.
SeenTrue ==
  \A s \in Schedulers :
    pc[s] \in {"write", "write_last"} /\ seen[s].pending = 0 /\ seen[s].active = 0 =>
      /\ \A i \in Items : View(s)[i] \in Terminal
      /\ seen[s].failed > 0 <=> \E i \in Items : View(s)[i] = "failed"

\* Nor is the row a transaction is about to commit.
RowTrue ==
  \A s \in Schedulers : holder = s /\ row[s].status \in Terminal => Agrees(row[s], View(s))

IInv ==
  /\ TypeOK /\ Transactions /\ Locks /\ Reports
  /\ Withdrawn /\ DispatchedOnce
  /\ SeenTrue /\ RowTrue /\ FinishedMeansFinished

USE BatchAssumption DEF txVars, history

-----------------------------------------------------------------------------
(* Types                                                                   *)

LEMMA Statuses ==
  /\ DOMAIN TerminalStatus = {"AnalysisCompleted", "AnalysisFailed", "AnalysisCancelled"}
  /\ TerminalStatus["AnalysisCompleted"] = "completed" /\ TerminalStatus["AnalysisFailed"] = "failed"
  /\ TerminalStatus["AnalysisCancelled"] = "cancelled"
  /\ \A t \in DOMAIN TerminalStatus : TerminalStatus[t] \in Terminal
BY DEF TerminalStatus, Terminal

LEMMA Events ==
  /\ Submitted \in AllEvents /\ Submitted.type = "BatchSubmitted" /\ Submitted.type \notin DOMAIN TerminalStatus
  /\ \A e \in AllEvents : /\ e.type \in DOMAIN TerminalStatus => e.item \in Items
                          /\ e.type = "BatchSubmitted" => e = Submitted
  /\ \A i \in Items, t \in EventTypes : Event(t, i) \in AllEvents /\ Event(t, i).type = t /\ Event(t, i).item = i
BY Statuses DEF AllEvents, Submitted, Event, EventTypes

LEMMA ItemsFinite == IsFiniteSet(Items) /\ Cardinality(Items) = NumItems
BY FS_Interval DEF Items

LEMMA CountTypes ==
  ASSUME NEW view, NEW statuses
  PROVE  /\ CountOf(view, statuses) \in CountRange
         /\ CountOf(view, statuses) = 0 <=> \A i \in Items : view[i] \notin statuses
<1> DEFINE S == {i \in Items : view[i] \in statuses}
<1>1. IsFiniteSet(S) /\ Cardinality(S) <= NumItems /\ Cardinality(S) \in Nat
  BY ItemsFinite, FS_Subset, FS_CardinalityType
<1>2. Cardinality(S) = 0 <=> S = {}
  BY <1>1, FS_EmptySet
<1>3. CountOf(view, statuses) = Cardinality(S)
  BY DEF CountOf
<1>4. S = {} <=> \A i \in Items : view[i] \notin statuses
  OBVIOUS
<1> HIDE DEF S
<1>5. QED BY <1>1, <1>2, <1>3, <1>4 DEF CountRange

LEMMA RowTypes ==
  /\ NoRow \in BatchRows /\ NoCounts \in [pending : CountRange, active : CountRange, failed : CountRange]
  /\ \A view : Counts(view) \in [pending : CountRange, active : CountRange, failed : CountRange]
  /\ \A b \in BatchRows, c \in [pending : CountRange, active : CountRange, failed : CountRange] :
       Refreshed(b, c) \in BatchRows
<1>1. NoRow \in BatchRows /\ NoCounts \in [pending : CountRange, active : CountRange, failed : CountRange]
  BY DEF NoRow, NoCounts, BatchRows, CountRange
<1>2. \A view : Counts(view) \in [pending : CountRange, active : CountRange, failed : CountRange]
  BY CountTypes DEF Counts
<1>3. ASSUME NEW b \in BatchRows, NEW c \in [pending : CountRange, active : CountRange, failed : CountRange]
      PROVE  Refreshed(b, c) \in BatchRows
  BY DEF BatchRows, Refreshed, Terminal, CountRange
<1>4. QED BY <1>1, <1>2, <1>3

\* What a scheduler sees.
LEMMA ViewValues ==
  ASSUME NEW s \in Schedulers, NEW i \in Items
  PROVE  /\ i \in claimed[s] /\ i \notin own[s] => View(s)[i] = "dispatched"
         /\ i \notin claimed[s] /\ i \in own[s] => View(s)[i] = TerminalStatus[event[s].type]
         /\ i \notin claimed[s] /\ i \notin own[s] => View(s)[i] = item[i]
BY DEF View

LEMMA Views ==
  ASSUME TypeOK, Transactions, NEW s \in Schedulers
  PROVE  View(s) \in [Items -> {"pending", "dispatched", "snapshotting"} \cup Terminal] /\ Row(s) \in BatchRows
<1>1. Row(s) \in BatchRows
  BY DEF TypeOK, Row
<1>2. ASSUME NEW i \in Items
      PROVE  View(s)[i] \in {"pending", "dispatched", "snapshotting"} \cup Terminal
  <2>1. CASE i \in claimed[s]
    <3>1. i \notin own[s]
      BY <2>1 DEF Transactions, Transaction
    <3>2. QED BY <2>1, <3>1, ViewValues
  <2>2. CASE i \notin claimed[s] /\ i \in own[s]
    <3>1. event[s].type \in DOMAIN TerminalStatus
      BY <2>2 DEF Transactions, Transaction
    <3>2. QED BY <2>2, <3>1, ViewValues, Statuses
  <2>3. CASE i \notin claimed[s] /\ i \notin own[s]
    BY <2>3, ViewValues DEF TypeOK
  <2>4. QED BY <2>1, <2>2, <2>3
<1>3. QED BY <1>1, <1>2 DEF View

LEMMA EndTypes ==
  ASSUME TypeOK, NEW s \in Schedulers, EndTransaction(s)
  PROVE  /\ own' \in [Schedulers -> SUBSET Items] /\ claimed' \in [Schedulers -> SUBSET Items]
         /\ seen' \in [Schedulers -> [pending : CountRange, active : CountRange, failed : CountRange]]
         /\ row' \in [Schedulers -> BatchRows]
         /\ holder' \in Schedulers \cup {Nobody}
BY RowTypes DEF TypeOK, EndTransaction

LEMMA SchedulerTypes ==
  ASSUME TypeOK, Transactions, NEW s \in Schedulers, Begin(s) \/ Statement(s) \/ SchedulerDies(s)
  PROVE  TypeOK'
<1>1. CASE Begin(s)
  BY <1>1 DEF TypeOK, Begin, Goto, Stages
<1>2. CASE UpdateItem(s)
  <2>1. pc[s] = "update_item" /\ event[s].item \in Items
    BY <1>2, Events DEF UpdateItem, Transactions, Transaction, TypeOK
  <2>2. own' = own \/ own' = [own EXCEPT ![s] = {event[s].item}]
    BY <1>2 DEF UpdateItem
  <2>3. own' \in [Schedulers -> SUBSET Items]
    BY <2>1, <2>2 DEF TypeOK
  <2>4. pc' \in [Schedulers -> Stages]
    <3>1. Goto(s, "ack") \/ Goto(s, "refresh")
      BY <1>2 DEF UpdateItem
    <3>2. QED BY <3>1 DEF TypeOK, Goto, Stages
  <2>5. QED BY <1>2, <2>3, <2>4 DEF TypeOK, UpdateItem
<1>3. CASE ReadCounts(s)
  BY <1>3, RowTypes DEF TypeOK, ReadCounts, Goto, Stages
<1>4. CASE WriteCounts(s)
  <2>1. Refreshed(Row(s), seen[s]) \in BatchRows
    BY RowTypes, Views DEF TypeOK
  <2>2. QED BY <1>4, <2>1, RowTypes DEF TypeOK, WriteCounts, Goto, Stages
<1>5. CASE LockBatch(s)
  <2>1. pc' \in [Schedulers -> Stages]
    BY <1>5 DEF TypeOK, LockBatch, Goto, Stages
  <2>2. row' \in [Schedulers -> BatchRows] /\ holder' \in Schedulers \cup {Nobody}
    BY <1>5, Views DEF TypeOK, LockBatch
  <2>3. QED BY <1>5, <2>1, <2>2 DEF TypeOK, LockBatch
<1>6. CASE ClaimPending(s)
  <2>1. Claimable(s) \subseteq Items
    BY DEF Claimable
  <2>2. QED BY <1>6, <2>1 DEF TypeOK, ClaimPending, Goto, Stages
<1>7. CASE Commit(s)
  <2>1. item' \in [Items -> {"pending", "dispatched", "snapshotting"} \cup Terminal] /\ batch' \in BatchRows
    BY <1>7, Views DEF Commit
  <2>2. inbox' \in SUBSET AllEvents
    <3>1. ASSUME NEW i \in claimed[s]
          PROVE  Event("AnalysisRequested", i) \in AllEvents
      BY <3>1, Events DEF TypeOK, EventTypes
    <3>2. QED BY <1>7, <3>1 DEF Commit, TypeOK
  <2>3. requests' \in [Items -> Nat] /\ withdrawn' \in SUBSET Items
    BY <1>7 DEF Commit, TypeOK
  <2>4. pc' \in [Schedulers -> Stages]
    BY <1>7 DEF Commit, TypeOK, Goto, Stages
  <2>5. EndTransaction(s) /\ UNCHANGED <<analysis, event, unsent, faults>>
    BY <1>7 DEF Commit
  <2>6. QED BY <2>1, <2>2, <2>3, <2>4, <2>5, EndTypes DEF TypeOK
<1>8. CASE Acknowledge(s)
  BY <1>8, Events DEF TypeOK, Acknowledge, Goto, Stages
<1>9. CASE SchedulerDies(s)
  <2>1. EndTransaction(s)
    BY <1>9 DEF SchedulerDies
  <2>2. QED BY <1>9, <2>1, EndTypes, Events DEF TypeOK, SchedulerDies, Goto, Stages
<1>10. QED BY <1>1, <1>2, <1>3, <1>4, <1>5, <1>6, <1>7, <1>8, <1>9 DEF Statement

LEMMA DeliveredTypes ==
  ASSUME TypeOK, NEW e, NEW out \in SUBSET AllEvents, Delivered(e, out)
  PROVE  inbox' \in SUBSET AllEvents /\ faults' \in Nat /\ inbox' \subseteq inbox \cup out
BY DEF TypeOK, Delivered

LEMMA OtherTypes ==
  ASSUME TypeOK, NEW i \in Items, Cancel(i) \/ Handler(i) \/ Agent(i) \/ AgentReportsFailure(i) \/ AgentDies(i)
  PROVE  TypeOK'
<1>0. \A t \in EventTypes : Event(t, i) \in AllEvents
  BY Events
<1> USE DEF TypeOK
<1>1. CASE Cancel(i)
  BY <1>0, <1>1 DEF Cancel, EventTypes
<1>2. CASE HandleCancelRequested(i)
  <2>1. inbox' \in SUBSET AllEvents /\ faults' \in Nat
    BY <1>0, <1>2, Statuses, DeliveredTypes DEF HandleCancelRequested, EventTypes
  <2>2. QED BY <1>2, <2>1 DEF HandleCancelRequested, Terminal
<1>3. CASE HandleAnalysisRequested(i)
  <2>1. inbox' \in SUBSET AllEvents /\ faults' \in Nat
    BY <1>0, <1>3, DeliveredTypes DEF HandleAnalysisRequested, EventTypes
  <2>2. QED BY <1>3, <2>1 DEF HandleAnalysisRequested
<1>4. CASE HandleSnapshotRequested(i)
  <2>1. inbox' \in SUBSET AllEvents /\ faults' \in Nat
    BY <1>4, DeliveredTypes DEF HandleSnapshotRequested
  <2>2. QED BY <1>4, <2>1 DEF HandleSnapshotRequested, Terminal
<1>5. CASE AgentCompletes(i)
  BY <1>0, <1>5, Statuses DEF AgentCompletes, EventTypes, Terminal
<1>6. CASE AgentFails(i)
  BY <1>6 DEF AgentFails, Terminal
<1>7. CASE AgentReportsFailure(i)
  BY <1>0, <1>7, Statuses DEF AgentReportsFailure, EventTypes
<1>8. CASE AgentDies(i)
  BY <1>8 DEF AgentDies
<1>9. QED BY <1>1, <1>2, <1>3, <1>4, <1>5, <1>6, <1>7, <1>8 DEF Handler, Agent

-----------------------------------------------------------------------------
(* Transactions and locks                                                  *)

\* The step of a scheduler.
Acts(s) == Begin(s) \/ Statement(s) \/ SchedulerDies(s)

\* The step of the rest of the system.
Rest(i) == Cancel(i) \/ Handler(i) \/ Agent(i) \/ AgentReportsFailure(i) \/ AgentDies(i)

\* A scheduler's step leaves the transactions of the others alone.
LEMMA OthersStay ==
  ASSUME TypeOK, NEW s \in Schedulers, Acts(s), NEW t \in Schedulers, t # s
  PROVE  /\ pc'[t] = pc[t] /\ event'[t] = event[t] /\ own'[t] = own[t] /\ claimed'[t] = claimed[t]
         /\ seen'[t] = seen[t] /\ row'[t] = row[t] /\ (holder' = t <=> holder = t)
<1> USE DEF TypeOK, Goto
<1>1. CASE Begin(s)
  BY <1>1 DEF Begin
<1>2. CASE UpdateItem(s)
  BY <1>2 DEF UpdateItem
<1>3. CASE ReadCounts(s)
  BY <1>3 DEF ReadCounts
<1>4. CASE WriteCounts(s)
  BY <1>4 DEF WriteCounts, CanLockBatch
<1>5. CASE LockBatch(s)
  <2>1. pc'[t] = pc[t]
    BY <1>5 DEF LockBatch
  <2>2. row'[t] = row[t] /\ (holder' = t <=> holder = t)
    BY <1>5 DEF LockBatch, CanLockBatch
  <2>3. QED BY <1>5, <2>1, <2>2 DEF LockBatch
<1>6. CASE ClaimPending(s)
  BY <1>6 DEF ClaimPending
<1>7. CASE Commit(s)
  BY <1>7 DEF Commit, EndTransaction
<1>8. CASE Acknowledge(s)
  BY <1>8 DEF Acknowledge
<1>9. CASE SchedulerDies(s)
  BY <1>9 DEF SchedulerDies, EndTransaction
<1>10. QED BY <1>1, <1>2, <1>3, <1>4, <1>5, <1>6, <1>7, <1>8, <1>9 DEF Acts, Statement

\* Only a commit changes items.
LEMMA ItemSteps ==
  ASSUME NEW s \in Schedulers, Acts(s), ~ Commit(s)
  PROVE  UNCHANGED <<item, batch, history>> /\ inbox' \subseteq inbox
BY DEF Acts, Statement, Begin, UpdateItem, ReadCounts, WriteCounts, LockBatch, ClaimPending, Acknowledge, SchedulerDies

\* A locked item changes only with the commit of its transaction, a terminal one
\* never.
LEMMA ItemsStay ==
  ASSUME TypeOK, Transactions, Locks, NEW s \in Schedulers, Acts(s)
  PROVE  /\ \A i \in Items : item[i] \in Terminal => item'[i] = item[i]
         /\ \A t \in Schedulers \ {s} : \A i \in LockedBy(t) : item'[i] = item[i]
<1>1. CASE ~ Commit(s)
  BY <1>1, ItemSteps
<1>2. CASE Commit(s)
  <2>1. item' = View(s)
    BY <1>2 DEF Commit
  <2>2. ASSUME NEW i \in Items, item[i] \in Terminal
        PROVE  item'[i] = item[i]
    <3>1. i \notin claimed[s] /\ i \notin own[s]
      BY <2>2 DEF Transactions, Transaction, Terminal
    <3>2. QED BY <2>1, <3>1, ViewValues
  <2>3. ASSUME NEW t \in Schedulers \ {s}, NEW i \in LockedBy(t)
        PROVE  item'[i] = item[i]
    <3>1. i \notin LockedBy(s)
      BY <2>3 DEF Locks
    <3>2. i \in Items /\ i \notin claimed[s] /\ i \notin own[s]
      BY <2>3, <3>1 DEF LockedBy, TypeOK
    <3>3. QED BY <2>1, <3>2, ViewValues
  <2>4. QED BY <2>2, <2>3
<1>3. QED BY <1>1, <1>2

\* The rest of the system leaves transactions, locked items and the batch alone; an
\* item changes only from dispatched to snapshotting.
LEMMA RestStays ==
  ASSUME TypeOK, NEW i \in Items, Rest(i)
  PROVE  /\ UNCHANGED <<txVars, batch, history>>
         /\ \A j \in Items : item'[j] = item[j]
              \/ (j \notin LockedItems /\ item[j] = "dispatched" /\ item'[j] = "snapshotting")
<1>1. UNCHANGED <<txVars, batch, history>>
  BY DEF Rest, Handler, Agent, Cancel, HandleCancelRequested, HandleAnalysisRequested, HandleSnapshotRequested,
         AgentCompletes, AgentFails, AgentReportsFailure, AgentDies
<1>2. CASE HandleAnalysisRequested(i)
  <2>1. item' = item \/ (i \notin LockedItems /\ item' = [item EXCEPT ![i] = IF @ = "dispatched" THEN "snapshotting" ELSE @])
    BY <1>2 DEF HandleAnalysisRequested
  <2>2. QED BY <1>1, <2>1 DEF TypeOK
<1>3. CASE ~ HandleAnalysisRequested(i)
  <2>1. item' = item
    BY <1>3 DEF Rest, Handler, Agent, Cancel, HandleCancelRequested, HandleSnapshotRequested,
                AgentCompletes, AgentFails, AgentReportsFailure, AgentDies
  <2>2. QED BY <1>1, <2>1
<1>4. QED BY <1>2, <1>3

LEMMA EndEmpties ==
  ASSUME TypeOK, NEW s \in Schedulers, EndTransaction(s)
  PROVE  own'[s] = {} /\ claimed'[s] = {} /\ holder' # s
BY DEF TypeOK, EndTransaction

\* What a scheduler claims is pending and not locked.
LEMMA Claims ==
  ASSUME TypeOK, Transactions, NEW s \in Schedulers, claimed[s] = {}, NEW i \in Claimable(s)
  PROVE  i \in Items /\ item[i] = "pending" /\ i \notin own[s] /\ i \notin LockedByOthers(s)
<1>1. i \in Items /\ View(s)[i] = "pending" /\ i \notin LockedByOthers(s)
  BY DEF Claimable
<1>2. i \notin own[s]
  BY <1>1, ViewValues, Statuses DEF Transactions, Transaction, Terminal
<1>3. QED BY <1>1, <1>2, ViewValues

LEMMA OwnTransaction ==
  ASSUME TypeOK, Transactions, NEW s \in Schedulers, Acts(s)
  PROVE  Transaction(s)'
<1>0. Transaction(s) /\ pc[s] \in Stages /\ Nobody # s
  BY DEF Transactions, TypeOK
<1>1. CASE Begin(s)
  <2>1. /\ pc[s] = "idle" /\ own[s] = {} /\ claimed[s] = {} /\ holder # s
        /\ UNCHANGED <<item, own, claimed, holder>>
    BY <1>0, <1>1 DEF Begin, Transaction
  <2>2. PICK e \in inbox : /\ e.type \in DOMAIN TerminalStatus \cup {"BatchSubmitted"}
                           /\ event' = [event EXCEPT ![s] = e]
                           /\ Goto(s, IF e = Submitted THEN "lock_batch" ELSE "update_item")
    BY <1>1 DEF Begin
  <2>3. pc'[s] = (IF e = Submitted THEN "lock_batch" ELSE "update_item") /\ event'[s] = e
    BY <2>2 DEF TypeOK, Goto
  <2>4. e # Submitted => e.type \in DOMAIN TerminalStatus
    BY <2>2, Events DEF TypeOK
  <2>5. QED BY <2>1, <2>3, <2>4 DEF Transaction
<1>2. CASE UpdateItem(s)
  <2> DEFINE i == event[s].item
  <2>1. /\ own[s] = {} /\ claimed[s] = {} /\ holder # s /\ event[s].type \in DOMAIN TerminalStatus
        /\ UNCHANGED <<item, event, claimed, holder, row>>
    BY <1>0, <1>2 DEF UpdateItem, Transaction
  <2>2. \/ item[i] \in Terminal /\ pc'[s] = "ack" /\ own'[s] = {}
        \/ item[i] \notin Terminal /\ pc'[s] = "refresh" /\ own'[s] = {i}
    BY <1>2, <2>1 DEF UpdateItem, TypeOK, Goto
  <2>3. QED BY <2>1, <2>2 DEF Transaction
<1>3. CASE ReadCounts(s)
  <2>1. /\ \/ pc[s] = "refresh" /\ pc'[s] = "write"
           \/ pc[s] = "refresh_last" /\ pc'[s] = "write_last"
        /\ UNCHANGED <<item, event, own, claimed, holder, row>>
    BY <1>3 DEF ReadCounts, TypeOK, Goto
  <2>2. QED BY <1>0, <2>1 DEF Transaction
<1>4. CASE WriteCounts(s)
  <2>1. /\ \/ pc[s] = "write" /\ pc'[s] = "lock_batch"
           \/ pc[s] = "write_last" /\ pc'[s] = "commit"
        /\ UNCHANGED <<item, event, own, claimed>>
    BY <1>4 DEF WriteCounts, TypeOK, Goto
  <2>2. QED BY <1>0, <2>1 DEF Transaction
<1>5. CASE LockBatch(s)
  <2>1. pc[s] = "lock_batch" /\ claimed[s] = {} /\ UNCHANGED <<item, event, own, claimed>>
    BY <1>0, <1>5 DEF LockBatch, Transaction
  <2>2. \/ pc'[s] = "commit"
        \/ Row(s).status \notin Terminal /\ holder' = s /\ row'[s] = Row(s) /\ pc'[s] \in {"refresh_last", "commit", "claim"}
    <3>1. CASE Row(s).status \in Terminal
      BY <1>5, <3>1 DEF LockBatch, Goto, TypeOK
    <3>2. CASE Row(s).status \notin Terminal
      BY <1>5, <3>2 DEF LockBatch, Goto, TypeOK
    <3>3. QED BY <3>1, <3>2
  <2>3. QED BY <1>0, <2>1, <2>2 DEF Transaction
<1>6. CASE ClaimPending(s)
  <2>1. pc[s] = "claim" /\ claimed[s] = {} /\ UNCHANGED <<item, event, own, holder, row>>
    BY <1>0, <1>6 DEF ClaimPending, Transaction
  <2>2. claimed'[s] \subseteq Claimable(s) /\ pc'[s] \in {"commit", "refresh_last"}
    BY <1>6 DEF ClaimPending, Goto, TypeOK
  <2>3. \A i \in claimed'[s] : item[i] = "pending" /\ i \notin own[s]
    BY <2>1, <2>2, Claims
  <2>4. QED BY <1>0, <2>1, <2>2, <2>3 DEF Transaction
<1>7. CASE Commit(s)
  <2>1. own'[s] = {} /\ claimed'[s] = {} /\ holder' # s /\ pc'[s] = "ack"
    BY <1>7, EndEmpties DEF Commit, Goto, TypeOK
  <2>2. QED BY <2>1 DEF Transaction
<1>8. CASE Acknowledge(s)
  <2>1. own'[s] = {} /\ claimed'[s] = {} /\ holder' # s /\ pc'[s] = "idle" /\ event'[s] = Submitted
    BY <1>0, <1>8 DEF Acknowledge, Goto, TypeOK, Transaction
  <2>2. QED BY <2>1 DEF Transaction
<1>9. CASE SchedulerDies(s)
  <2>1. own'[s] = {} /\ claimed'[s] = {} /\ holder' # s /\ pc'[s] = "idle" /\ event'[s] = Submitted
    BY <1>9, EndEmpties DEF SchedulerDies, Goto, TypeOK
  <2>2. QED BY <2>1 DEF Transaction
<1>10. QED BY <1>1, <1>2, <1>3, <1>4, <1>5, <1>6, <1>7, <1>8, <1>9 DEF Acts, Statement

\* The locks a step of scheduler s adds are on items that nobody else has locked.
LEMMA LocksPreserved ==
  ASSUME TypeOK, Transactions, Locks, NEW s \in Schedulers, Acts(s)
  PROVE  Locks'
<1>1. \A t \in Schedulers \ {s} : LockedBy(t)' = LockedBy(t)
  BY OthersStay DEF LockedBy
<1>2. \A i \in LockedBy(s)' : i \in LockedBy(s) \/ i \notin LockedByOthers(s)
  <2>1. CASE UpdateItem(s)
    BY <2>1 DEF UpdateItem, LockedBy, TypeOK
  <2>2. CASE ClaimPending(s)
    <3>1. claimed[s] = {} /\ own' = own /\ claimed'[s] \subseteq Claimable(s)
      BY <2>2 DEF ClaimPending, Transactions, Transaction, TypeOK
    <3>2. QED BY <3>1, Claims DEF LockedBy
  <2>3. CASE Commit(s) \/ SchedulerDies(s)
    BY <2>3, EndEmpties DEF Commit, SchedulerDies, LockedBy
  <2>4. CASE Begin(s) \/ ReadCounts(s) \/ WriteCounts(s) \/ LockBatch(s) \/ Acknowledge(s)
    BY <2>4 DEF Begin, ReadCounts, WriteCounts, LockBatch, Acknowledge, LockedBy
  <2>5. QED BY <2>1, <2>2, <2>3, <2>4 DEF Acts, Statement
<1>3. \A t \in Schedulers \ {s} : LockedBy(t) \cap LockedBy(s)' = {}
  BY <1>2 DEF Locks, LockedByOthers
<1>4. QED BY <1>1, <1>3 DEF Locks

LEMMA TransactionsPreserved ==
  ASSUME TypeOK, Transactions, Locks, Next
  PROVE  Transactions' /\ Locks'
<1>1. ASSUME NEW s \in Schedulers, Acts(s)
      PROVE  Transactions' /\ Locks'
  <2>1. ASSUME NEW t \in Schedulers, t # s
        PROVE  Transaction(t)'
    <3>1. /\ pc'[t] = pc[t] /\ event'[t] = event[t] /\ own'[t] = own[t] /\ claimed'[t] = claimed[t]
          /\ row'[t] = row[t] /\ (holder' = t <=> holder = t)
      BY <1>1, <2>1, OthersStay
    <3>2. \A i \in own[t] \cup claimed[t] : item'[i] = item[i]
      BY <1>1, <2>1, ItemsStay DEF LockedBy
    <3>3. Transaction(t)
      BY DEF Transactions
    <3>4. QED BY <3>1, <3>2, <3>3 DEF Transaction
  <2>2. QED BY <1>1, <2>1, OwnTransaction, LocksPreserved DEF Transactions
<1>2. ASSUME NEW i \in Items, Rest(i)
      PROVE  Transactions' /\ Locks'
  <2>1. UNCHANGED <<pc, event, own, claimed, seen, row, holder>>
    BY <1>2, RestStays
  <2>2. ASSUME NEW s \in Schedulers
        PROVE  Transaction(s)'
    <3>1. \A j \in own[s] \cup claimed[s] : item'[j] = item[j]
      BY <1>2, RestStays DEF TypeOK, LockedItems, LockedBy
    <3>2. Transaction(s)
      BY DEF Transactions
    <3>3. QED BY <2>1, <3>1, <3>2 DEF Transaction
  <2>3. QED BY <2>1, <2>2 DEF Transactions, Locks, LockedBy
<1>3. QED BY <1>1, <1>2 DEF Next, Acts, Rest

-----------------------------------------------------------------------------
(* Reports, dispatches and withdrawals                                     *)

\* The end of an analysis is final.
LEMMA AnalysisFinal ==
  ASSUME TypeOK, NEW i \in Items, Rest(i)
  PROVE  \A j \in Items : analysis[j] \in Terminal => analysis'[j] = analysis[j]
<1> USE DEF TypeOK, Terminal
<1>1. CASE Cancel(i)
  BY <1>1 DEF Cancel
<1>2. CASE HandleCancelRequested(i)
  <2>1. analysis' = analysis \/ (analysis[i] \notin Terminal /\ analysis' = [analysis EXCEPT ![i] = "cancelled"])
    BY <1>2 DEF HandleCancelRequested
  <2>2. QED BY <2>1
<1>3. CASE HandleAnalysisRequested(i)
  <2>1. analysis' = analysis \/ (analysis[i] = "queued" /\ analysis' = [analysis EXCEPT ![i] = "snapshotting"])
    BY <1>3 DEF HandleAnalysisRequested
  <2>2. QED BY <2>1
<1>4. CASE HandleSnapshotRequested(i)
  BY <1>4 DEF HandleSnapshotRequested
<1>5. CASE Agent(i)
  BY <1>5 DEF Agent, AgentCompletes, AgentFails
<1>6. CASE AgentReportsFailure(i) \/ AgentDies(i)
  BY <1>6 DEF AgentReportsFailure, AgentDies
<1>7. QED BY <1>1, <1>2, <1>3, <1>4, <1>5, <1>6 DEF Rest, Handler

LEMMA SchedulersReport ==
  ASSUME TypeOK, Transactions, Reports, NEW s \in Schedulers, Acts(s)
  PROVE  Reports' /\ analysis' = analysis
<1>1. analysis' = analysis /\ unsent' = unsent
  BY DEF Acts, Statement, Begin, UpdateItem, ReadCounts, WriteCounts, LockBatch, ClaimPending, Commit,
         Acknowledge, SchedulerDies
<1>2. \A e \in inbox' : e.type \in DOMAIN TerminalStatus => e \in inbox
  <2>1. CASE Commit(s)
    <3>1. \A i \in claimed[s] : Event("AnalysisRequested", i).type \notin DOMAIN TerminalStatus
      BY Statuses DEF Event
    <3>2. QED BY <2>1, <3>1 DEF Commit
  <2>2. CASE ~ Commit(s)
    BY <2>2, ItemSteps
  <2>3. QED BY <2>1, <2>2
<1>3. event'[s] = event[s] \/ event'[s] = Submitted \/ event'[s] \in inbox
  BY DEF Acts, Statement, Begin, UpdateItem, ReadCounts, WriteCounts, LockBatch, ClaimPending, Commit,
         Acknowledge, SchedulerDies, TypeOK
<1>4. \A t \in Schedulers : event'[t] = event[t] \/ event'[t] = Submitted \/ event'[t] \in inbox
  BY <1>3, OthersStay
<1>5. QED BY <1>1, <1>2, <1>4, Events DEF Reports

LEMMA RestReports ==
  ASSUME TypeOK, Reports, NEW i \in Items, Rest(i)
  PROVE  Reports'
<1>1. UNCHANGED event
  BY RestStays
<1>2. \A t \in EventTypes : Event(t, i).type = t /\ Event(t, i).item = i
  BY Events
<1>3. ASSUME NEW e \in inbox', e.type \in DOMAIN TerminalStatus, e \notin inbox
      PROVE  analysis'[e.item] = TerminalStatus[e.type]
  <2> USE DEF TypeOK
  <2>1. CASE Cancel(i)
    BY <1>2, <1>3, <2>1, Statuses DEF Cancel, EventTypes
  <2>2. CASE HandleCancelRequested(i)
    <3>1. e = Event("AnalysisCancelled", i) /\ analysis' = [analysis EXCEPT ![i] = "cancelled"]
      BY <1>3, <2>2 DEF HandleCancelRequested, Delivered
    <3>2. QED BY <1>2, <3>1, Statuses DEF EventTypes
  <2>3. CASE HandleAnalysisRequested(i)
    <3>1. e = Event("SnapshotRequested", i)
      BY <1>3, <2>3 DEF HandleAnalysisRequested, Delivered
    <3>2. QED BY <1>2, <1>3, <3>1, Statuses DEF EventTypes
  <2>4. CASE HandleSnapshotRequested(i)
    BY <1>3, <2>4 DEF HandleSnapshotRequested, Delivered
  <2>5. CASE AgentCompletes(i)
    BY <1>2, <1>3, <2>5, Statuses DEF AgentCompletes, EventTypes
  <2>6. CASE AgentFails(i) \/ AgentDies(i)
    BY <1>3, <2>6 DEF AgentFails, AgentDies
  <2>7. CASE AgentReportsFailure(i)
    BY <1>2, <1>3, <2>7, Statuses DEF AgentReportsFailure, EventTypes, Reports
  <2>8. QED BY <2>1, <2>2, <2>3, <2>4, <2>5, <2>6, <2>7 DEF Rest, Handler, Agent
<1>4. ASSUME NEW e \in AllEvents, e.type \in DOMAIN TerminalStatus, analysis[e.item] = TerminalStatus[e.type]
      PROVE  analysis'[e.item] = TerminalStatus[e.type]
  <2>1. e.item \in Items /\ analysis[e.item] \in Terminal
    BY <1>4, Events, Statuses
  <2>2. QED BY <1>4, <2>1, AnalysisFinal
<1>5. \A j \in unsent' : analysis'[j] = "failed"
  <2>1. \A j \in unsent' : j \in unsent \/ (j = i /\ AgentFails(i))
    BY DEF Rest, Handler, Agent, Cancel, HandleCancelRequested, HandleAnalysisRequested, HandleSnapshotRequested,
           AgentCompletes, AgentFails, AgentReportsFailure, AgentDies
  <2>2. \A j \in unsent : j \in Items /\ analysis[j] = "failed" /\ analysis[j] \in Terminal
    BY DEF Reports, TypeOK, Terminal
  <2>3. \A j \in unsent : analysis'[j] = "failed"
    BY <2>2, AnalysisFinal
  <2>4. AgentFails(i) => analysis'[i] = "failed"
    BY DEF AgentFails, TypeOK
  <2>5. QED BY <2>1, <2>3, <2>4
<1>6. \A e \in inbox' : e.type \in DOMAIN TerminalStatus => analysis'[e.item] = TerminalStatus[e.type]
  BY <1>3, <1>4 DEF Reports, TypeOK
<1>7. \A s \in Schedulers :
        event'[s].type \in DOMAIN TerminalStatus => analysis'[event'[s].item] = TerminalStatus[event'[s].type]
  BY <1>1, <1>4 DEF Reports, TypeOK
<1>8. QED BY <1>5, <1>6, <1>7 DEF Reports

\* A commit dispatches items that were pending and ends its own the way the
\* analysis ended; nothing else is requested or withdrawn.
LEMMA DispatchPreserved ==
  ASSUME TypeOK, Transactions, Locks, Reports, Withdrawn, DispatchedOnce, Next
  PROVE  Withdrawn' /\ DispatchedOnce'
<1>1. ASSUME NEW s \in Schedulers, Commit(s)
      PROVE  Withdrawn' /\ DispatchedOnce'
  <2>1. /\ item' = View(s) /\ analysis' = analysis
        /\ withdrawn' = withdrawn \cup {i \in own[s] : item[i] = "pending"}
        /\ \A i \in Items : requests'[i] = IF i \in claimed[s] THEN requests[i] + 1 ELSE requests[i]
    BY <1>1 DEF Commit
  <2>2. ASSUME NEW i \in Items
        PROVE  /\ i \in withdrawn' => item'[i] \in Terminal
               /\ requests'[i] = IF item'[i] = "pending" \/ i \in withdrawn' THEN 0 ELSE 1
               /\ item'[i] \in Terminal => item'[i] = analysis'[i]
    <3>0. /\ requests[i] = IF item[i] = "pending" \/ i \in withdrawn THEN 0 ELSE 1
          /\ item[i] \in Terminal => item[i] = analysis[i]
          /\ i \in withdrawn => item[i] \in Terminal
      BY DEF DispatchedOnce, Withdrawn
    <3>1. CASE i \in claimed[s]
      <4>1. item[i] = "pending" /\ i \notin own[s]
        BY <3>1 DEF Transactions, Transaction
      <4>2. i \notin withdrawn /\ requests[i] = 0
        BY <3>0, <4>1 DEF Terminal
      <4>3. item'[i] = "dispatched"
        BY <2>1, <3>1, <4>1, ViewValues
      <4>4. QED BY <2>1, <3>1, <4>1, <4>2, <4>3 DEF Terminal
    <3>2. CASE i \in own[s]
      <4>1. /\ i \notin claimed[s] /\ i = event[s].item /\ event[s].type \in DOMAIN TerminalStatus
            /\ item[i] \notin Terminal
        BY <3>2 DEF Transactions, Transaction
      <4>2. item'[i] = TerminalStatus[event[s].type]
        BY <2>1, <3>2, <4>1, ViewValues
      <4>3. item'[i] = analysis[i] /\ item'[i] \in Terminal
        BY <4>1, <4>2, Statuses DEF Reports
      <4>4. i \in withdrawn' <=> item[i] = "pending"
        BY <2>1, <3>0, <3>2, <4>1
      <4>5. QED BY <2>1, <3>0, <4>1, <4>3, <4>4 DEF Terminal
    <3>3. CASE i \notin claimed[s] /\ i \notin own[s]
      <4>1. item'[i] = item[i]
        BY <2>1, <3>3, ViewValues
      <4>2. QED BY <2>1, <3>0, <3>3, <4>1
    <3>4. QED BY <3>1, <3>2, <3>3
  <2>3. withdrawn' \subseteq Items
    BY <2>1 DEF TypeOK
  <2>4. QED BY <2>2, <2>3 DEF Withdrawn, DispatchedOnce
<1>2. ASSUME NEW s \in Schedulers, Acts(s), ~ Commit(s)
      PROVE  Withdrawn' /\ DispatchedOnce'
  BY <1>2, ItemSteps, SchedulersReport DEF Withdrawn, DispatchedOnce
<1>3. ASSUME NEW i \in Items, Rest(i)
      PROVE  Withdrawn' /\ DispatchedOnce'
  <2>1. UNCHANGED <<requests, withdrawn>>
    BY <1>3, RestStays
  <2>2. \A j \in Items : item'[j] = item[j] \/ (item[j] = "dispatched" /\ item'[j] = "snapshotting")
    BY <1>3, RestStays
  <2>3. \A j \in Items : item[j] \in Terminal => analysis'[j] = analysis[j]
    BY <1>3, AnalysisFinal DEF DispatchedOnce
  <2>4. withdrawn \subseteq Items
    BY DEF TypeOK
  <2>5. QED BY <2>1, <2>2, <2>3, <2>4 DEF Withdrawn, DispatchedOnce, Terminal
<1>4. QED BY <1>1, <1>2, <1>3 DEF Next, Acts, Rest

-----------------------------------------------------------------------------
(* The end of the batch                                                    *)

\* Once a scheduler sees every item ended, no step of anyone else changes what it
\* sees: ended items stay, and the one it ends itself is locked.
LEMMA ViewStable ==
  ASSUME TypeOK, Transactions, Locks, NEW t \in Schedulers, \A i \in Items : View(t)[i] \in Terminal,
         (\E s \in Schedulers \ {t} : Acts(s)) \/ (\E i \in Items : Rest(i))
  PROVE  \A i \in Items : View(t)'[i] = View(t)[i]
<1>1. UNCHANGED <<event[t], own[t], claimed[t]>>
  <2>1. CASE \E s \in Schedulers \ {t} : Acts(s)
    BY <2>1, OthersStay
  <2>2. CASE \E i \in Items : Rest(i)
    BY <2>2, RestStays
  <2>3. QED BY <2>1, <2>2
<1>2. \A i \in Items : item[i] \in Terminal => item'[i] = item[i]
  <2>1. CASE \E s \in Schedulers \ {t} : Acts(s)
    BY <2>1, ItemsStay
  <2>2. CASE \E i \in Items : Rest(i)
    BY <2>2, RestStays DEF Terminal
  <2>3. QED BY <2>1, <2>2
<1>3. SUFFICES ASSUME NEW i \in Items
               PROVE  View(t)'[i] = View(t)[i]
  OBVIOUS
<1>4. i \notin claimed[t]
  BY ViewValues DEF Transactions, Transaction, Terminal
<1>5. CASE i \in own[t]
  BY <1>1, <1>4, <1>5 DEF View
<1>6. CASE i \notin own[t]
  <2>1. item[i] \in Terminal
    BY <1>4, <1>6, ViewValues
  <2>2. item'[i] = item[i]
    BY <1>2, <2>1
  <2>3. QED BY <1>1, <1>4, <1>6, <2>2 DEF View
<1>7. QED BY <1>5, <1>6

\* Counts of nothing pending and nothing active mean that every item has ended.
LEMMA CountsTrue ==
  ASSUME TypeOK, Transactions, NEW s \in Schedulers, Counts(View(s)).pending = 0, Counts(View(s)).active = 0
  PROVE  /\ \A i \in Items : View(s)[i] \in Terminal
         /\ Counts(View(s)).failed > 0 <=> \E i \in Items : View(s)[i] = "failed"
<1>1. /\ Counts(View(s)).pending = CountOf(View(s), {"pending"})
      /\ Counts(View(s)).active = CountOf(View(s), Active)
      /\ Counts(View(s)).failed = CountOf(View(s), {"failed"})
  BY DEF Counts
<1>2. \A i \in Items : View(s)[i] # "pending" /\ View(s)[i] \notin Active
  BY <1>1, CountTypes
<1>3. \A i \in Items : View(s)[i] \in Terminal
  BY <1>2, Views DEF Active
<1>4. CountOf(View(s), {"failed"}) \in Nat /\ (CountOf(View(s), {"failed"}) = 0 <=> \A i \in Items : View(s)[i] # "failed")
  <2>1. \A i \in Items : View(s)[i] \notin {"failed"} <=> View(s)[i] # "failed"
    OBVIOUS
  <2>2. QED BY <2>1, CountTypes DEF CountRange
<1>5. QED BY <1>1, <1>3, <1>4

LEMMA SeenPreserved ==
  ASSUME TypeOK, Transactions, Locks, SeenTrue, Next
  PROVE  SeenTrue'
<1> DEFINE Says(c, view) == /\ \A i \in Items : view[i] \in Terminal
                            /\ c.failed > 0 <=> \E i \in Items : view[i] = "failed"
<1>1. SUFFICES ASSUME NEW t \in Schedulers, pc'[t] \in {"write", "write_last"},
                      seen'[t].pending = 0, seen'[t].active = 0
               PROVE  Says(seen'[t], View(t)')
  BY DEF SeenTrue
<1>2. CASE (\E s \in Schedulers \ {t} : Acts(s)) \/ (\E i \in Items : Rest(i))
  <2>1. pc'[t] = pc[t] /\ seen'[t] = seen[t]
    BY <1>2, OthersStay, RestStays
  <2>2. Says(seen[t], View(t))
    BY <1>1, <2>1 DEF SeenTrue
  <2>3. \A i \in Items : View(t)'[i] = View(t)[i]
    BY <1>2, <2>2, ViewStable
  <2>4. QED BY <2>1, <2>2, <2>3
<1>3. CASE Acts(t)
  <2>1. CASE ReadCounts(t)
    <3>1. seen'[t] = Counts(View(t)) /\ View(t)' = View(t)
      BY <2>1 DEF ReadCounts, TypeOK, View
    <3>2. QED BY <1>1, <3>1, CountsTrue
  <2>2. CASE ~ ReadCounts(t)
    <3>1. pc'[t] \notin {"write", "write_last"}
      <4>1. CASE UpdateItem(t)
        BY <4>1 DEF UpdateItem, TypeOK, Goto
      <4>2. CASE LockBatch(t)
        BY <4>2 DEF LockBatch, TypeOK, Goto
      <4>3. CASE Begin(t)
        BY <4>3 DEF Begin, TypeOK, Goto
      <4>4. CASE WriteCounts(t) \/ ClaimPending(t) \/ Commit(t) \/ Acknowledge(t) \/ SchedulerDies(t)
        BY <4>4 DEF WriteCounts, ClaimPending, Commit, Acknowledge, SchedulerDies, TypeOK, Goto
      <4>5. QED BY <1>3, <2>2, <4>1, <4>2, <4>3, <4>4 DEF Acts, Statement
    <3>2. QED BY <1>1, <3>1
  <2>3. QED BY <2>1, <2>2
<1>4. QED BY <1>2, <1>3 DEF Next, Acts, Rest

\* The row that WriteCounts refreshes has not ended yet.
LEMMA RowOpen ==
  ASSUME TypeOK, Transactions, FinishedMeansFinished, NEW s \in Schedulers, pc[s] \in {"write", "write_last"}
  PROVE  Row(s).status \notin Terminal
<1>1. CASE pc[s] = "write"
  <2>1. own[s] # {} /\ holder # s
    BY <1>1 DEF Transactions, Transaction
  <2>2. PICK i \in own[s] : TRUE
    BY <2>1
  <2>3. i \in Items /\ item[i] \notin Terminal
    BY DEF Transactions, Transaction, TypeOK
  <2>4. QED BY <2>1, <2>3 DEF FinishedMeansFinished, BatchDone, Row
<1>2. CASE pc[s] = "write_last"
  BY <1>2 DEF Transactions, Transaction, Row
<1>3. QED BY <1>1, <1>2

LEMMA RefreshedEnds ==
  ASSUME NEW b \in BatchRows, NEW c \in [pending : CountRange, active : CountRange, failed : CountRange],
         b.status \notin Terminal, Refreshed(b, c).status \in Terminal
  PROVE  /\ c.pending = 0 /\ c.active = 0
         /\ Refreshed(b, c).status = "failed" <=> c.failed > 0
         /\ Refreshed(b, c).pending = 0 /\ Refreshed(b, c).active = 0
<1>1. c.pending \in Nat /\ c.active \in Nat /\ c.failed \in Nat
  BY DEF CountRange
<1>2. /\ Refreshed(b, c).pending = c.pending /\ Refreshed(b, c).active = c.active
      /\ Refreshed(b, c).status = CASE c.pending = 0 /\ c.active = 0 /\ c.failed > 0 -> "failed"
                                    [] c.pending = 0 /\ c.active = 0 /\ c.failed = 0 -> "completed"
                                    [] c.active > 0 -> "running"
                                    [] OTHER -> b.status
  BY DEF Refreshed
<1>3. QED BY <1>1, <1>2 DEF Terminal

LEMMA RowPreserved ==
  ASSUME TypeOK, Transactions, Locks, SeenTrue, RowTrue, FinishedMeansFinished, Next
  PROVE  RowTrue'
<1>1. SUFFICES ASSUME NEW t \in Schedulers, holder' = t, row'[t].status \in Terminal
               PROVE  Agrees(row'[t], View(t)')
  BY DEF RowTrue, Agrees
<1>2. CASE (\E s \in Schedulers \ {t} : Acts(s)) \/ (\E i \in Items : Rest(i))
  <2>1. holder = t /\ row'[t] = row[t]
    BY <1>1, <1>2, OthersStay, RestStays
  <2>2. Agrees(row[t], View(t))
    BY <1>1, <2>1 DEF RowTrue
  <2>3. \A i \in Items : View(t)'[i] = View(t)[i]
    BY <1>2, <2>2, ViewStable DEF Agrees
  <2>4. QED BY <2>1, <2>2, <2>3 DEF Agrees
<1>3. CASE Acts(t)
  <2>0. Transaction(t)
    BY DEF Transactions
  <2>1. CASE WriteCounts(t)
    <3>1. /\ pc[t] \in {"write", "write_last"} /\ row'[t] = Refreshed(Row(t), seen[t])
          /\ View(t)' = View(t)
      BY <2>1 DEF WriteCounts, TypeOK, View
    <3>2. Row(t) \in BatchRows /\ Row(t).status \notin Terminal
      BY <3>1, Views, RowOpen
    <3>3. /\ seen[t].pending = 0 /\ seen[t].active = 0
          /\ row'[t].status = "failed" <=> seen[t].failed > 0
          /\ row'[t].pending = 0 /\ row'[t].active = 0
      BY <1>1, <3>1, <3>2, RefreshedEnds DEF TypeOK
    <3>4. /\ \A i \in Items : View(t)[i] \in Terminal
          /\ seen[t].failed > 0 <=> \E i \in Items : View(t)[i] = "failed"
      BY <3>1, <3>3 DEF SeenTrue
    <3>5. QED BY <3>1, <3>3, <3>4 DEF Agrees
  <2>2. CASE LockBatch(t)
    <3>1. holder = t /\ row'[t] = row[t] /\ View(t)' = View(t)
      <4>1. CASE Row(t).status \in Terminal
        BY <1>1, <2>2, <4>1 DEF LockBatch, View
      <4>2. CASE Row(t).status \notin Terminal
        <5>1. row'[t] = Row(t)
          BY <2>2, <4>2 DEF LockBatch, TypeOK
        <5>2. QED BY <1>1, <4>2, <5>1
      <4>3. QED BY <4>1, <4>2
    <3>2. QED BY <1>1, <3>1 DEF RowTrue
  <2>3. CASE ReadCounts(t)
    BY <1>1, <2>3 DEF ReadCounts, View, RowTrue
  <2>4. CASE ClaimPending(t)
    BY <1>1, <2>0, <2>4 DEF ClaimPending, Transaction
  <2>5. CASE Begin(t) \/ UpdateItem(t) \/ Acknowledge(t)
    BY <1>1, <2>0, <2>5 DEF Begin, UpdateItem, Acknowledge, Transaction
  <2>6. CASE Commit(t) \/ SchedulerDies(t)
    BY <1>1, <2>6, EndEmpties DEF Commit, SchedulerDies
  <2>7. QED BY <1>3, <2>1, <2>2, <2>3, <2>4, <2>5, <2>6 DEF Acts, Statement
<1>4. QED BY <1>2, <1>3 DEF Next, Acts, Rest

LEMMA FinishPreserved ==
  ASSUME TypeOK, Transactions, Locks, RowTrue, FinishedMeansFinished, Next
  PROVE  FinishedMeansFinished'
<1>1. SUFFICES ASSUME batch'.status \in Terminal
               PROVE  Agrees(batch', item')
  BY DEF FinishedMeansFinished, BatchDone, Agrees
<1>2. batch.status \in Terminal => Agrees(batch, item)
  BY DEF FinishedMeansFinished, BatchDone, Agrees
<1>3. ASSUME NEW s \in Schedulers, Commit(s)
      PROVE  Agrees(batch', item')
  <2>1. item' = View(s) /\ batch' = Row(s)
    BY <1>3 DEF Commit
  <2>2. CASE holder = s
    BY <1>1, <2>1, <2>2 DEF RowTrue, Row
  <2>3. CASE holder # s
    <3>1. batch' = batch
      BY <2>1, <2>3 DEF Row
    <3>2. Agrees(batch, item)
      BY <1>1, <1>2, <3>1
    <3>3. \A i \in Items : item'[i] = item[i]
      BY <1>3, <3>2, ItemsStay DEF Agrees, Acts, Statement
    <3>4. QED BY <3>1, <3>2, <3>3 DEF Agrees
  <2>4. QED BY <2>2, <2>3
<1>4. ASSUME NEW s \in Schedulers, Acts(s), ~ Commit(s)
      PROVE  Agrees(batch', item')
  BY <1>1, <1>2, <1>4, ItemSteps
<1>5. ASSUME NEW i \in Items, Rest(i)
      PROVE  Agrees(batch', item')
  <2>1. batch' = batch
    BY <1>5, RestStays
  <2>2. Agrees(batch, item)
    BY <1>1, <1>2, <2>1
  <2>3. \A j \in Items : item'[j] = item[j]
    BY <1>5, <2>2, RestStays DEF Agrees, Terminal
  <2>4. QED BY <2>1, <2>2, <2>3 DEF Agrees
<1>6. QED BY <1>3, <1>4, <1>5 DEF Next, Acts, Rest

-----------------------------------------------------------------------------
(* Theorems                                                                *)

LEMMA InvInit == Init => IInv
<1> SUFFICES ASSUME Init PROVE IInv
  OBVIOUS
<1>1. TypeOK
  BY RowTypes, Events DEF Init, TypeOK, Stages, BatchRows, CountRange
<1>2. Transactions /\ Locks
  BY DEF Init, Transactions, Transaction, Locks, LockedBy
<1>3. Reports
  BY Events DEF Init, Reports
<1>4. Withdrawn /\ DispatchedOnce
  BY DEF Init, Withdrawn, DispatchedOnce, Terminal
<1>5. SeenTrue /\ RowTrue
  BY DEF Init, SeenTrue, RowTrue
<1>6. FinishedMeansFinished
  BY DEF Init, FinishedMeansFinished, BatchDone, Terminal
<1>7. QED BY <1>1, <1>2, <1>3, <1>4, <1>5, <1>6 DEF IInv

LEMMA InvStep == IInv /\ [Next]_vars => IInv'
<1> SUFFICES ASSUME IInv, [Next]_vars PROVE IInv'
  OBVIOUS
<1>0. TypeOK /\ Transactions /\ Locks /\ Reports /\ Withdrawn /\ DispatchedOnce /\ SeenTrue /\ RowTrue
      /\ FinishedMeansFinished
  BY DEF IInv
<1>1. CASE Next
  <2>1. TypeOK'
    BY <1>0, <1>1, SchedulerTypes, OtherTypes DEF Next
  <2>2. Transactions' /\ Locks'
    BY <1>0, <1>1, TransactionsPreserved
  <2>3. Reports'
    BY <1>0, <1>1, SchedulersReport, RestReports DEF Next, Acts, Rest
  <2>4. Withdrawn' /\ DispatchedOnce'
    BY <1>0, <1>1, DispatchPreserved
  <2>5. SeenTrue' /\ RowTrue' /\ FinishedMeansFinished'
    BY <1>0, <1>1, SeenPreserved, RowPreserved, FinishPreserved
  <2>6. QED BY <2>1, <2>2, <2>3, <2>4, <2>5 DEF IInv
<1>2. CASE UNCHANGED vars
  <2>1. TypeOK' /\ Reports' /\ Withdrawn' /\ DispatchedOnce'
    BY <1>0, <1>2 DEF vars, TypeOK, Reports, Withdrawn, DispatchedOnce
  <2>2. Transactions' /\ Locks'
    BY <1>0, <1>2 DEF vars, Transactions, Transaction, Locks, LockedBy
  <2>3. SeenTrue' /\ RowTrue' /\ FinishedMeansFinished'
    BY <1>0, <1>2 DEF vars, SeenTrue, RowTrue, Agrees, View, FinishedMeansFinished, BatchDone
  <2>4. QED BY <2>1, <2>2, <2>3 DEF IInv
<1>3. QED BY <1>1, <1>2

\* The inductive invariant: what transactions hold, what events report, and that
\* counts and rows which end the batch are true whenever they are used.
THEOREM Invariant == Spec => []IInv
BY InvInit, InvStep, PTL DEF Spec

\* Every row, count, lock and event keeps its type.
THEOREM TypeCorrect == Spec => []TypeOK
<1>1. IInv => TypeOK
  BY DEF IInv
<1>2. QED BY Invariant, <1>1, PTL

\* AnalysisRequested is written at most once per item, and an item ends the way its
\* analysis ended, whatever is redelivered and however many schedulers work and die
\* (the status guards of the item updates, FOR UPDATE SKIP LOCKED of the claim).
THEOREM RequestedOnce == Spec => []DispatchedOnce
<1>1. IInv => DispatchedOnce
  BY DEF IInv
<1>2. QED BY Invariant, <1>1, PTL

\* A batch is reported finished only when every item has ended, and as failed exactly
\* when one failed, although a scheduler writes the batch row from counts it read
\* before it waited for the row's lock (_refresh_batch_counts).
THEOREM FinishTrue == Spec => []FinishedMeansFinished
<1>1. IInv => FinishedMeansFinished
  BY DEF IInv
<1>2. QED BY Invariant, <1>1, PTL

-----------------------------------------------------------------------------
(* Slots                                                                   *)

\* An event is handled by one scheduler, and stays until it is acknowledged.
Handles ==
  \A s \in Schedulers : pc[s] # "idle" =>
    /\ event[s] \in inbox /\ event[s].type \in DOMAIN TerminalStatus \cup {"BatchSubmitted"}
    /\ \A t \in Schedulers : t # s /\ pc[t] # "idle" => event[t] # event[s]

\* A transaction that schedules handles BatchSubmitted, or has locked the batch
\* and makes an item terminal.
Holding ==
  \A s \in Schedulers :
    /\ pc[s] \in {"lock_batch", "claim", "refresh_last", "write_last", "commit"} =>
         \/ own[s] = {} /\ event[s] = Submitted /\ (pc[s] = "lock_batch" => holder # s)
         \/ own[s] # {} /\ event[s] # Submitted /\ holder = s
    /\ claimed[s] # {} => holder = s

\* BatchSubmitted has not been handled.
Waiting == Submitted \in inbox /\ \A s \in Schedulers : event[s] = Submitted => pc[s] # "ack"

\* Every pending item is about to be withdrawn.
Exhausted == \A i \in Items : item[i] = "pending" => \E s \in Schedulers : i \in own[s]

\* The transactions that handle BatchSubmitted and that release a slot.
Submitting(s) == event[s] = Submitted /\ pc[s] \notin {"idle", "ack"}
Releasing(s) == own[s] # {} /\ \A i \in own[s] : item[i] # "pending"

\* BatchSubmitted fills all slots, as far as there are items.
SubmitFills(s) ==
  Submitting(s) =>
    /\ Waiting
    /\ pc[s] = "claim" => row[s].active = 0
    /\ pc[s] \in {"refresh_last", "write_last", "commit"} =>
         /\ Cardinality(claimed[s]) <= MaxParallel
         /\ \/ Cardinality(claimed[s]) = MaxParallel
            \/ \A i \in Items : item[i] = "pending" => i \in claimed[s] \/ \E t \in Schedulers : i \in own[t]

\* A transaction that releases a slot fills exactly that slot, whatever others
\* committed since it read the counts.
ReleaseFills(s) ==
  Releasing(s) /\ ~Exhausted =>
    /\ pc[s] = "write" => seen[s].active = MaxParallel - 1 /\ seen[s].pending > 0
    /\ pc[s] \in {"lock_batch", "claim"} => row[s].active = MaxParallel - 1 /\ row[s].pending > 0
    /\ pc[s] \in {"refresh_last", "write_last", "commit"} => Cardinality(claimed[s]) = 1

\* All slots are taken from then on, as long as there are items.
Filled ==
  /\ Waiting => /\ \A i \in Items : item[i] = "pending"
                /\ batch.status \notin Terminal /\ batch.pending > 0 /\ batch.active = 0
  /\ ~Waiting => /\ Cardinality(ActiveItems) <= MaxParallel
                 /\ Cardinality(ActiveItems) = MaxParallel \/ Exhausted

AllFilled == Filled /\ \A s \in Schedulers : SubmitFills(s) /\ ReleaseFills(s)
Slots == faults = 0 /\ withdrawn = {} => AllFilled

\* The inductive invariant of SlotBound.
SlotInv == IInv /\ Handles /\ Holding /\ Slots

\* A set of items has a first and a last one.
LEMMA Smallest ==
  ASSUME NEW T \in SUBSET Nat, T # {}
  PROVE  \E x \in T : \A y \in T : x <= y
<1> DEFINE R == OpToRel(<, Nat)
<1>1. IsWellFoundedOn(R, Nat)
  BY NatLessThanWellFounded DEF OpToRel
<1>2. \A a, b \in Nat : a < b => <<a, b>> \in R
  BY DEF OpToRel
<1> HIDE DEF R
<1>3. PICK x \in T : \A y \in T : ~ (<<y, x>> \in R)
  BY <1>1, WFMin
<1>4. \A y \in T : ~ (y < x)
  BY <1>2, <1>3
<1>5. QED BY <1>4

LEMMA Largest ==
  ASSUME NEW T \in SUBSET Items, T # {}
  PROVE  \E x \in T : \A y \in T : y <= x
<1> DEFINE U == {NumItems - x : x \in T}
<1>0. \A x \in T : x \in 1 .. NumItems /\ NumItems - x \in Nat
  BY DEF Items
<1>1. U \in SUBSET Nat /\ U # {}
  BY <1>0
<1>2. PICK u \in U : \A v \in U : u <= v
  BY <1>1, Smallest
<1>3. PICK x \in T : u = NumItems - x
  BY <1>2
<1>4. \A y \in T : NumItems - y \in U
  OBVIOUS
<1>5. \A y \in T : NumItems - x <= NumItems - y
  BY <1>2, <1>3, <1>4
<1>6. QED BY <1>5 DEF Items

\* The first n of a set of items (ORDER BY sort_order LIMIT n).
LEMMA FirstItems ==
  ASSUME NEW C \in SUBSET Items, NEW n \in Nat
  PROVE  LET F == {i \in C : Cardinality({j \in C : j < i}) < n}
         IN  /\ IsFiniteSet(F) /\ Cardinality(F) \in Nat /\ Cardinality(F) <= n
             /\ Cardinality(F) = n \/ F = C
<1> DEFINE Below(i) == {j \in C : j < i}
           F == {i \in C : Cardinality(Below(i)) < n}
<1>1. ASSUME NEW S \in SUBSET C
      PROVE  IsFiniteSet(S) /\ Cardinality(S) \in Nat
  BY <1>1, ItemsFinite, FS_Subset, FS_CardinalityType
<1>2. F \in SUBSET C /\ \A i \in C : Below(i) \in SUBSET C
  OBVIOUS
<1>3. \A i \in F : Cardinality(Below(i)) < n
  OBVIOUS
<1>4. \A i \in C : i \notin F => n <= Cardinality(Below(i))
  BY <1>1, <1>2
<1>5. \A i \in C : i \in Nat
  BY DEF Items
<1>6. ASSUME NEW i \in F, NEW j \in C, j <= i
      PROVE  j \in F
  <2>1. Below(j) \subseteq Below(i)
    <3>1. i \in Nat /\ j \in Nat
      BY <1>2, <1>5
    <3>2. \A k \in C : k < j => k < i
      BY <1>5, <1>6, <3>1
    <3>3. QED BY <3>2
  <2>2. Cardinality(Below(j)) <= Cardinality(Below(i))
    BY <1>1, <1>2, <2>1, FS_Subset
  <2>3. QED BY <1>1, <1>2, <1>3, <2>2
<1> HIDE DEF F
<1>7. Cardinality(F) <= n
  <2>1. CASE F = {}
    BY <2>1, FS_EmptySet
  <2>2. CASE F # {}
    <3>1. PICK x \in F : \A y \in F : y <= x
      BY <1>2, <2>2, Largest
    <3>2. F = Below(x) \cup {x} /\ x \notin Below(x)
      <4>1. x \in C /\ x \in Nat /\ ~ (x < x)
        BY <1>2, <1>5, <3>1
      <4>2. \A j \in C : j < x => j \in F
        BY <1>5, <1>6, <4>1
      <4>3. \A j \in F : j \in C /\ (j < x \/ j = x)
        BY <1>2, <1>5, <3>1, <4>1
      <4>4. QED BY <3>1, <4>1, <4>2, <4>3
    <3>3. Cardinality(F) = Cardinality(Below(x)) + 1
      BY <1>1, <1>2, <3>1, <3>2, FS_AddElement
    <3>4. QED BY <1>1, <1>2, <1>3, <3>1, <3>3
  <2>3. QED BY <2>1, <2>2
<1>8. ASSUME F # C
      PROVE  n <= Cardinality(F)
  <2>1. PICK m \in C \ F : \A y \in C \ F : m <= y
    BY <1>2, <1>5, <1>8, Smallest
  <2>2. Below(m) \subseteq F
    <3>1. \A j \in C : j < m => ~ (m <= j)
      BY <1>5, <2>1
    <3>2. QED BY <2>1, <3>1
  <2>3. Cardinality(Below(m)) <= Cardinality(F)
    BY <1>1, <1>2, <2>2, FS_Subset
  <2>4. QED BY <1>1, <1>2, <1>4, <2>1, <2>3
<1>9. IsFiniteSet(F) /\ Cardinality(F) \in Nat
  BY <1>1, <1>2
<1>10. Cardinality(F) = n \/ F = C
  BY <1>7, <1>8, <1>9
<1>11. QED BY <1>7, <1>9, <1>10 DEF F

\* The other workers take no event of the scheduler's and write no BatchSubmitted.
LEMMA SchedulerEventsStay ==
  ASSUME NEW i \in Items, Rest(i)
  PROVE  /\ \A e \in inbox : e \notin inbox' => e.type \notin DOMAIN TerminalStatus \cup {"BatchSubmitted"}
         /\ Submitted \in inbox' => Submitted \in inbox
<1>1. \A t \in EventTypes : Event(t, i).type = t
  BY Events
<1>2. \A t \in EventTypes : Event(t, i) # Submitted
  BY <1>1, Events DEF EventTypes, TerminalStatus
<1>3. {"AnalysisRequested", "SnapshotRequested", "CancelRequested", "AnalysisCancelled", "AnalysisCompleted",
       "AnalysisFailed"} \subseteq EventTypes
  BY Statuses DEF EventTypes
<1>4. \A e \in inbox : e \notin inbox' =>
        e \in {Event("AnalysisRequested", i), Event("SnapshotRequested", i), Event("CancelRequested", i)}
  BY DEF Rest, Handler, Agent, Cancel, HandleCancelRequested, HandleAnalysisRequested, HandleSnapshotRequested,
         AgentCompletes, AgentFails, AgentReportsFailure, AgentDies, Delivered
<1>5. \A e \in inbox' : e \in inbox \/ \E t \in EventTypes : e = Event(t, i)
  BY <1>3 DEF Rest, Handler, Agent, Cancel, HandleCancelRequested, HandleAnalysisRequested, HandleSnapshotRequested,
         AgentCompletes, AgentFails, AgentReportsFailure, AgentDies, Delivered
<1>6. \A e \in inbox : e \notin inbox' => e.type \notin DOMAIN TerminalStatus \cup {"BatchSubmitted"}
  BY <1>1, <1>3, <1>4, Statuses
<1>7. Submitted \in inbox' => Submitted \in inbox
  BY <1>2, <1>5
<1>8. QED BY <1>6, <1>7

\* Events have one handler, and transactions hold the batch when they schedule.
LEMMA HandlesStep ==
  ASSUME IInv, Handles, Holding, Next
  PROVE  Handles' /\ Holding'
<1>0. TypeOK /\ Transactions /\ pc \in [Schedulers -> Stages] /\ event \in [Schedulers -> AllEvents]
  BY DEF IInv, TypeOK
<1>1. ASSUME NEW s \in Schedulers, Acts(s)
      PROVE  Handles' /\ Holding'
  <2>0. \A t \in Schedulers \ {s} :
          /\ pc'[t] = pc[t] /\ event'[t] = event[t] /\ own'[t] = own[t] /\ claimed'[t] = claimed[t]
          /\ (holder' = t <=> holder = t)
    BY <1>0, <1>1, OthersStay
  <2>1. Transaction(s) /\ Transaction(s)'
    BY <1>0, <1>1, OwnTransaction DEF Transactions
  <2>2. Handles'
    <3>1. CASE Begin(s)
      <4>1. PICK e \in inbox : /\ e.type \in DOMAIN TerminalStatus \cup {"BatchSubmitted"}
                               /\ \A t \in Schedulers : pc[t] # "idle" => event[t] # e
                               /\ event' = [event EXCEPT ![s] = e]
        BY <3>1 DEF Begin
      <4>2. event'[s] = e /\ inbox' = inbox
        BY <1>0, <3>1, <4>1 DEF Begin
      <4>3. QED BY <2>0, <4>1, <4>2 DEF Handles
    <3>2. CASE Acknowledge(s)
      <4>1. pc[s] # "idle" /\ pc'[s] = "idle" /\ inbox' = inbox \ {event[s]}
        BY <1>0, <3>2 DEF Acknowledge, Goto
      <4>2. QED BY <2>0, <4>1 DEF Handles
    <3>3. CASE SchedulerDies(s)
      <4>1. pc'[s] = "idle" /\ inbox' = inbox
        BY <1>0, <3>3 DEF SchedulerDies, Goto
      <4>2. QED BY <2>0, <4>1 DEF Handles
    <3>4. CASE UpdateItem(s) \/ ReadCounts(s) \/ WriteCounts(s) \/ LockBatch(s) \/ ClaimPending(s) \/ Commit(s)
      <4>1. pc[s] # "idle" /\ event' = event /\ inbox \subseteq inbox'
        BY <3>4 DEF UpdateItem, ReadCounts, WriteCounts, LockBatch, ClaimPending, Commit
      <4>2. QED BY <2>0, <4>1 DEF Handles
    <3>5. QED BY <1>1, <3>1, <3>2, <3>3, <3>4 DEF Acts, Statement
  <2>3. \A t \in Schedulers \ {s} :
          /\ pc'[t] \in {"lock_batch", "claim", "refresh_last", "write_last", "commit"} =>
               \/ own'[t] = {} /\ event'[t] = Submitted /\ (pc'[t] = "lock_batch" => holder' # t)
               \/ own'[t] # {} /\ event'[t] # Submitted /\ holder' = t
          /\ claimed'[t] # {} => holder' = t
    BY <2>0 DEF Holding
  <2>4. /\ pc'[s] \in {"lock_batch", "claim", "refresh_last", "write_last", "commit"} =>
             \/ own'[s] = {} /\ event'[s] = Submitted /\ (pc'[s] = "lock_batch" => holder' # s)
             \/ own'[s] # {} /\ event'[s] # Submitted /\ holder' = s
        /\ claimed'[s] # {} => holder' = s
    <3> USE DEF Goto
    <3>1. CASE Begin(s)
      <4>1. /\ own'[s] = {} /\ claimed'[s] = {} /\ holder' # s /\ (pc'[s] = "lock_batch" => event'[s] = Submitted)
            /\ pc'[s] \in {"lock_batch", "update_item"}
        BY <1>0, <2>1, <3>1 DEF Begin, Transaction
      <4>2. QED BY <4>1
    <3>2. CASE UpdateItem(s)
      <4>1. pc'[s] \in {"ack", "refresh"} /\ claimed'[s] = {}
        BY <1>0, <2>1, <3>2 DEF UpdateItem, Transaction
      <4>2. QED BY <4>1
    <3>3. CASE ReadCounts(s) \/ ClaimPending(s) \/ LockBatch(s)
      <4>1. /\ pc[s] \in {"refresh", "refresh_last", "claim", "lock_batch"} /\ event'[s] = event[s] /\ own'[s] = own[s]
            /\ pc'[s] \in {"write", "write_last", "commit", "refresh_last", "claim"}
            /\ pc[s] = "refresh" => pc'[s] = "write"
            /\ holder = s => holder' = s
        BY <1>0, <3>3 DEF ReadCounts, ClaimPending, LockBatch
      <4>2. claimed'[s] = claimed[s] \/ (ClaimPending(s) /\ holder = s)
        BY <2>1, <3>3 DEF ReadCounts, ClaimPending, LockBatch, Transaction
      <4>3. QED BY <4>1, <4>2 DEF Holding
    <3>4. CASE WriteCounts(s)
      <4>1. /\ pc[s] \in {"write", "write_last"} /\ event'[s] = event[s] /\ own'[s] = own[s] /\ holder' = s
            /\ pc'[s] = IF pc[s] = "write" THEN "lock_batch" ELSE "commit"
        BY <1>0, <3>4 DEF WriteCounts
      <4>2. pc[s] = "write" => own[s] # {} /\ event[s] # Submitted
        BY <2>1, Events DEF Transaction
      <4>3. QED BY <4>1, <4>2 DEF Holding
    <3>5. CASE Commit(s) \/ SchedulerDies(s) \/ Acknowledge(s)
      <4>1. pc'[s] \in {"ack", "idle"} /\ claimed'[s] = {}
        BY <1>0, <2>1, <3>5, EndEmpties DEF Commit, SchedulerDies, Acknowledge, Transaction
      <4>2. QED BY <4>1
    <3>6. QED BY <1>1, <3>1, <3>2, <3>3, <3>4, <3>5 DEF Acts, Statement
  <2>5. QED BY <2>2, <2>3, <2>4 DEF Holding
<1>2. ASSUME NEW i \in Items, Rest(i)
      PROVE  Handles' /\ Holding'
  <2>1. UNCHANGED txVars
    BY <1>0, <1>2, RestStays
  <2>2. Holding'
    BY <2>1 DEF Holding
  <2>3. \A e \in inbox : e \notin inbox' => e.type \notin DOMAIN TerminalStatus \cup {"BatchSubmitted"}
    BY <1>2, SchedulerEventsStay
  <2>4. QED BY <2>1, <2>2, <2>3 DEF Handles
<1>3. QED BY <1>1, <1>2 DEF Next, Acts, Rest

\* A statement that commits nothing disturbs the slots of no other transaction.
LEMMA SlotsFrame ==
  ASSUME IInv, AllFilled, NEW s \in Schedulers, Acts(s), UNCHANGED <<item, batch>>,
         own[s] \subseteq own'[s], Waiting' <=> Waiting,
         SubmitFills(s)', ReleaseFills(s)'
  PROVE  AllFilled'
<1>0. TypeOK /\ \A t \in Schedulers \ {s} :
        /\ pc'[t] = pc[t] /\ event'[t] = event[t] /\ own'[t] = own[t] /\ claimed'[t] = claimed[t]
        /\ seen'[t] = seen[t] /\ row'[t] = row[t]
  BY OthersStay DEF IInv
<1>1. Waiting' <=> Waiting
  OBVIOUS
<1>2. \A t \in Schedulers : own[t] \subseteq own'[t]
  BY <1>0
<1>3. Exhausted => Exhausted'
  BY <1>2 DEF Exhausted
<1>4. Filled'
  <2>1. ActiveItems' = ActiveItems
    BY DEF ActiveItems
  <2>2. QED BY <1>1, <1>3, <2>1 DEF AllFilled, Filled
<1>5. ASSUME NEW t \in Schedulers \ {s}
      PROVE  SubmitFills(t)' /\ ReleaseFills(t)'
  <2>1. SubmitFills(t) /\ ReleaseFills(t)
    BY DEF AllFilled
  <2>2. (Submitting(t)' <=> Submitting(t)) /\ (Releasing(t)' <=> Releasing(t))
    BY <1>0 DEF Submitting, Releasing
  <2>3. SubmitFills(t)'
    BY <1>0, <1>1, <1>2, <2>1, <2>2 DEF SubmitFills
  <2>4. ReleaseFills(t)'
    BY <1>0, <1>3, <2>1, <2>2 DEF ReleaseFills
  <2>5. QED BY <2>3, <2>4
<1>6. QED BY <1>4, <1>5 DEF AllFilled

\* A transaction that makes an item terminal does not handle BatchSubmitted.
LEMMA OwnItem ==
  ASSUME IInv, NEW s \in Schedulers, own[s] # {}
  PROVE  /\ event[s] # Submitted /\ own[s] = {event[s].item}
         /\ event[s].item \in Items /\ item[event[s].item] \notin Terminal
<1>1. Transaction(s) /\ own[s] \subseteq Items
  BY DEF IInv, Transactions, TypeOK
<1>2. PICK i \in own[s] : TRUE
  OBVIOUS
<1>3. event[s].type \in DOMAIN TerminalStatus /\ i = event[s].item /\ item[i] \notin Terminal
  BY <1>1, <1>2 DEF Transaction
<1>4. own[s] = {event[s].item}
  BY <1>1, <1>2, <1>3 DEF Transaction
<1>5. QED BY <1>1, <1>2, <1>3, <1>4, Events

\* The active items while one of them is released.
LEMMA ActiveLess ==
  ASSUME IInv, NEW s \in Schedulers, Releasing(s)
  PROVE  /\ IsFiniteSet(ActiveItems) /\ Cardinality(ActiveItems) \in Nat
         /\ IsFiniteSet(ActiveItems \ own[s]) /\ Cardinality(ActiveItems \ own[s]) = Cardinality(ActiveItems) - 1
<1>1. event[s].item \in Items /\ item[event[s].item] \notin Terminal /\ own[s] = {event[s].item}
  BY OwnItem DEF Releasing
<1>2. item[event[s].item] \in Active
  BY <1>1 DEF Releasing, IInv, TypeOK, Active
<1>3. event[s].item \in ActiveItems /\ ActiveItems \in SUBSET Items
  BY <1>1, <1>2 DEF ActiveItems
<1>4. IsFiniteSet(ActiveItems)
  BY <1>3, ItemsFinite, FS_Subset
<1>5. Cardinality(ActiveItems) \in Nat
  BY <1>4, FS_CardinalityType
<1> DEFINE i == event[s].item
<1> HIDE DEF i
<1>6. i \in ActiveItems /\ own[s] = {i}
  BY <1>1, <1>3 DEF i
<1>7. IsFiniteSet(ActiveItems \ {i}) /\ Cardinality(ActiveItems \ {i}) = Cardinality(ActiveItems) - 1
  BY <1>4, <1>6, FS_RemoveElement
<1>8. QED BY <1>4, <1>5, <1>6, <1>7

\* Nobody else has claimed items while a transaction holds the batch.
LEMMA OnlyWithdrawn ==
  ASSUME IInv, Holding, NEW s \in Schedulers, holder = s, claimed[s] = {}, NEW i \in Items, item[i] = "pending"
  PROVE  i \in Claimable(s) \/ \E t \in Schedulers : i \in own[t]
<1>1. \A t \in Schedulers \ {s} : claimed[t] = {}
  BY DEF Holding
<1>2. CASE i \in LockedByOthers(s)
  BY <1>1, <1>2 DEF LockedByOthers, LockedBy
<1>3. CASE i \notin LockedByOthers(s) /\ i \notin own[s]
  <2>1. View(s)[i] = "pending"
    BY <1>3, ViewValues
  <2>2. QED BY <1>3, <2>1 DEF Claimable
<1>4. CASE i \in own[s]
  BY <1>4
<1>5. QED BY <1>2, <1>3, <1>4

\* What a transaction that releases a slot counts.
LEMMA ReadFills ==
  ASSUME IInv, AllFilled, NEW s \in Schedulers, Releasing(s), ~Exhausted, claimed[s] = {}
  PROVE  Counts(View(s)).active = MaxParallel - 1 /\ Counts(View(s)).pending > 0
<1>0. ~Waiting /\ Cardinality(ActiveItems) = MaxParallel
  <2>1. own[s] = {event[s].item} /\ event[s].item \in Items
    BY OwnItem DEF Releasing
  <2>2. ~Waiting
    BY <2>1 DEF AllFilled, Filled, Releasing
  <2>3. QED BY <2>2 DEF AllFilled, Filled
<1>1. own[s] = {event[s].item} /\ event[s].item \in Items /\ event[s].type \in DOMAIN TerminalStatus
  BY OwnItem DEF Releasing, IInv, Transactions, Transaction
<1>2. \A i \in Items : View(s)[i] = IF i \in own[s] THEN TerminalStatus[event[s].type] ELSE item[i]
  BY ViewValues
<1>3. TerminalStatus[event[s].type] \notin Active /\ TerminalStatus[event[s].type] # "pending"
  BY <1>1, Statuses DEF Active, Terminal
<1>4. {i \in Items : View(s)[i] \in Active} = ActiveItems \ own[s]
  BY <1>2, <1>3 DEF ActiveItems
<1>5. CountOf(View(s), Active) = MaxParallel - 1
  BY <1>0, <1>4, ActiveLess DEF CountOf
<1>6. PICK i \in Items : item[i] = "pending" /\ i \notin own[s]
  BY DEF Exhausted
<1>7. CountOf(View(s), {"pending"}) \in CountRange /\ CountOf(View(s), {"pending"}) # 0
  <2>1. View(s)[i] = "pending"
    BY <1>2, <1>6
  <2>2. QED BY <1>6, <2>1, CountTypes
<1>8. QED BY <1>5, <1>7 DEF Counts, CountRange

\* The statements before the commit.
LEMMA StatementFills ==
  ASSUME IInv, Handles, Holding, AllFilled, NEW s \in Schedulers,
         Begin(s) \/ UpdateItem(s) \/ ReadCounts(s) \/ WriteCounts(s) \/ LockBatch(s) \/ ClaimPending(s)
  PROVE  AllFilled'
<1>0. /\ TypeOK /\ Transaction(s) /\ SubmitFills(s) /\ ReleaseFills(s) /\ Acts(s)
      /\ pc \in [Schedulers -> Stages] /\ event \in [Schedulers -> AllEvents]
      /\ own \in [Schedulers -> SUBSET Items] /\ claimed \in [Schedulers -> SUBSET Items]
      /\ row[s] \in BatchRows
  BY DEF IInv, TypeOK, Transactions, AllFilled, Acts, Statement
<1>1. UNCHANGED <<item, batch, inbox>>
  BY DEF Begin, UpdateItem, ReadCounts, WriteCounts, LockBatch, ClaimPending
<1>2. own[s] # {} => event[s] # Submitted
  BY OwnItem
<1>3. \A t \in Schedulers : t # s => own'[t] = own[t] /\ pc'[t] = pc[t] /\ event'[t] = event[t]
  BY <1>0, OthersStay
<1> USE DEF Goto
<1>4. CASE Begin(s)
  <2>1. /\ pc[s] = "idle" /\ own[s] = {} /\ own'[s] = {} /\ pc'[s] \in {"lock_batch", "update_item"}
        /\ pc'[s] = "lock_batch" => \A t \in Schedulers : pc[t] # "idle" => event[t] # Submitted
        /\ pc'[s] = "lock_batch" => Submitted \in inbox
        /\ pc'[s] = "update_item" => event'[s] # Submitted
    BY <1>0, <1>4 DEF Begin, Transaction
  <2>2. pc'[s] = "lock_batch" => Waiting'
    BY <1>1, <1>3, <2>1 DEF Waiting
  <2>3. SubmitFills(s)'
    BY <2>1, <2>2 DEF SubmitFills, Submitting
  <2>4. ReleaseFills(s)'
    BY <2>1 DEF ReleaseFills, Releasing
  <2>5. Waiting' <=> Waiting
    BY <1>1, <1>3, <2>1 DEF Waiting
  <2>6. QED BY <1>0, <1>1, <2>1, <2>3, <2>4, <2>5, SlotsFrame
<1>5. CASE UpdateItem(s)
  <2>1. /\ pc[s] = "update_item" /\ own[s] = {} /\ event[s] # Submitted /\ event'[s] = event[s]
        /\ pc'[s] \in {"ack", "refresh"}
    BY <1>0, <1>5, Events DEF UpdateItem, Transaction
  <2>2. SubmitFills(s)'
    BY <2>1 DEF SubmitFills, Submitting
  <2>3. ReleaseFills(s)'
    BY <2>1 DEF ReleaseFills
  <2>4. Waiting' <=> Waiting
    BY <1>1, <1>3, <2>1 DEF Waiting
  <2>5. own[s] \subseteq own'[s]
    BY <2>1
  <2>6. QED BY <1>0, <1>1, <2>2, <2>3, <2>4, <2>5, SlotsFrame
<1>6. ASSUME ~Begin(s), ~UpdateItem(s)
      PROVE  /\ own'[s] = own[s] /\ event'[s] = event[s] /\ pc[s] # "ack" /\ pc'[s] # "ack"
             /\ pc[s] \notin {"idle", "ack"}
             /\ (Waiting' <=> Waiting) /\ (Exhausted' <=> Exhausted) /\ (Releasing(s)' <=> Releasing(s))
             /\ \A t \in Schedulers : own'[t] = own[t]
  <2>1. /\ own'[s] = own[s] /\ event'[s] = event[s] /\ pc[s] # "ack" /\ pc'[s] # "ack"
        /\ pc[s] \notin {"idle", "ack"}
    BY <1>0, <1>6 DEF ReadCounts, WriteCounts, LockBatch, ClaimPending
  <2>2. \A t \in Schedulers : own'[t] = own[t]
    BY <1>3, <2>1
  <2>3. Waiting' <=> Waiting
    BY <1>1, <1>3, <2>1 DEF Waiting
  <2>4. (Exhausted' <=> Exhausted) /\ (Releasing(s)' <=> Releasing(s))
    BY <1>1, <2>1, <2>2 DEF Exhausted, Releasing
  <2>5. QED BY <2>1, <2>2, <2>3, <2>4
<1>7. CASE ReadCounts(s)
  <2>1. /\ own'[s] = own[s] /\ event'[s] = event[s] /\ pc[s] # "ack" /\ pc'[s] # "ack"
        /\ (Waiting' <=> Waiting) /\ (Exhausted' <=> Exhausted) /\ (Releasing(s)' <=> Releasing(s))
        /\ \A t \in Schedulers : own'[t] = own[t]
    BY <1>6, <1>7 DEF ReadCounts, Begin, UpdateItem
  <2>2. /\ claimed'[s] = claimed[s] /\ row'[s] = row[s] /\ seen'[s] = Counts(View(s))
        /\ \/ pc[s] = "refresh" /\ pc'[s] = "write" /\ claimed[s] = {} /\ event[s] # Submitted
           \/ pc[s] = "refresh_last" /\ pc'[s] = "write_last"
    BY <1>0, <1>2, <1>7 DEF ReadCounts, Transaction, TypeOK
  <2>3. SubmitFills(s)'
    BY <1>0, <1>1, <2>1, <2>2 DEF SubmitFills, Submitting
  <2>4. ReleaseFills(s)'
    BY <1>0, <2>1, <2>2, ReadFills DEF ReleaseFills
  <2>5. QED BY <1>0, <1>1, <2>1, <2>3, <2>4, SlotsFrame
<1>8. CASE WriteCounts(s)
  <2>1. /\ own'[s] = own[s] /\ event'[s] = event[s] /\ pc[s] # "ack" /\ pc'[s] # "ack"
        /\ (Waiting' <=> Waiting) /\ (Exhausted' <=> Exhausted) /\ (Releasing(s)' <=> Releasing(s))
        /\ \A t \in Schedulers : own'[t] = own[t]
    BY <1>6, <1>8 DEF WriteCounts, Begin, UpdateItem
  <2>2. /\ claimed'[s] = claimed[s] /\ row'[s].active = seen[s].active /\ row'[s].pending = seen[s].pending
        /\ \/ pc[s] = "write" /\ pc'[s] = "lock_batch" /\ event[s] # Submitted
           \/ pc[s] = "write_last" /\ pc'[s] = "commit"
    BY <1>0, <1>2, <1>8 DEF WriteCounts, Transaction, TypeOK, Refreshed
  <2>3. SubmitFills(s)'
    BY <1>0, <1>1, <2>1, <2>2 DEF SubmitFills, Submitting
  <2>4. ReleaseFills(s)'
    BY <1>0, <2>1, <2>2 DEF ReleaseFills
  <2>5. QED BY <1>0, <1>1, <2>1, <2>3, <2>4, SlotsFrame
<1>9. CASE LockBatch(s)
  <2>1. /\ own'[s] = own[s] /\ event'[s] = event[s] /\ pc[s] # "ack" /\ pc'[s] # "ack"
        /\ (Waiting' <=> Waiting) /\ (Exhausted' <=> Exhausted) /\ (Releasing(s)' <=> Releasing(s))
        /\ \A t \in Schedulers : own'[t] = own[t]
    BY <1>6, <1>9 DEF LockBatch, Begin, UpdateItem
  <2>2. ASSUME Row(s).status \notin Terminal, Row(s).pending > 0, Row(s).active < MaxParallel, Row(s) \in BatchRows
        PROVE  pc'[s] = "claim" /\ row'[s] = Row(s)
    <3>1. Row(s).pending # 0 /\ AvailableSlots(Row(s)) # 0
      BY <2>2 DEF AvailableSlots, BatchRows, CountRange
    <3>2. QED BY <1>0, <1>9, <2>2, <3>1 DEF LockBatch, TypeOK
  <2>3. Row(s) \in BatchRows /\ pc[s] = "lock_batch"
    BY <1>0, <1>9, Views DEF IInv, LockBatch
  <2>4. SubmitFills(s)'
    <3>1. SUFFICES ASSUME event[s] = Submitted
                   PROVE  SubmitFills(s)'
      BY <2>1 DEF SubmitFills, Submitting
    <3>2. Waiting /\ own[s] = {} /\ holder # s
      BY <1>0, <1>2, <2>3, <3>1 DEF SubmitFills, Submitting, Holding
    <3>3. Row(s) = batch
      BY <3>2 DEF Row
    <3>4. Row(s).status \notin Terminal /\ Row(s).pending > 0 /\ Row(s).active = 0
      BY <3>2, <3>3 DEF AllFilled, Filled
    <3>5. pc'[s] = "claim" /\ row'[s] = Row(s)
      BY <2>2, <2>3, <3>4
    <3>6. QED BY <2>1, <3>2, <3>4, <3>5 DEF SubmitFills
  <2>5. ReleaseFills(s)'
    <3>1. SUFFICES ASSUME Releasing(s), ~Exhausted
                   PROVE  ReleaseFills(s)'
      BY <2>1 DEF ReleaseFills
    <3>2. row[s].active = MaxParallel - 1 /\ row[s].pending > 0 /\ own[s] # {} /\ holder = s
      BY <1>0, <2>3, <3>1 DEF ReleaseFills, Releasing, Holding
    <3>3. Row(s) = row[s]
      BY <3>2 DEF Row
    <3>4. Row(s).status \notin Terminal
      <4>1. PICK i \in Items : item[i] = "pending" /\ i \notin own[s]
        BY <3>1 DEF Exhausted
      <4>2. claimed[s] = {}
        BY <1>0, <2>3 DEF Transaction
      <4>3. View(s)[i] = "pending"
        BY <4>1, <4>2, ViewValues
      <4>4. QED BY <3>2, <3>3, <4>1, <4>3 DEF IInv, RowTrue, Agrees, Terminal
    <3>5. pc'[s] = "claim" /\ row'[s] = Row(s)
      BY <2>2, <2>3, <3>2, <3>3, <3>4
    <3>6. QED BY <3>2, <3>3, <3>5 DEF ReleaseFills
  <2>6. QED BY <1>0, <1>1, <2>1, <2>4, <2>5, SlotsFrame
<1>10. CASE ClaimPending(s)
  <2> DEFINE C == Claimable(s)
             n == AvailableSlots(row[s])
             F == {i \in C : Cardinality({j \in C : j < i}) < n}
  <2>1. /\ own'[s] = own[s] /\ event'[s] = event[s] /\ pc[s] # "ack" /\ pc'[s] # "ack"
        /\ (Waiting' <=> Waiting) /\ (Exhausted' <=> Exhausted) /\ (Releasing(s)' <=> Releasing(s))
        /\ \A t \in Schedulers : own'[t] = own[t]
    BY <1>6, <1>10 DEF ClaimPending, Begin, UpdateItem
  <2>2. /\ pc[s] = "claim" /\ claimed[s] = {} /\ holder = s
        /\ claimed' = [claimed EXCEPT ![s] = F] /\ pc'[s] \in {"commit", "refresh_last"}
    BY <1>0, <1>10 DEF ClaimPending, Transaction
  <2>3. n \in Nat /\ C \in SUBSET Items
    BY <1>0 DEF AvailableSlots, BatchRows, CountRange, Claimable
  <2> HIDE DEF C, n
  <2>4. Cardinality(F) \in Nat /\ Cardinality(F) <= n /\ (Cardinality(F) = n \/ F = C)
    BY <2>3, FirstItems
  <2> HIDE DEF F
  <2>5. claimed'[s] = F
    BY <1>0, <2>2
  <2>6. \A i \in Items : item[i] = "pending" => i \in C \/ \E t \in Schedulers : i \in own[t]
    BY <2>2, OnlyWithdrawn DEF C
  <2>7. SubmitFills(s)'
    <3>1. SUFFICES ASSUME event[s] = Submitted
                   PROVE  SubmitFills(s)'
      BY <2>1 DEF SubmitFills, Submitting
    <3>2. Waiting /\ row[s].active = 0
      BY <1>0, <2>2, <3>1 DEF SubmitFills, Submitting
    <3>3. n = MaxParallel
      BY <3>2 DEF n, AvailableSlots
    <3>4. Cardinality(F) <= MaxParallel /\ (Cardinality(F) = MaxParallel \/ F = C)
      BY <2>4, <3>3
    <3>5. Cardinality(F) = MaxParallel
          \/ \A i \in Items : item'[i] = "pending" => i \in F \/ \E t \in Schedulers : i \in own'[t]
      BY <1>1, <2>1, <2>6, <3>4
    <3>6. QED BY <2>1, <2>2, <2>5, <3>2, <3>4, <3>5 DEF SubmitFills
  <2>8. ReleaseFills(s)'
    <3>1. SUFFICES ASSUME Releasing(s), ~Exhausted
                   PROVE  ReleaseFills(s)'
      BY <2>1 DEF ReleaseFills
    <3>2. row[s].active = MaxParallel - 1
      BY <1>0, <2>2, <3>1 DEF ReleaseFills
    <3>3. n = 1
      BY <3>2 DEF n, AvailableSlots
    <3>4. C # {}
      BY <2>6, <3>1 DEF Exhausted
    <3>5. Cardinality(F) = 1
      <4>1. F \in SUBSET Items /\ IsFiniteSet(F)
        BY <2>3, ItemsFinite, FS_Subset DEF F
      <4>2. Cardinality(F) = 0 => F = {}
        BY <4>1, FS_EmptySet
      <4>3. QED BY <2>4, <3>3, <3>4, <4>2
    <3>6. QED BY <2>2, <2>5, <3>5 DEF ReleaseFills
  <2>9. QED BY <1>0, <1>1, <2>1, <2>7, <2>8, SlotsFrame
<1>11. QED BY <1>4, <1>5, <1>7, <1>8, <1>9, <1>10

LEMMA AcknowledgeFills ==
  ASSUME IInv, AllFilled, NEW s \in Schedulers, Acknowledge(s)
  PROVE  AllFilled'
<1>0. /\ TypeOK /\ Transaction(s) /\ Acts(s) /\ pc \in [Schedulers -> Stages]
      /\ event \in [Schedulers -> AllEvents]
  BY DEF IInv, TypeOK, Transactions, Acts, Statement
<1>1. /\ UNCHANGED <<item, batch, own>> /\ pc[s] = "ack" /\ pc'[s] = "idle" /\ own[s] = {}
      /\ inbox' = inbox \ {event[s]}
  BY <1>0 DEF Acknowledge, Goto, Transaction
<1>2. \A t \in Schedulers : t # s => pc'[t] = pc[t] /\ event'[t] = event[t]
  BY <1>0, OthersStay
<1>3. Waiting' <=> Waiting
  <2>1. CASE event[s] = Submitted
    BY <1>1, <2>1 DEF Waiting
  <2>2. CASE event[s] # Submitted
    BY <1>1, <1>2, <2>2 DEF Waiting
  <2>3. QED BY <2>1, <2>2
<1>4. SubmitFills(s)' /\ ReleaseFills(s)'
  BY <1>1 DEF SubmitFills, Submitting, ReleaseFills, Releasing
<1>5. QED BY <1>0, <1>1, <1>3, <1>4, SlotsFrame

\* A commit that withdraws no item: BatchSubmitted fills the slots, the end of an
\* analysis passes its slot on.
LEMMA CommitFills ==
  ASSUME IInv, Handles, Holding, AllFilled, NEW s \in Schedulers, Commit(s), withdrawn' = {}
  PROVE  AllFilled'
<1>0. /\ TypeOK /\ Transactions /\ Locks /\ Transaction(s) /\ SubmitFills(s) /\ ReleaseFills(s) /\ Acts(s)
      /\ pc \in [Schedulers -> Stages] /\ event \in [Schedulers -> AllEvents]
      /\ own[s] \in SUBSET Items /\ claimed[s] \in SUBSET Items
  BY DEF IInv, TypeOK, Transactions, AllFilled, Acts, Statement
<1>1. /\ pc[s] = "commit" /\ pc'[s] = "ack" /\ event'[s] = event[s] /\ own'[s] = {} /\ claimed'[s] = {}
      /\ item' = View(s) /\ \A i \in own[s] : item[i] # "pending"
      /\ inbox' = inbox \cup {Event("AnalysisRequested", i) : i \in claimed[s]}
  BY <1>0, EndEmpties DEF Commit, Goto
<1>2. \A t \in Schedulers : t # s =>
        /\ pc'[t] = pc[t] /\ event'[t] = event[t] /\ own'[t] = own[t] /\ claimed'[t] = claimed[t]
        /\ seen'[t] = seen[t] /\ row'[t] = row[t]
  BY <1>0, OthersStay
<1>3. Submitted \in inbox' => Submitted \in inbox
  <2>1. \A i \in claimed[s] : Event("AnalysisRequested", i) # Submitted
    BY <1>0, Events DEF Event, Submitted
  <2>2. QED BY <1>1, <2>1
<1>4. \A i \in Items : /\ i \in claimed[s] => item'[i] = "dispatched" /\ item[i] = "pending" /\ i \notin own[s]
                       /\ i \in own[s] => item'[i] \in Terminal
                       /\ i \notin claimed[s] /\ i \notin own[s] => item'[i] = item[i]
  BY <1>0, <1>1, ViewValues, Statuses DEF Transaction
<1>5. ActiveItems' = (ActiveItems \ own[s]) \cup claimed[s]
  BY <1>0, <1>4 DEF ActiveItems, Active, Terminal
<1>6. \A i \in Items : item'[i] = "pending" => item[i] = "pending" /\ i \notin claimed[s] /\ i \notin own[s]
  BY <1>4 DEF Terminal
<1>7. Exhausted => Exhausted'
  BY <1>2, <1>6 DEF Exhausted
<1>8. ASSUME NEW t \in Schedulers, t # s
      PROVE  ReleaseFills(t)'
  <2>1. \A i \in own[t] : item'[i] = item[i]
    BY <1>0, <1>8, ItemsStay DEF LockedBy
  <2>2. Releasing(t)' <=> Releasing(t)
    BY <1>2, <1>8, <2>1 DEF Releasing
  <2>3. ReleaseFills(t)
    BY DEF AllFilled
  <2>4. QED BY <1>2, <1>7, <1>8, <2>2, <2>3 DEF ReleaseFills
<1>9. SubmitFills(s)' /\ ReleaseFills(s)'
  BY <1>1 DEF SubmitFills, Submitting, ReleaseFills, Releasing
<1>10. SUFFICES /\ ~Waiting' /\ \A t \in Schedulers : t # s => ~Submitting(t)'
                /\ Cardinality(ActiveItems') <= MaxParallel
                /\ Cardinality(ActiveItems') = MaxParallel \/ Exhausted'
  <2>1. \A t \in Schedulers : t # s /\ ~Submitting(t)' => SubmitFills(t)'
    BY DEF SubmitFills
  <2>2. QED BY <1>8, <1>9, <1>10, <2>1 DEF AllFilled, Filled
<1>11. CASE own[s] = {}
  <2>1. event[s] = Submitted /\ Submitting(s)
    BY <1>1, <1>11 DEF Holding, Submitting
  <2>2. ~Waiting'
    BY <1>1, <2>1 DEF Waiting
  <2>3. \A t \in Schedulers : t # s => ~Submitting(t)'
    BY <1>1, <1>2, <2>1 DEF Handles, Submitting
  <2>4. Waiting /\ \A i \in Items : item[i] = "pending"
    BY <1>0, <2>1 DEF SubmitFills, AllFilled, Filled
  <2>5. ActiveItems' = claimed[s]
    BY <1>5, <1>11, <2>4 DEF ActiveItems, Active
  <2>6. /\ Cardinality(claimed[s]) <= MaxParallel
        /\ \/ Cardinality(claimed[s]) = MaxParallel
           \/ \A i \in Items : item[i] = "pending" => i \in claimed[s] \/ \E t \in Schedulers : i \in own[t]
    BY <1>0, <1>1, <2>1 DEF SubmitFills
  <2>7. Cardinality(claimed[s]) = MaxParallel \/ Exhausted'
    BY <1>2, <1>6, <1>11, <2>6 DEF Exhausted
  <2>8. QED BY <2>2, <2>3, <2>5, <2>6, <2>7
<1>12. CASE own[s] # {}
  <2>1. Releasing(s)
    BY <1>1, <1>12 DEF Releasing
  <2>2. ~Waiting
    BY <1>0, <1>1, <1>12 DEF AllFilled, Filled
  <2>3. ~Waiting'
    BY <1>1, <1>2, <1>3, <2>2 DEF Waiting
  <2>4. \A t \in Schedulers : t # s => ~Submitting(t)'
    BY <1>2, <2>2 DEF Submitting, AllFilled, SubmitFills
  <2>5. /\ Cardinality(ActiveItems) \in Nat /\ Cardinality(ActiveItems) <= MaxParallel
        /\ Cardinality(ActiveItems) = MaxParallel \/ Exhausted
        /\ IsFiniteSet(ActiveItems \ own[s])
        /\ Cardinality(ActiveItems \ own[s]) = Cardinality(ActiveItems) - 1
    BY <2>1, <2>2, ActiveLess DEF AllFilled, Filled
  <2>6. CASE Exhausted
    <3>1. claimed[s] = {}
      BY <1>0, <1>4, <2>6 DEF Exhausted, Locks, LockedBy
    <3>2. ActiveItems' = ActiveItems \ own[s]
      BY <1>5, <3>1
    <3>3. Cardinality(ActiveItems') <= MaxParallel
      BY <2>5, <3>2
    <3>4. QED BY <1>7, <2>3, <2>4, <2>6, <3>3
  <2>7. CASE ~Exhausted
    <3>1. Cardinality(claimed[s]) = 1 /\ IsFiniteSet(claimed[s])
      BY <1>0, <1>1, <2>1, <2>7, ItemsFinite, FS_Subset DEF ReleaseFills
    <3>2. PICK c : claimed[s] = {c}
      BY <3>1, FS_Singleton
    <3>3. c \notin ActiveItems \ own[s]
      BY <1>0, <1>4, <3>2 DEF ActiveItems, Active
    <3>4. Cardinality((ActiveItems \ own[s]) \cup {c}) = Cardinality(ActiveItems \ own[s]) + 1
      BY <2>5, <3>3, FS_AddElement
    <3>5. Cardinality(ActiveItems') = MaxParallel
      BY <1>5, <2>5, <2>7, <3>2, <3>4
    <3>6. QED BY <2>3, <2>4, <3>5
  <2>8. QED BY <2>6, <2>7
<1>13. QED BY <1>11, <1>12

\* The other workers free no slot and take none.
LEMMA RestFills ==
  ASSUME IInv, AllFilled, NEW i \in Items, Rest(i)
  PROVE  AllFilled'
<1>0. TypeOK
  BY DEF IInv
<1>1. /\ UNCHANGED <<txVars, batch>>
      /\ \A j \in Items : item'[j] = item[j] \/ (item[j] = "dispatched" /\ item'[j] = "snapshotting")
  BY <1>0, RestStays
<1>2. \A j \in Items : item'[j] = "pending" <=> item[j] = "pending"
  BY <1>1
<1>3. ActiveItems' = ActiveItems
  BY <1>1 DEF ActiveItems, Active
<1>4. Submitted \in inbox' <=> Submitted \in inbox
  BY SchedulerEventsStay, Events
<1>5. (Waiting' <=> Waiting) /\ (Exhausted' <=> Exhausted)
  BY <1>1, <1>2, <1>4 DEF Waiting, Exhausted
<1>6. ASSUME NEW s \in Schedulers
      PROVE  SubmitFills(s)' /\ ReleaseFills(s)'
  <2>1. own[s] \subseteq Items
    BY <1>0 DEF TypeOK
  <2>2. (Submitting(s)' <=> Submitting(s)) /\ (Releasing(s)' <=> Releasing(s))
    BY <1>1, <1>2, <2>1 DEF Submitting, Releasing
  <2>3. SubmitFills(s)'
    BY <1>1, <1>2, <1>5, <2>2 DEF AllFilled, SubmitFills
  <2>4. ReleaseFills(s)'
    BY <1>1, <1>5, <2>2 DEF AllFilled, ReleaseFills
  <2>5. QED BY <2>3, <2>4
<1>7. Filled'
  BY <1>1, <1>2, <1>3, <1>5 DEF AllFilled, Filled
<1>8. QED BY <1>6, <1>7 DEF AllFilled

LEMMA SlotInit == Init => SlotInv
<1> SUFFICES ASSUME Init PROVE SlotInv
  OBVIOUS
<1>1. IInv
  BY InvInit
<1>2. Handles /\ Holding
  BY DEF Init, Handles, Holding
<1>3. Waiting /\ ~ \E s \in Schedulers : Submitting(s) \/ Releasing(s)
  BY DEF Init, Waiting, Submitting, Releasing
<1>4. Filled
  BY <1>3 DEF Init, Filled, Terminal
<1>5. QED BY <1>1, <1>2, <1>3, <1>4 DEF SlotInv, Slots, AllFilled, SubmitFills, ReleaseFills

LEMMA SlotStep == SlotInv /\ [Next]_vars => SlotInv'
<1> SUFFICES ASSUME SlotInv, [Next]_vars PROVE SlotInv'
  OBVIOUS
<1>0. IInv /\ Handles /\ Holding /\ Slots /\ IInv'
  BY InvStep DEF SlotInv
<1>1. CASE Next
  <2>1. Handles' /\ Holding'
    BY <1>0, <1>1, HandlesStep
  <2>2. SUFFICES ASSUME faults' = 0, withdrawn' = {}
                 PROVE  AllFilled'
    BY <1>0, <2>1 DEF SlotInv, Slots
  <2>3. ASSUME NEW s \in Schedulers, Acts(s)
        PROVE  AllFilled'
    <3>1. ~SchedulerDies(s)
      BY <1>0, <2>2 DEF SchedulerDies, IInv, TypeOK
    <3>2. faults = 0 /\ withdrawn = {}
      BY <2>2, <2>3, <3>1 DEF Acts, Statement, Begin, UpdateItem, ReadCounts, WriteCounts, LockBatch, ClaimPending,
                              Commit, Acknowledge
    <3>3. AllFilled
      BY <1>0, <3>2 DEF Slots
    <3>4. QED BY <1>0, <2>2, <2>3, <3>1, <3>3, StatementFills, CommitFills, AcknowledgeFills DEF Acts, Statement
  <2>4. ASSUME NEW i \in Items, Rest(i)
        PROVE  AllFilled'
    <3>1. withdrawn' = withdrawn
      BY <1>0, <2>4, RestStays DEF IInv
    <3>2. faults' = faults \/ faults' = faults + 1
      BY <2>4 DEF Rest, Handler, Agent, Cancel, HandleCancelRequested, HandleAnalysisRequested,
                  HandleSnapshotRequested, AgentCompletes, AgentFails, AgentReportsFailure, AgentDies, Delivered
    <3>3. faults = 0
      BY <1>0, <2>2, <3>2 DEF IInv, TypeOK
    <3>4. AllFilled
      BY <1>0, <2>2, <3>1, <3>3 DEF Slots
    <3>5. QED BY <1>0, <2>4, <3>4, RestFills
  <2>5. QED BY <1>1, <2>3, <2>4 DEF Next, Acts, Rest
<1>2. CASE UNCHANGED vars
  <2>1. Handles' /\ Holding'
    BY <1>0, <1>2 DEF vars, Handles, Holding
  <2>2. (Waiting' <=> Waiting) /\ (Exhausted' <=> Exhausted) /\ ActiveItems' = ActiveItems
    BY <1>2 DEF vars, Waiting, Exhausted, ActiveItems
  <2>3. \A s \in Schedulers : (Submitting(s)' <=> Submitting(s)) /\ (Releasing(s)' <=> Releasing(s))
    BY <1>2 DEF vars, Submitting, Releasing
  <2>4. AllFilled => AllFilled'
    <3>1. Filled => Filled'
      BY <1>2, <2>2 DEF vars, Filled
    <3>2. \A s \in Schedulers : SubmitFills(s) => SubmitFills(s)'
      BY <1>2, <2>2, <2>3 DEF vars, SubmitFills
    <3>3. \A s \in Schedulers : ReleaseFills(s) => ReleaseFills(s)'
      BY <1>2, <2>2, <2>3 DEF vars, ReleaseFills
    <3>4. QED BY <3>1, <3>2, <3>3 DEF AllFilled
  <2>5. QED BY <1>0, <1>2, <2>1, <2>4 DEF SlotInv, Slots, vars
<1>3. QED BY <1>1, <1>2

\* At most max_parallel items are active as long as nobody dies and no pending item
\* is cancelled, for any number of schedulers that release slots at the same time:
\* each counts before it waits for the batch row, and yet fills one slot for the one
\* it frees (_lock_batch, _claim_pending_items, _refresh_batch_counts).
THEOREM SlotsKept == Spec => []SlotBound
<1>1. SlotInv => SlotBound
  <2> SUFFICES ASSUME SlotInv, faults = 0, withdrawn = {}
               PROVE  Cardinality(ActiveItems) <= MaxParallel
    BY DEF SlotBound
  <2>1. Filled
    BY DEF SlotInv, Slots, AllFilled
  <2>2. CASE Waiting
    <3>1. ActiveItems = {}
      BY <2>1, <2>2 DEF Filled, ActiveItems, Active
    <3>2. QED BY <3>1, FS_EmptySet
  <2>3. QED BY <2>1, <2>2 DEF Filled
<1>2. QED BY SlotInit, SlotStep, <1>1, PTL DEF Spec
=============================================================================
