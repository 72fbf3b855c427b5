---------------------------- MODULE BatchScheduler ----------------------------
(***************************************************************************)
(* A batch of analyses and the scheduler that keeps at most max_parallel   *)
(* of them active.                                                         *)
(*                                                                         *)
(* The scheduler's events are keyed by analysis, so several scheduler      *)
(* workers handle events of one batch at the same time, each in one READ   *)
(* COMMITTED transaction.  Its statements are separate steps: a statement  *)
(* sees the rows committed when it starts and the transaction's own        *)
(* writes, row locks are held to the commit, and a statement that waits    *)
(* for a lock goes on with the row's newest version but with whatever else *)
(* it had already read.  The other workers are reduced to what they do to  *)
(* the analyses, the batch items and the events.                           *)
(*                                                                         *)
(* Events are delivered at least once (module EventDelivery): a delivered  *)
(* event leaves the inbox unless its consumer dies before acknowledging it.*)
(***************************************************************************)
EXTENDS Naturals, FiniteSets

CONSTANTS
  NumItems,     \* analyses of the batch, in sort_order
  MaxParallel,  \* max_parallel of the batch
  Schedulers,   \* workers of the batch scheduler's consumer group
  Nobody,       \* the batch row is not locked
  MaxFaults     \* bound: consumers that die before they acknowledge

ASSUME BatchAssumption ==
  /\ NumItems \in Nat \ {0}
  /\ MaxParallel \in 1..20
  /\ Nobody \notin Schedulers
  /\ MaxFaults \in Nat

Items == 1..NumItems
Terminal == {"completed", "failed", "cancelled"}
Active == {"dispatched", "snapshotting", "running"}

VARIABLES
  analysis,   \* analyses.status
  item,       \* analysis_batch_items.status, committed
  batch,      \* analysis_batches row, committed: status and the two counts used
  inbox,      \* events published and not yet acknowledged
  pc,         \* the statement each scheduler is at
  event,      \* the event it handles
  own,        \* the item its transaction made terminal, as a set
  claimed,    \* the items its transaction dispatched
  seen,       \* the counts its last refresh read
  row,        \* the batch row as its transaction sees it, when it holds the lock
  holder,     \* the scheduler that holds the lock of the batch row
  unsent,     \* analyses failed by the agent, AnalysisFailed not yet in the outbox
  requests,   \* history: AnalysisRequested events written for each item
  withdrawn,  \* history: items that became terminal while pending
  faults

txVars  == <<pc, event, own, claimed, seen, row, holder>>
history == <<requests, withdrawn>>
vars == <<analysis, item, batch, inbox, txVars, unsent, history, faults>>

Event(t, i) == [type |-> t, item |-> i]
Submitted == Event("BatchSubmitted", 0)
TerminalStatus == [AnalysisCompleted |-> "completed", AnalysisFailed |-> "failed",
                   AnalysisCancelled |-> "cancelled"]
EventTypes == DOMAIN TerminalStatus \cup
              {"AnalysisRequested", "SnapshotRequested", "CancelRequested"}
AllEvents == {Submitted} \cup [type : EventTypes, item : Items]

NoCounts == [pending |-> 0, active |-> 0, failed |-> 0]
NoRow == [status |-> "queued", pending |-> 0, active |-> 0]

\* create_batch: the batch row, its items and BatchSubmitted in one transaction.
Init ==
  /\ analysis = [i \in Items |-> "queued"]
  /\ item = [i \in Items |-> "pending"]
  /\ batch = [status |-> "queued", pending |-> NumItems, active |-> 0]
  /\ inbox = {Submitted}
  /\ pc = [s \in Schedulers |-> "idle"]
  /\ event = [s \in Schedulers |-> Submitted]
  /\ own = [s \in Schedulers |-> {}]
  /\ claimed = [s \in Schedulers |-> {}]
  /\ seen = [s \in Schedulers |-> NoCounts]
  /\ row = [s \in Schedulers |-> NoRow]
  /\ holder = Nobody
  /\ unsent = {}
  /\ requests = [i \in Items |-> 0]
  /\ withdrawn = {}
  /\ faults = 0

-----------------------------------------------------------------------------
(* The batch scheduler                                                     *)

LockedBy(s) == own[s] \cup claimed[s]
LockedByOthers(s) == UNION {LockedBy(t) : t \in Schedulers \ {s}}
LockedItems == UNION {LockedBy(s) : s \in Schedulers}

\* The items as a statement of s sees them.
View(s) ==
  [i \in Items |-> CASE i \in claimed[s] -> "dispatched"
                     [] i \in own[s] -> TerminalStatus[event[s].type]
                     [] OTHER -> item[i]]

\* The batch row as s sees it, or will see it once it holds the lock.
Row(s) == IF holder = s THEN row[s] ELSE batch

CanLockBatch(s) == holder \in {Nobody, s}

Goto(s, stage) == pc' = [pc EXCEPT ![s] = stage]

\* The transaction of s ends: its locks and what it had read are gone.
EndTransaction(s) ==
  /\ own' = [own EXCEPT ![s] = {}]
  /\ claimed' = [claimed EXCEPT ![s] = {}]
  /\ seen' = [seen EXCEPT ![s] = NoCounts]
  /\ row' = [row EXCEPT ![s] = NoRow]
  /\ holder' = IF holder = s THEN Nobody ELSE holder

Begin(s) ==
  /\ pc[s] = "idle"
  /\ \E e \in inbox :
       /\ e.type \in DOMAIN TerminalStatus \cup {"BatchSubmitted"}
       /\ \A t \in Schedulers : pc[t] # "idle" => event[t] # e
       /\ event' = [event EXCEPT ![s] = e]
       /\ Goto(s, IF e = Submitted THEN "lock_batch" ELSE "update_item")
  /\ UNCHANGED <<analysis, item, batch, inbox, own, claimed, seen, row, holder,
                 unsent, history, faults>>

\* UPDATE the item unless it is terminal; no row: nothing to release.
UpdateItem(s) ==
  LET i == event[s].item IN
  /\ pc[s] = "update_item"
  /\ i \notin LockedByOthers(s)
  /\ IF item[i] \in Terminal
       THEN Goto(s, "ack") /\ UNCHANGED own
       ELSE Goto(s, "refresh") /\ own' = [own EXCEPT ![s] = {i}]
  /\ UNCHANGED <<analysis, item, batch, inbox, event, claimed, seen, row, holder,
                 unsent, history, faults>>

CountOf(view, statuses) == Cardinality({i \in Items : view[i] \in statuses})

Counts(view) ==
  [pending |-> CountOf(view, {"pending"}), active |-> CountOf(view, Active),
   failed |-> CountOf(view, {"failed"})]

\* Variant: a batch is finished when nothing is active.
RefreshedIgnoringPending(b, c) ==
  [status  |-> CASE c.active = 0 /\ c.failed > 0 -> "failed"
                 [] c.active = 0 /\ c.failed = 0 -> "completed"
                 [] c.active > 0 -> "running"
                 [] OTHER -> b.status,
   pending |-> c.pending,
   active  |-> c.active]

\* The UPDATE of _refresh_batch_counts applied to row b with counts c.
Refreshed(b, c) ==
  [status  |-> CASE c.pending = 0 /\ c.active = 0 /\ c.failed > 0 -> "failed"
                 [] c.pending = 0 /\ c.active = 0 /\ c.failed = 0 -> "completed"
                 [] c.active > 0 -> "running"
                 [] OTHER -> b.status,
   pending |-> c.pending,
   active  |-> c.active]

\* _refresh_batch_counts, first half: the common table expression is read ...
ReadCounts(s) ==
  /\ pc[s] \in {"refresh", "refresh_last"}
  /\ seen' = [seen EXCEPT ![s] = Counts(View(s))]
  /\ Goto(s, IF pc[s] = "refresh" THEN "write" ELSE "write_last")
  /\ UNCHANGED <<analysis, item, batch, inbox, event, own, claimed, row, holder,
                 unsent, history, faults>>

\* Variant: a terminal event refreshes the counts but schedules nothing.
WriteCountsOnly(s) ==
  /\ pc[s] \in {"write", "write_last"}
  /\ CanLockBatch(s)
  /\ holder' = s
  /\ row' = [row EXCEPT ![s] = Refreshed(Row(s), seen[s])]
  /\ seen' = [seen EXCEPT ![s] = NoCounts]
  /\ Goto(s, "commit")
  /\ UNCHANGED <<analysis, item, batch, inbox, event, own, claimed,
                 unsent, history, faults>>

\* ... second half: the batch row is updated once its lock is granted.
WriteCounts(s) ==
  /\ pc[s] \in {"write", "write_last"}
  /\ CanLockBatch(s)
  /\ holder' = s
  /\ row' = [row EXCEPT ![s] = Refreshed(Row(s), seen[s])]
  /\ seen' = [seen EXCEPT ![s] = NoCounts]
  /\ Goto(s, IF pc[s] = "write" THEN "lock_batch" ELSE "commit")
  /\ UNCHANGED <<analysis, item, batch, inbox, event, own, claimed,
                 unsent, history, faults>>

\* Variant: one slot too many.
AvailableSlotsPlusOne(b) == IF b.active <= MaxParallel THEN MaxParallel + 1 - b.active ELSE 0

AvailableSlots(b) == IF b.active < MaxParallel THEN MaxParallel - b.active ELSE 0

\* _lock_batch: SELECT ... FOR UPDATE of a batch that is not terminal, and the
\* decisions of _schedule_batch on the counts in that row.
LockBatch(s) ==
  LET b == Row(s) IN
  /\ pc[s] = "lock_batch"
  /\ CanLockBatch(s)
  /\ IF b.status \in Terminal
       THEN Goto(s, "commit") /\ UNCHANGED <<row, holder>>
       ELSE /\ holder' = s
            /\ row' = [row EXCEPT ![s] = b]
            /\ Goto(s, CASE b.pending = 0 -> "refresh_last"
                         [] b.pending > 0 /\ AvailableSlots(b) = 0 -> "commit"
                         [] OTHER -> "claim")
  /\ UNCHANGED <<analysis, item, batch, inbox, event, own, claimed, seen,
                 unsent, history, faults>>

Claimable(s) == {i \in Items : View(s)[i] = "pending"} \ LockedByOthers(s)

\* _claim_pending_items: the first available_slots pending items nobody locks.
ClaimPending(s) ==
  LET first == {i \in Claimable(s) :
                  Cardinality({j \in Claimable(s) : j < i}) < AvailableSlots(row[s])}
  IN
  /\ pc[s] = "claim"
  /\ claimed' = [claimed EXCEPT ![s] = first]
  /\ Goto(s, IF first = {} THEN "commit" ELSE "refresh_last")
  /\ UNCHANGED <<analysis, item, batch, inbox, event, own, seen, row, holder,
                 unsent, history, faults>>

\* The transaction commits with its AnalysisRequested outbox rows.
Commit(s) ==
  /\ pc[s] = "commit"
  /\ item' = View(s)
  /\ batch' = Row(s)
  /\ inbox' = inbox \cup {Event("AnalysisRequested", i) : i \in claimed[s]}
  /\ requests' = [i \in Items |-> IF i \in claimed[s] THEN requests[i] + 1 ELSE requests[i]]
  /\ withdrawn' = withdrawn \cup {i \in own[s] : item[i] = "pending"}
  /\ EndTransaction(s)
  /\ Goto(s, "ack")
  /\ UNCHANGED <<analysis, event, unsent, faults>>

\* The runner records the event as processed.
Acknowledge(s) ==
  /\ pc[s] = "ack"
  /\ inbox' = inbox \ {event[s]}
  /\ Goto(s, "idle")
  /\ event' = [event EXCEPT ![s] = Submitted]
  /\ UNCHANGED <<analysis, item, batch, own, claimed, seen, row, holder,
                 unsent, history, faults>>

\* The worker dies: an open transaction rolls back, the event is redelivered.
SchedulerDies(s) ==
  /\ pc[s] # "idle"
  /\ faults < MaxFaults
  /\ faults' = faults + 1
  /\ EndTransaction(s)
  /\ Goto(s, "idle")
  /\ event' = [event EXCEPT ![s] = Submitted]
  /\ UNCHANGED <<analysis, item, batch, inbox, unsent, history>>

-----------------------------------------------------------------------------
(* The API, the analysis worker, the snapshot worker and the agent         *)

\* A handler ran on e and wrote the events out; its consumer acknowledges e or
\* dies first.
Delivered(e, out) ==
  /\ e \in inbox
  /\ \/ inbox' = (inbox \ {e}) \cup out /\ UNCHANGED faults
     \/ /\ faults < MaxFaults
        /\ faults' = faults + 1
        /\ inbox' = inbox \cup out

\* Variant: a finished analysis can still be cancelled.
CancelAnyTime(i) ==
  /\ analysis' = [analysis EXCEPT ![i] = "cancelling"]
  /\ inbox' = inbox \cup {Event("CancelRequested", i)}
  /\ UNCHANGED <<item, batch, txVars, unsent, history, faults>>

\* PostgresAnalysisService.cancel
Cancel(i) ==
  /\ analysis[i] \notin Terminal
  /\ analysis' = [analysis EXCEPT ![i] = "cancelling"]
  /\ inbox' = inbox \cup {Event("CancelRequested", i)}
  /\ UNCHANGED <<item, batch, txVars, unsent, history, faults>>

\* _handle_analysis_cancel_requested
HandleCancelRequested(i) ==
  /\ IF analysis[i] \in Terminal
       THEN UNCHANGED analysis /\ Delivered(Event("CancelRequested", i), {})
       ELSE /\ analysis' = [analysis EXCEPT ![i] = "cancelled"]
            /\ Delivered(Event("CancelRequested", i), {Event("AnalysisCancelled", i)})
  /\ UNCHANGED <<item, batch, txVars, unsent, history>>

\* _handle_analysis_requested; the item row must not be locked.
HandleAnalysisRequested(i) ==
  /\ IF analysis[i] = "queued"
       THEN /\ i \notin LockedItems
            /\ analysis' = [analysis EXCEPT ![i] = "snapshotting"]
            /\ item' = [item EXCEPT ![i] = IF @ = "dispatched" THEN "snapshotting" ELSE @]
            /\ Delivered(Event("AnalysisRequested", i), {Event("SnapshotRequested", i)})
       ELSE /\ Delivered(Event("AnalysisRequested", i), {})
            /\ UNCHANGED <<analysis, item>>
  /\ UNCHANGED <<batch, txVars, unsent, history>>

\* handle_snapshot_requested: SnapshotReady starts the agent; SnapshotFailed goes
\* to a topic without a consumer.
HandleSnapshotRequested(i) ==
  /\ Delivered(Event("SnapshotRequested", i), {})
  /\ IF analysis[i] = "snapshotting"
       THEN \E outcome \in {"running", "failed"} :
              analysis' = [analysis EXCEPT ![i] = outcome]
       ELSE UNCHANGED analysis
  /\ UNCHANGED <<item, batch, txVars, unsent, history>>

\* complete_turn_with_final_answer: status and AnalysisCompleted in one transaction.
AgentCompletes(i) ==
  /\ analysis[i] = "running"
  /\ analysis' = [analysis EXCEPT ![i] = "completed"]
  /\ inbox' = inbox \cup {Event("AnalysisCompleted", i)}
  /\ UNCHANGED <<item, batch, txVars, unsent, history, faults>>

\* fail_analysis commits before add_outbox writes AnalysisFailed.
AgentFails(i) ==
  /\ analysis[i] = "running"
  /\ analysis' = [analysis EXCEPT ![i] = "failed"]
  /\ unsent' = unsent \cup {i}
  /\ UNCHANGED <<item, batch, inbox, txVars, history, faults>>

AgentReportsFailure(i) ==
  /\ i \in unsent
  /\ unsent' = unsent \ {i}
  /\ inbox' = inbox \cup {Event("AnalysisFailed", i)}
  /\ UNCHANGED <<analysis, item, batch, txVars, history, faults>>

\* The agent worker dies in between; on redelivery the session is terminal.
AgentDies(i) ==
  /\ i \in unsent
  /\ faults < MaxFaults
  /\ faults' = faults + 1
  /\ unsent' = unsent \ {i}
  /\ UNCHANGED <<analysis, item, batch, inbox, txVars, history>>

-----------------------------------------------------------------------------
Statement(s) ==
  \/ UpdateItem(s) \/ ReadCounts(s) \/ WriteCounts(s)
  \/ LockBatch(s) \/ ClaimPending(s) \/ Commit(s) \/ Acknowledge(s)

Handler(i) ==
  HandleCancelRequested(i) \/ HandleAnalysisRequested(i) \/ HandleSnapshotRequested(i)

Agent(i) == AgentCompletes(i) \/ AgentFails(i)

Next ==
  \/ \E s \in Schedulers : Begin(s) \/ Statement(s) \/ SchedulerDies(s)
  \/ \E i \in Items : Cancel(i) \/ Handler(i) \/ Agent(i) \/ AgentReportsFailure(i)
                      \/ AgentDies(i)

\* Workers run forever and are restarted; PostgreSQL grants a free lock; an agent
\* is bounded by max_turns, so it ends.
Fairness ==
  /\ \A s \in Schedulers : WF_vars(Begin(s)) /\ WF_vars(Statement(s))
  /\ \A i \in Items :
       /\ WF_vars(HandleCancelRequested(i)) /\ WF_vars(HandleAnalysisRequested(i))
       /\ WF_vars(HandleSnapshotRequested(i))
       /\ WF_vars(Agent(i)) /\ WF_vars(AgentReportsFailure(i))

Spec == Init /\ [][Next]_vars
FairSpec == Spec /\ Fairness

-----------------------------------------------------------------------------
(* Properties                                                              *)

Stages == {"idle", "update_item", "refresh", "write", "lock_batch", "claim",
           "refresh_last", "write_last", "commit", "ack"}
CountRange == 0..NumItems
BatchRows == [status : {"queued", "running"} \cup Terminal, pending : CountRange,
              active : CountRange]

TypeOK ==
  /\ analysis \in [Items -> {"queued", "snapshotting", "running", "cancelling"} \cup Terminal]
  /\ item \in [Items -> {"pending", "dispatched", "snapshotting"} \cup Terminal]
  /\ batch \in BatchRows
  /\ inbox \in SUBSET AllEvents
  /\ pc \in [Schedulers -> Stages]
  /\ event \in [Schedulers -> AllEvents]
  /\ own \in [Schedulers -> SUBSET Items] /\ claimed \in [Schedulers -> SUBSET Items]
  /\ seen \in [Schedulers -> [pending : CountRange, active : CountRange, failed : CountRange]]
  /\ row \in [Schedulers -> BatchRows]
  /\ holder \in Schedulers \cup {Nobody}
  /\ unsent \in SUBSET Items /\ withdrawn \in SUBSET Items
  /\ requests \in [Items -> Nat]
  /\ faults \in Nat

ActiveItems == {i \in Items : item[i] \in Active}
BatchDone == batch.status \in Terminal

\* Schedulers that handle events of one batch concurrently, on counts one of
\* them may have read before the other committed, still keep max_parallel, as long
\* as no pending item is cancelled and nobody dies (_lock_batch,
\* _claim_pending_items, _refresh_batch_counts).  The cancellation of a pending item
\* frees no slot and yet schedules, possibly on counts of an emptier batch.
SlotBound ==
  faults = 0 /\ withdrawn = {} => Cardinality(ActiveItems) <= MaxParallel

\* A batch is reported finished only when every item is, and it is failed exactly
\* when an item failed, although the counts behind that decision may be stale.
FinishedMeansFinished ==
  BatchDone =>
    /\ \A i \in Items : item[i] \in Terminal
    /\ batch.status = "failed" <=> \E i \in Items : item[i] = "failed"
    /\ batch.pending = 0 /\ batch.active = 0

\* AnalysisRequested is written at most once per item, whatever is redelivered, and
\* an item ends the way its analysis ended (the status guards of both updates).
DispatchedOnce ==
  \A i \in Items :
    /\ requests[i] = IF item[i] = "pending" \/ i \in withdrawn THEN 0 ELSE 1
    /\ item[i] \in Terminal => item[i] = analysis[i]

\* The analysis failed and no event will ever tell the scheduler.
Leaked(i) ==
  /\ analysis[i] = "failed"
  /\ item[i] \notin Terminal
  /\ i \notin unsent
  /\ Event("AnalysisFailed", i) \notin inbox

\* No item is starved: neither lock waits, nor counts that are stale when a
\* scheduler decides on them, nor redelivery leave a pending item that no later
\* event dispatches.  The exceptions are a slot held by a leaked analysis and a
\* batch that once had too many active items: when they finish at the same time,
\* each scheduler counts the others' and finds no slot free.
ItemsFinish ==
  <>(\/ \A i \in Items : item[i] \in Terminal
     \/ \E i \in Items : Leaked(i)
     \/ Cardinality(ActiveItems) > MaxParallel)

\* A single scheduler also brings the batch row to its final status.  (Two may
\* not: one that read the counts before the other's commit finds nothing to claim
\* and returns with the older counts in the row.)
BatchFinishes == <>(BatchDone \/ \E i \in Items : Leaked(i))

\* An analysis that reaches a terminal status releases its slot.
SlotReleased == \A i \in Items : analysis[i] \in Terminal ~> item[i] \in Terminal

=============================================================================
