---------------------------- MODULE EventDelivery ----------------------------
(***************************************************************************)
(* How an event travels from the transaction that creates it to the        *)
(* handler that consumes it:                                               *)
(*                                                                         *)
(*   outbox row  --OutboxPublisher-->  Kafka log  --consume_messages-->    *)
(*   EventConsumerRunner.handle_message  -->  handler                      *)
(*                                                                         *)
(* One Kafka partition is modelled: an event keeps its key when it is      *)
(* published again, so all its copies share a partition.  The consumer     *)
(* group assigns the partition to one worker at a time; a worker that      *)
(* lost the assignment goes on handling the message it holds.  Every       *)
(* database call of the runner is a transaction of its own, hence a step.  *)
(*                                                                         *)
(* A claim's random owner token is represented by the worker that holds    *)
(* it: a token dies with its process, after which no one can match it, so  *)
(* the claim rows of a dead process are owned by NoWorker.                 *)
(***************************************************************************)
EXTENDS Naturals, Sequences, FiniteSets

CONSTANTS
  Events,              \* the events the system may emit
  Publishers,          \* instances of the outbox worker
  Workers,             \* consumers of the group
  NoWorker,            \* no consumer: unassigned partition, orphan claim
  BatchSize,           \* OUTBOX_BATCH_SIZE: rows per publisher transaction
  MaxAttempts,         \* EventConsumerRunner max_attempts
  ContinueOnDeferred,  \* TRUE for the run-forever workers
  MaxFaults,           \* bound: process deaths and failing calls
  MaxRebalances,       \* bound: partition taken from a living worker
  MaxStalls            \* bound: a claim expires although its owner heartbeats

ASSUME DeliveryAssumption ==
  /\ IsFiniteSet(Events)
  /\ NoWorker \notin Workers
  /\ MaxAttempts \in Nat \ {0}
  /\ BatchSize \in Nat \ {0}
  /\ ContinueOnDeferred \in BOOLEAN
  /\ MaxFaults \in Nat /\ MaxRebalances \in Nat /\ MaxStalls \in Nat

VARIABLES
  outbox,      \* outbox_events row: "none", "unpublished" or "published"
  created,     \* created_at of the row, as the rank of its insertion
  txn,         \* open publisher transaction: rows locked, rows already sent
  log,         \* the Kafka partition: every message ever published
  committed,   \* messages covered by the group's committed offset
  pos,         \* read position of the assigned consumer
  assigned,    \* the consumer that owns the partition
  processed,   \* events with a processed_events row
  claim,       \* event_processing_claims row of each event
  pc,          \* where each worker is in consume_messages/handle_message
  off,         \* offset of the message a worker holds, 0 when none
  hb,          \* heartbeat task: "off", "on", "failed"
  dlq,         \* events published to deepdive.dlq
  ran,         \* history: events whose handler returned normally
  highest,     \* history: the highest offset ever committed
  faults, rebalances, stalls

outboxVars == <<outbox, created, txn>>
kafkaVars  == <<log, committed, pos, assigned, highest>>
claimVars  == <<processed, claim>>
workerVars == <<pc, off, hb>>
sinkVars   == <<dlq, ran>>
bounds     == <<faults, rebalances, stalls>>
vars == <<outboxVars, kafkaVars, claimVars, workerVars, sinkVars, bounds>>

Message == [ev : Events, att : 1..MaxAttempts]
NoClaim == [owner |-> NoWorker, state |-> "free"]
Claims  == [owner : Workers \cup {NoWorker}, state : {"free", "live", "expired"}]

Stages == {"idle", "check", "claim_check", "claim_insert", "defer", "run",
           "requeue", "release", "mark", "commit"}

Init ==
  /\ outbox = [e \in Events |-> "none"]
  /\ created = [e \in Events |-> 0]
  /\ txn = [p \in Publishers |-> [rows |-> {}, sent |-> {}]]
  /\ log = <<>>
  /\ committed = 0
  /\ pos = 0
  /\ assigned = NoWorker
  /\ processed = {}
  /\ claim = [e \in Events |-> NoClaim]
  /\ pc = [w \in Workers |-> "idle"]
  /\ off = [w \in Workers |-> 0]
  /\ hb = [w \in Workers |-> "off"]
  /\ dlq = {}
  /\ ran = {}
  /\ highest = 0
  /\ faults = 0
  /\ rebalances = 0
  /\ stalls = 0

-----------------------------------------------------------------------------
(* The outbox                                                              *)

\* A transaction that changes domain state inserts the event in the same commit.
AddOutbox(e) ==
  /\ outbox[e] = "none"
  /\ outbox' = [outbox EXCEPT ![e] = "unpublished"]
  /\ created' = [created EXCEPT
                   ![e] = 1 + Cardinality({f \in Events : outbox[f] # "none"})]
  /\ UNCHANGED <<txn, kafkaVars, claimVars, workerVars, sinkVars, bounds>>

Locked == UNION {txn[p].rows : p \in Publishers}

Fetchable == {e \in Events : outbox[e] = "unpublished" /\ e \notin Locked}

\* SELECT ... WHERE published_at IS NULL ORDER BY created_at LIMIT n
\* FOR UPDATE SKIP LOCKED, the start of a publisher transaction.
FetchUnpublished(p) ==
  /\ txn[p].rows = {}
  /\ \E batch \in SUBSET Fetchable :
       /\ batch # {}
       /\ \/ batch = Fetchable /\ Cardinality(batch) <= BatchSize
          \/ Cardinality(batch) = BatchSize
       /\ \A e \in batch, f \in Fetchable \ batch : created[e] < created[f]
       /\ txn' = [txn EXCEPT ![p] = [rows |-> batch, sent |-> {}]]
  /\ UNCHANGED <<outbox, created, kafkaVars, claimVars, workerVars, sinkVars, bounds>>

\* publish(row.event), then mark_published inside the still open transaction.
PublishRow(p) ==
  /\ \E e \in txn[p].rows \ txn[p].sent :
       /\ \A f \in txn[p].rows \ txn[p].sent : created[e] <= created[f]
       /\ log' = Append(log, [ev |-> e, att |-> 1])
       /\ txn' = [txn EXCEPT ![p] = [rows |-> @.rows, sent |-> @.sent \cup {e}]]
  /\ UNCHANGED <<outbox, created, committed, pos, assigned, highest,
                 claimVars, workerVars, sinkVars, bounds>>

\* The transaction commits only after the whole batch was sent.
CommitPublished(p) ==
  /\ txn[p].rows # {}
  /\ txn[p].sent = txn[p].rows
  /\ outbox' = [e \in Events |-> IF e \in txn[p].rows THEN "published" ELSE outbox[e]]
  /\ txn' = [txn EXCEPT ![p] = [rows |-> {}, sent |-> {}]]
  /\ UNCHANGED <<created, kafkaVars, claimVars, workerVars, sinkVars, bounds>>

\* A failing send or a dying publisher rolls the marks back, not the sends.
PublisherFails(p) ==
  /\ txn[p].rows # {}
  /\ faults < MaxFaults
  /\ faults' = faults + 1
  /\ txn' = [txn EXCEPT ![p] = [rows |-> {}, sent |-> {}]]
  /\ UNCHANGED <<outbox, created, kafkaVars, claimVars, workerVars, sinkVars,
                 rebalances, stalls>>

-----------------------------------------------------------------------------
(* Kafka consumer group                                                    *)

\* A new owner resumes at the committed offset.
Assign(w) ==
  /\ assigned # w
  /\ IF assigned = NoWorker
       THEN UNCHANGED rebalances
       ELSE rebalances < MaxRebalances /\ rebalances' = rebalances + 1
  /\ assigned' = w
  /\ pos' = committed
  /\ UNCHANGED <<outboxVars, log, committed, highest, claimVars, workerVars,
                 sinkVars, faults, stalls>>

\* async for message in consumer
Fetch(w) ==
  /\ assigned = w
  /\ pc[w] = "idle"
  /\ pos < Len(log)
  /\ pos' = pos + 1
  /\ off' = [off EXCEPT ![w] = pos + 1]
  /\ pc' = [pc EXCEPT ![w] = "check"]
  /\ UNCHANGED <<outboxVars, log, committed, assigned, highest, claimVars, hb,
                 sinkVars, bounds>>

-----------------------------------------------------------------------------
(* EventConsumerRunner.handle_message                                      *)

Held(w) == log[off[w]]
Owns(w) == claim[Held(w).ev].owner = w

Goto(w, stage) == pc' = [pc EXCEPT ![w] = stage]

\* The claim rows after DELETE ... WHERE claim_owner = <w's token>.
ReleasedBy(w) ==
  [e \in Events |-> IF claim[e].owner = w THEN NoClaim ELSE claim[e]]

\* The claim rows when w's process ends without deleting them.
OrphanedBy(w) ==
  [e \in Events |-> IF claim[e].owner = w
                   THEN [owner |-> NoWorker, state |-> claim[e].state]
                   ELSE claim[e]]

\* The process of w ends; its supervisor restarts it and it joins the group again.
Stop(w) ==
  /\ pc' = [pc EXCEPT ![w] = "idle"]
  /\ off' = [off EXCEPT ![w] = 0]
  /\ hb' = [hb EXCEPT ![w] = "off"]
  /\ assigned' = IF assigned = w THEN NoWorker ELSE assigned

\* is_processed: a processed event is skipped, and its offset committed.
CheckProcessed(w) ==
  /\ pc[w] = "check"
  /\ Goto(w, IF Held(w).ev \in processed THEN "commit" ELSE "claim_check")
  /\ UNCHANGED <<outboxVars, kafkaVars, claimVars, off, hb, sinkVars, bounds>>

\* claim_processing looks at processed_events again ...
ClaimCheck(w) ==
  /\ pc[w] = "claim_check"
  /\ Goto(w, IF Held(w).ev \in processed THEN "defer" ELSE "claim_insert")
  /\ UNCHANGED <<outboxVars, kafkaVars, claimVars, off, hb, sinkVars, bounds>>

\* Variant: a conflicting claim is overwritten before it expires.
ClaimInsertAnyway(w) ==
  LET e == Held(w).ev IN
  /\ pc[w] = "claim_insert"
  /\ IF FALSE
       THEN Goto(w, "defer") /\ UNCHANGED <<claim, hb>>
       ELSE /\ claim' = [claim EXCEPT ![e] = [owner |-> w, state |-> "live"]]
            /\ hb' = [hb EXCEPT ![w] = "on"]
            /\ Goto(w, "run")
  /\ UNCHANGED <<outboxVars, kafkaVars, processed, off, sinkVars, bounds>>

\* Variant: an expired claim is not taken over.
ClaimInsertOnlyFree(w) ==
  LET e == Held(w).ev IN
  /\ pc[w] = "claim_insert"
  /\ IF claim[e].state # "free"
       THEN Goto(w, "defer") /\ UNCHANGED <<claim, hb>>
       ELSE /\ claim' = [claim EXCEPT ![e] = [owner |-> w, state |-> "live"]]
            /\ hb' = [hb EXCEPT ![w] = "on"]
            /\ Goto(w, "run")
  /\ UNCHANGED <<outboxVars, kafkaVars, processed, off, sinkVars, bounds>>

\* ... and inserts the claim, or takes over an expired one, in a second
\* transaction; on success the heartbeat task starts.
ClaimInsert(w) ==
  LET e == Held(w).ev IN
  /\ pc[w] = "claim_insert"
  /\ IF claim[e].state = "live"
       THEN Goto(w, "defer") /\ UNCHANGED <<claim, hb>>
       ELSE /\ claim' = [claim EXCEPT ![e] = [owner |-> w, state |-> "live"]]
            /\ hb' = [hb EXCEPT ![w] = "on"]
            /\ Goto(w, "run")
  /\ UNCHANGED <<outboxVars, kafkaVars, processed, off, sinkVars, bounds>>

\* A living process renews the claim of e.
Heartbeating(e) == claim[e].owner \in Workers /\ hb[claim[e].owner] = "on"

\* claim_expires_at passes.  While its owner heartbeats this takes a stall
\* longer than claim_ttl_seconds.
ClaimExpires(e) ==
  /\ claim[e].state = "live"
  /\ IF Heartbeating(e)
       THEN stalls < MaxStalls /\ stalls' = stalls + 1
       ELSE UNCHANGED stalls
  /\ claim' = [claim EXCEPT ![e] = [owner |-> @.owner, state |-> "expired"]]
  /\ UNCHANGED <<outboxVars, kafkaVars, processed, workerVars, sinkVars,
                 faults, rebalances>>

\* _heartbeat_claim: renew extends the claim whether or not it has expired, as
\* long as the owner matches; otherwise the task ends.
Heartbeat(w) ==
  LET e == Held(w).ev IN
  /\ pc[w] = "run"
  /\ hb[w] = "on"
  /\ IF Owns(w)
       THEN /\ claim[e].state = "expired"
            /\ claim' = [claim EXCEPT ![e] = [owner |-> @.owner, state |-> "live"]]
            /\ UNCHANGED hb
       ELSE hb' = [hb EXCEPT ![w] = "off"] /\ UNCHANGED claim
  /\ UNCHANGED <<outboxVars, kafkaVars, processed, pc, off, sinkVars, bounds>>

\* renew raises: the task ends with an exception that _stop_heartbeat re-raises.
HeartbeatFails(w) ==
  /\ pc[w] = "run"
  /\ hb[w] = "on"
  /\ faults < MaxFaults
  /\ faults' = faults + 1
  /\ hb' = [hb EXCEPT ![w] = "failed"]
  /\ UNCHANGED <<outboxVars, kafkaVars, claimVars, pc, off, sinkVars,
                 rebalances, stalls>>

\* _stop_heartbeat, then the next stage; an exception of the heartbeat task
\* escapes handle_message and ends the worker with its claim still in place.
StopHeartbeatThen(w, stage) ==
  IF hb[w] = "failed"
    THEN Stop(w) /\ claim' = OrphanedBy(w)
    ELSE /\ Goto(w, stage)
         /\ hb' = [hb EXCEPT ![w] = "off"]
         /\ UNCHANGED <<claim, off, assigned>>

HandlerReturns(w) ==
  /\ pc[w] = "run"
  /\ ran' = ran \cup {Held(w).ev}
  /\ StopHeartbeatThen(w, "mark")
  /\ UNCHANGED <<outboxVars, log, committed, pos, highest, processed, dlq, bounds>>

HandlerRaises(w) ==
  /\ pc[w] = "run"
  /\ StopHeartbeatThen(w, "requeue")
  /\ UNCHANGED <<outboxVars, log, committed, pos, highest, processed, sinkVars, bounds>>

\* The worker is told to stop while the handler runs (CancelledError).
HandlerCancelled(w) ==
  /\ pc[w] = "run"
  /\ faults < MaxFaults
  /\ faults' = faults + 1
  /\ Stop(w)
  /\ claim' = IF hb[w] = "failed" THEN OrphanedBy(w) ELSE ReleasedBy(w)
  /\ UNCHANGED <<outboxVars, log, committed, pos, highest, processed, sinkVars,
                 rebalances, stalls>>

\* Variant: the last permitted attempt is never published.
RequeueEarly(w) ==
  LET m == Held(w) IN
  /\ pc[w] = "requeue"
  /\ IF m.att + 1 < MaxAttempts
       THEN log' = Append(log, [ev |-> m.ev, att |-> m.att + 1]) /\ UNCHANGED dlq
       ELSE dlq' = dlq \cup {m.ev} /\ UNCHANGED log
  /\ Goto(w, "release")
  /\ UNCHANGED <<outboxVars, committed, pos, assigned, highest, claimVars, off,
                 hb, ran, bounds>>

\* Publish the next attempt of the same event, or its EventProcessingFailed.
Requeue(w) ==
  LET m == Held(w) IN
  /\ pc[w] = "requeue"
  /\ IF m.att < MaxAttempts
       THEN log' = Append(log, [ev |-> m.ev, att |-> m.att + 1]) /\ UNCHANGED dlq
       ELSE dlq' = dlq \cup {m.ev} /\ UNCHANGED log
  /\ Goto(w, "release")
  /\ UNCHANGED <<outboxVars, committed, pos, assigned, highest, claimVars, off,
                 hb, ran, bounds>>

\* The publish raises: finally releases the claim, the exception ends the worker.
RequeueFails(w) ==
  /\ pc[w] = "requeue"
  /\ faults < MaxFaults
  /\ faults' = faults + 1
  /\ Stop(w)
  /\ claim' = ReleasedBy(w)
  /\ UNCHANGED <<outboxVars, log, committed, pos, highest, processed, sinkVars,
                 rebalances, stalls>>

Release(w) ==
  /\ pc[w] = "release"
  /\ claim' = ReleasedBy(w)
  /\ Goto(w, "commit")
  /\ UNCHANGED <<outboxVars, kafkaVars, processed, off, hb, sinkVars, bounds>>

\* mark_processed, one transaction: INSERT guarded by the claim owner, then
\* DELETE of the claim.  A lost claim on an unprocessed event is a RuntimeError.
MarkProcessed(w) ==
  LET e == Held(w).ev IN
  /\ pc[w] = "mark"
  /\ IF Owns(w) \/ e \in processed
       THEN /\ processed' = processed \cup {e}
            /\ claim' = ReleasedBy(w)
            /\ Goto(w, "commit")
            /\ UNCHANGED <<off, hb, assigned>>
       ELSE Stop(w) /\ UNCHANGED <<processed, claim>>
  /\ UNCHANGED <<outboxVars, log, committed, pos, highest, sinkVars, bounds>>

-----------------------------------------------------------------------------
(* consume_messages                                                        *)

\* commit() covers the position of the partitions the consumer owns now.
CommitOffset(w) ==
  /\ pc[w] = "commit"
  /\ committed' = IF assigned = w THEN pos ELSE committed
  /\ highest' = IF committed' > highest THEN committed' ELSE highest
  /\ off' = [off EXCEPT ![w] = 0]
  /\ Goto(w, "idle")
  /\ UNCHANGED <<outboxVars, log, pos, assigned, claimVars, hb, sinkVars, bounds>>

\* Variant: a deferred message is committed like a handled one.
DeferCommits(w) ==
  /\ pc[w] = "defer"
  /\ IF ContinueOnDeferred /\ assigned = w
       THEN Goto(w, "commit") /\ UNCHANGED <<pos, off, hb, assigned>>
       ELSE Stop(w) /\ UNCHANGED pos
  /\ UNCHANGED <<outboxVars, log, committed, highest, claimVars, sinkVars, bounds>>

\* A deferred message is sought again; seeking a partition that was lost
\* raises, and a run-once worker stops instead.
Defer(w) ==
  /\ pc[w] = "defer"
  /\ IF ContinueOnDeferred /\ assigned = w
       THEN /\ pos' = off[w] - 1
            /\ off' = [off EXCEPT ![w] = 0]
            /\ Goto(w, "idle")
            /\ UNCHANGED <<hb, assigned>>
       ELSE Stop(w) /\ UNCHANGED pos
  /\ UNCHANGED <<outboxVars, log, committed, highest, claimVars, sinkVars, bounds>>

\* The process dies, or one of its database or Kafka calls raises.
WorkerDies(w) ==
  /\ pc[w] # "idle"
  /\ faults < MaxFaults
  /\ faults' = faults + 1
  /\ Stop(w)
  /\ claim' = OrphanedBy(w)
  /\ UNCHANGED <<outboxVars, log, committed, pos, highest, processed, sinkVars,
                 rebalances, stalls>>

-----------------------------------------------------------------------------
PublisherStep(p) == FetchUnpublished(p) \/ PublishRow(p) \/ CommitPublished(p)

HandleMessage(w) ==
  \/ CheckProcessed(w) \/ ClaimCheck(w) \/ ClaimInsert(w)
  \/ HandlerReturns(w) \/ HandlerRaises(w)
  \/ Requeue(w) \/ Release(w) \/ MarkProcessed(w)

WorkerStep(w) == Fetch(w) \/ HandleMessage(w) \/ CommitOffset(w) \/ Defer(w)

Failure(w) ==
  HeartbeatFails(w) \/ HandlerCancelled(w) \/ RequeueFails(w) \/ WorkerDies(w)

Next ==
  \/ \E e \in Events : AddOutbox(e) \/ ClaimExpires(e)
  \/ \E p \in Publishers : PublisherStep(p) \/ PublisherFails(p)
  \/ \E w \in Workers : Assign(w) \/ WorkerStep(w) \/ Heartbeat(w) \/ Failure(w)

\* Publishers loop (run_forever), workers are restarted by their supervisor and
\* a handler ends one way or the other; the broker gives a free partition to
\* someone, and time passes for the claims nobody renews.
Fairness ==
  /\ \A p \in Publishers : WF_vars(PublisherStep(p))
  /\ \A w \in Workers : WF_vars(WorkerStep(w)) /\ WF_vars(Heartbeat(w))
  /\ WF_vars(\E w \in Workers : assigned = NoWorker /\ Assign(w))
  /\ \A e \in Events : WF_vars(~Heartbeating(e) /\ ClaimExpires(e))

Spec == Init /\ [][Next]_vars
FairSpec == Spec /\ Fairness

-----------------------------------------------------------------------------
(* Properties                                                              *)

TypeOK ==
  /\ outbox \in [Events -> {"none", "unpublished", "published"}]
  /\ created \in [Events -> Nat]
  /\ txn \in [Publishers -> [rows : SUBSET Events, sent : SUBSET Events]]
  /\ log \in Seq(Message)
  /\ committed \in Nat /\ pos \in Nat /\ highest \in Nat
  /\ assigned \in Workers \cup {NoWorker}
  /\ processed \in SUBSET Events /\ dlq \in SUBSET Events /\ ran \in SUBSET Events
  /\ claim \in [Events -> Claims]
  /\ pc \in [Workers -> Stages]
  /\ off \in [Workers -> Nat]
  /\ hb \in [Workers -> {"off", "on", "failed"}]
  /\ faults \in Nat /\ rebalances \in Nat /\ stalls \in Nat

Settled(e) == e \in processed \cup dlq

\* An event whose transaction committed is never lost: until it is processed or
\* dead-lettered, its outbox row is still unpublished or a message carrying it
\* lies beyond the committed offset, whatever crashes, rebalances, expired
\* claims and deferrals happen on the way (OutboxPublisher.publish_batch,
\* EventConsumerRunner.handle_message, consume_messages).
NoLoss ==
  \A e \in Events :
    \/ outbox[e] \in {"none", "unpublished"}
    \/ Settled(e)
    \/ \E i \in committed + 1 .. Len(log) : log[i].ev = e

\* Attempts are consecutive and none is skipped: a retry message is preceded by
\* the attempt it retries, and an event is dead-lettered only after its last
\* permitted attempt was delivered (the attempt < max_attempts test).
RetryChain ==
  /\ \A i \in 1 .. Len(log) :
       log[i].att > 1 =>
         \E j \in 1 .. i - 1 : log[j].ev = log[i].ev /\ log[j].att = log[i].att - 1
  /\ \A e \in dlq :
       \E i \in 1 .. Len(log) : log[i].ev = e /\ log[i].att = MaxAttempts

\* While no claim outlives a heartbeat stall, two workers whose heartbeats are
\* running never execute the handler of the same event at once
\* (claim_processing, _heartbeat_claim, release_processing_claim).
ExclusiveHandler ==
  stalls = 0 =>
    \A w1, w2 \in Workers :
      /\ pc[w1] = "run" /\ hb[w1] = "on"
      /\ pc[w2] = "run" /\ hb[w2] = "on"
      /\ Held(w1).ev = Held(w2).ev
      => w1 = w2

\* The backbone implements reliable delivery: no handler runs for an event nobody
\* accepted, none is acknowledged that was not handled, and every accepted event is
\* eventually acknowledged or dead-lettered (a claim left by a dead process blocks
\* its event only until it expires).
Reliable == INSTANCE ReliableDelivery WITH
  accepted <- {e \in Events : outbox[e] # "none"},
  executed <- ran,
  acknowledged <- processed,
  dead <- dlq

ImplementsReliableDelivery == Reliable!Spec

-----------------------------------------------------------------------------
(* The strengthening of NoLoss and ExclusiveHandler that is inductive      *)

\* A row is sent before it is marked, and marked only by a committed batch.
SentBeforeMarked ==
  /\ \A p \in Publishers : \A e \in txn[p].sent :
       \E i \in 1 .. Len(log) : log[i].ev = e
  /\ \A e \in Events : outbox[e] = "published" =>
       \E i \in 1 .. Len(log) : log[i].ev = e
  /\ \A p \in Publishers : \A e \in txn[p].rows : outbox[e] # "none"
  /\ \A i \in 1 .. Len(log) : outbox[log[i].ev] # "none"

\* A consumer is never further than one message beyond what was ever committed,
\* and then it holds exactly that message.
PositionBound ==
  /\ committed <= highest /\ highest <= Len(log)
  /\ \A w \in Workers :
       /\ off[w] <= Len(log) /\ off[w] <= highest + 1
       /\ pc[w] = "idle" <=> off[w] = 0
  /\ assigned # NoWorker => pos <= highest \/ pos = off[assigned]

\* What the runner knows of the event when it is about to release or commit.
MovedOn ==
  \A w \in Workers : pc[w] \in {"release", "commit"} =>
    \/ Settled(Held(w).ev)
    \/ \E j \in off[w] + 1 .. Len(log) : log[j].ev = Held(w).ev

\* A published message is settled or has a copy nobody has ever committed.
Outstanding ==
  \A i \in 1 .. Len(log) :
    \/ Settled(log[i].ev)
    \/ \E j \in highest + 1 .. Len(log) : log[j].ev = log[i].ev

\* Only accepted events are executed, and only executed ones are recorded.
ExecutedFirst ==
  /\ \A e \in ran \cup dlq : outbox[e] # "none"
  /\ processed \subseteq ran
  /\ \A w \in Workers : pc[w] = "mark" => Held(w).ev \in ran

\* A living owner of a claim holds a message of that event, and without stalls a
\* heartbeating handler owns a live claim.
ClaimHeld ==
  /\ \A e \in Events, w \in Workers : claim[e].owner = w =>
       pc[w] \in {"run", "requeue", "release", "mark"} /\ Held(w).ev = e
  /\ \A w \in Workers : hb[w] # "off" => pc[w] = "run"
  /\ stalls = 0 => \A w \in Workers :
       hb[w] = "on" => claim[Held(w).ev] = [owner |-> w, state |-> "live"]

=============================================================================
