------------------------ MODULE EventDeliveryProofs ------------------------
(***************************************************************************)
(* Machine-checked proofs about EventDelivery, for every set of events,    *)
(* publishers and workers and every bound.                                 *)
(***************************************************************************)
EXTENDS EventDelivery, FiniteSetTheorems, SequenceTheorems, TLAPS

USE DeliveryAssumption DEF outboxVars, kafkaVars, claimVars, workerVars, sinkVars, bounds

\* The message of a worker that is past idle is a message of the log.
LEMMA HeldMessage ==
  ASSUME TypeOK, PositionBound, NEW w \in Workers, pc[w] # "idle"
  PROVE  /\ off[w] \in 1 .. Len(log)
         /\ Held(w) \in Message
         /\ Held(w).ev \in Events
         /\ Held(w).att \in 1 .. MaxAttempts
<1>1. off[w] \in 1 .. Len(log)
  BY DEF TypeOK, PositionBound
<1>2. log[off[w]] \in Message
  BY <1>1, ElementOfSeq DEF TypeOK
<1>3. QED BY <1>1, <1>2 DEF Held, Message

\* Claims stay claims when rows are deleted or orphaned.
LEMMA ClaimRows ==
  ASSUME TypeOK, NEW w \in Workers
  PROVE  ReleasedBy(w) \in [Events -> Claims] /\ OrphanedBy(w) \in [Events -> Claims]
BY DEF TypeOK, ReleasedBy, OrphanedBy, Claims, NoClaim

\* Stopping the heartbeat keeps the types, whether or not its exception escapes.
LEMMA StopHeartbeatType ==
  ASSUME TypeOK, NEW w \in Workers, NEW stage \in Stages, StopHeartbeatThen(w, stage)
  PROVE  /\ claim' \in [Events -> Claims]
         /\ pc' \in [Workers -> Stages]
         /\ off' \in [Workers -> Nat]
         /\ hb' \in [Workers -> {"off", "on", "failed"}]
         /\ assigned' \in Workers \cup {NoWorker}
<1>1. CASE hb[w] = "failed"
  <2>1. Stop(w) /\ claim' = OrphanedBy(w)
    BY <1>1 DEF StopHeartbeatThen
  <2>2. claim' \in [Events -> Claims]
    BY <2>1, ClaimRows
  <2>3. QED BY <2>1, <2>2 DEF Stop, TypeOK, Stages
<1>2. CASE hb[w] # "failed"
  BY <1>2, ZenonT(60) DEF StopHeartbeatThen, Goto, TypeOK
<1>3. QED BY <1>1, <1>2

\* Every step of the backbone keeps the types.
LEMMA TypeStep ==
  ASSUME TypeOK, PositionBound, [Next]_vars
  PROVE  TypeOK'
<1>1. ASSUME NEW e \in Events, AddOutbox(e) PROVE TypeOK'
  <2>1. Cardinality({f \in Events : outbox[f] # "none"}) \in Nat
    BY FS_Subset, FS_CardinalityType
  <2>2. QED BY <1>1, <2>1 DEF AddOutbox, TypeOK
<1>2. ASSUME NEW e \in Events, ClaimExpires(e) PROVE TypeOK'
  <2>1. claim[e] \in Claims
    BY DEF TypeOK
  <2>2. claim' \in [Events -> Claims]
    BY <1>2, <2>1 DEF ClaimExpires, TypeOK, Claims
  <2>3. stalls' \in Nat
    BY <1>2 DEF ClaimExpires, TypeOK
  <2>4. QED BY <1>2, <2>2, <2>3 DEF ClaimExpires, TypeOK
<1>3. ASSUME NEW p \in Publishers, PublisherStep(p) \/ PublisherFails(p) PROVE TypeOK'
  <2>1. CASE FetchUnpublished(p)
    BY <2>1 DEF FetchUnpublished, TypeOK, Fetchable
  <2>2. CASE PublishRow(p)
    <3>1. PICK e \in txn[p].rows \ txn[p].sent :
            /\ log' = Append(log, [ev |-> e, att |-> 1])
            /\ txn' = [txn EXCEPT ![p] = [rows |-> @.rows, sent |-> @.sent \cup {e}]]
      BY <2>2 DEF PublishRow
    <3>2. e \in Events
      BY <3>1 DEF TypeOK
    <3>3. log' \in Seq(Message)
      BY <3>1, <3>2, AppendProperties DEF TypeOK, Message
    <3>4. txn' \in [Publishers -> [rows : SUBSET Events, sent : SUBSET Events]]
      BY <3>1, <3>2 DEF TypeOK
    <3>5. QED BY <2>2, <3>3, <3>4 DEF PublishRow, TypeOK
  <2>3. CASE CommitPublished(p)
    BY <2>3 DEF CommitPublished, TypeOK
  <2>4. CASE PublisherFails(p)
    BY <2>4 DEF PublisherFails, TypeOK
  <2>5. QED BY <1>3, <2>1, <2>2, <2>3, <2>4 DEF PublisherStep
<1>4. ASSUME NEW w \in Workers, Assign(w) PROVE TypeOK'
  BY <1>4 DEF Assign, TypeOK
<1>5. ASSUME NEW w \in Workers, WorkerStep(w) PROVE TypeOK'
  <2>0. pc[w] # "idle" => /\ off[w] \in 1 .. Len(log)
                          /\ Held(w).ev \in Events
                          /\ Held(w).att \in 1 .. MaxAttempts
    BY HeldMessage
  <2>a. ReleasedBy(w) \in [Events -> Claims] /\ OrphanedBy(w) \in [Events -> Claims]
    BY ClaimRows
  <2>1. CASE Fetch(w)
    BY <2>1 DEF Fetch, TypeOK, Stages
  <2>2. CASE CheckProcessed(w)
    BY <2>2 DEF CheckProcessed, TypeOK, Goto, Stages
  <2>3. CASE ClaimCheck(w)
    BY <2>3 DEF ClaimCheck, TypeOK, Goto, Stages
  <2>4. CASE ClaimInsert(w)
    <3>0. \/ UNCHANGED claim
          \/ claim' = [claim EXCEPT ![Held(w).ev] = [owner |-> w, state |-> "live"]]
      BY <2>4 DEF ClaimInsert
    <3>1. claim' \in [Events -> Claims]
      BY <2>4, <3>0 DEF TypeOK, Claims
    <3>2. hb' \in [Workers -> {"off", "on", "failed"}] /\ pc' \in [Workers -> Stages]
      BY <2>4 DEF ClaimInsert, TypeOK, Goto, Stages
    <3>3. QED BY <2>4, <3>1, <3>2 DEF ClaimInsert, TypeOK
  <2>5. CASE HandlerReturns(w)
    <3>1. StopHeartbeatThen(w, "mark") /\ "mark" \in Stages
      BY <2>5 DEF HandlerReturns, Stages
    <3>2. /\ claim' \in [Events -> Claims]
          /\ pc' \in [Workers -> Stages]
          /\ off' \in [Workers -> Nat]
          /\ hb' \in [Workers -> {"off", "on", "failed"}]
          /\ assigned' \in Workers \cup {NoWorker}
      BY <3>1, StopHeartbeatType
    <3>3. QED BY <2>5, <2>0, <3>2 DEF HandlerReturns, TypeOK
  <2>6. CASE HandlerRaises(w)
    <3>1. StopHeartbeatThen(w, "requeue") /\ "requeue" \in Stages
      BY <2>6 DEF HandlerRaises, Stages
    <3>2. /\ claim' \in [Events -> Claims]
          /\ pc' \in [Workers -> Stages]
          /\ off' \in [Workers -> Nat]
          /\ hb' \in [Workers -> {"off", "on", "failed"}]
          /\ assigned' \in Workers \cup {NoWorker}
      BY <3>1, StopHeartbeatType
    <3>3. QED BY <2>6, <2>0, <3>2 DEF HandlerRaises, TypeOK
  <2>7. CASE Requeue(w)
    <3>1. Held(w).att < MaxAttempts => [ev |-> Held(w).ev, att |-> Held(w).att + 1] \in Message
      BY <2>7, <2>0 DEF Requeue, Message
    <3>a. \/ UNCHANGED log
          \/ /\ Held(w).att < MaxAttempts
             /\ log' = Append(log, [ev |-> Held(w).ev, att |-> Held(w).att + 1])
      BY <2>7 DEF Requeue
    <3>b. log \in Seq(Message)
      BY DEF TypeOK
    <3>2. log' \in Seq(Message)
      BY <3>a, <3>b, <3>1, AppendProperties
    <3>3. dlq' \in SUBSET Events /\ pc' \in [Workers -> Stages]
      BY <2>7, <2>0 DEF Requeue, TypeOK, Goto, Stages
    <3>4. QED BY <2>7, <3>2, <3>3 DEF Requeue, TypeOK
  <2>8. CASE Release(w)
    BY <2>8, <2>a DEF Release, TypeOK, Goto, Stages
  <2>9. CASE MarkProcessed(w)
    <3>1. CASE Owns(w) \/ Held(w).ev \in processed
      BY <2>9, <3>1, <2>0, <2>a DEF MarkProcessed, TypeOK, Goto, Stages
    <3>2. CASE ~(Owns(w) \/ Held(w).ev \in processed)
      <4>1. Stop(w) /\ UNCHANGED <<processed, claim>>
        BY <2>9, <3>2 DEF MarkProcessed
      <4>2. QED BY <2>9, <4>1 DEF MarkProcessed, Stop, TypeOK, Stages
    <3>3. QED BY <3>1, <3>2
  <2>10. CASE CommitOffset(w)
    BY <2>10 DEF CommitOffset, TypeOK, Goto, Stages
  <2>11. CASE Defer(w)
    <3>1. CASE ContinueOnDeferred /\ assigned = w
      <4>1. /\ pos' = off[w] - 1 /\ off' = [off EXCEPT ![w] = 0]
            /\ Goto(w, "idle") /\ UNCHANGED <<hb, assigned>>
        BY <2>11, <3>1 DEF Defer
      <4>2. pc[w] # "idle"
        BY <2>11 DEF Defer
      <4>3. UNCHANGED <<outboxVars, log, committed, highest, claimVars, sinkVars, bounds>>
        BY <2>11 DEF Defer
      <4>4. QED BY <2>0, <4>1, <4>2, <4>3 DEF TypeOK, Goto, Stages
    <3>2. CASE ~(ContinueOnDeferred /\ assigned = w)
      <4>1. Stop(w) /\ UNCHANGED pos
         BY <2>11, <3>2 DEF Defer
      <4>2. UNCHANGED <<outboxVars, log, committed, highest, claimVars, sinkVars, bounds>>
         BY <2>11 DEF Defer
      <4>3. QED BY <4>1, <4>2 DEF Stop, TypeOK, Stages
    <3>3. QED BY <3>1, <3>2
  <2>12. QED BY <1>5, <2>1, <2>2, <2>3, <2>4, <2>5, <2>6, <2>7, <2>8, <2>9, <2>10, <2>11
             DEF WorkerStep, HandleMessage
<1>6. ASSUME NEW w \in Workers, Heartbeat(w) PROVE TypeOK'
  <2>1. PICK e \in Events : e = Held(w).ev
    BY <1>6, HeldMessage DEF Heartbeat
  <2>2. claim[e] \in Claims
    BY DEF TypeOK
  <2>3. claim' \in [Events -> Claims]
    <3>1. \/ UNCHANGED claim
          \/ claim' = [claim EXCEPT ![e] = [owner |-> @.owner, state |-> "live"]]
      BY <1>6, <2>1 DEF Heartbeat
    <3>2. [owner |-> claim[e].owner, state |-> "live"] \in Claims
      BY <2>2 DEF Claims
    <3>3. QED BY <3>1, <3>2 DEF TypeOK
  <2>4. hb' \in [Workers -> {"off", "on", "failed"}]
    BY <1>6 DEF Heartbeat, TypeOK
  <2>5. QED BY <1>6, <2>3, <2>4 DEF Heartbeat, TypeOK
<1>7. ASSUME NEW w \in Workers, Failure(w) PROVE TypeOK'
  <2>a. ReleasedBy(w) \in [Events -> Claims] /\ OrphanedBy(w) \in [Events -> Claims]
    BY ClaimRows
  <2>1. CASE HeartbeatFails(w)
    BY <2>1 DEF HeartbeatFails, TypeOK
  <2>2. CASE HandlerCancelled(w)
    BY <2>2, <2>a DEF HandlerCancelled, Stop, TypeOK, Stages
  <2>3. CASE RequeueFails(w)
    BY <2>3, <2>a DEF RequeueFails, Stop, TypeOK, Stages
  <2>4. CASE WorkerDies(w)
    BY <2>4, <2>a DEF WorkerDies, Stop, TypeOK, Stages
  <2>5. QED BY <1>7, <2>1, <2>2, <2>3, <2>4 DEF Failure
<1>8. CASE UNCHANGED vars
  BY <1>8 DEF vars, TypeOK
<1>9. QED BY <1>1, <1>2, <1>3, <1>4, <1>5, <1>6, <1>7, <1>8 DEF Next

-----------------------------------------------------------------------------
(* The log only grows                                                      *)

\* A step leaves the log alone or appends one message to it.
LEMMA LogStep ==
  ASSUME TypeOK, PositionBound, [Next]_vars
  PROVE  UNCHANGED log \/ \E m \in Message : log' = Append(log, m)
<1>1. ASSUME NEW p \in Publishers, PublishRow(p)
      PROVE  \E m \in Message : log' = Append(log, m)
  <2>1. PICK e \in txn[p].rows \ txn[p].sent : log' = Append(log, [ev |-> e, att |-> 1])
    BY <1>1 DEF PublishRow
  <2>2. [ev |-> e, att |-> 1] \in Message
    BY <2>1 DEF TypeOK, Message
  <2>3. QED BY <2>1, <2>2
<1>2. ASSUME NEW w \in Workers, Requeue(w)
      PROVE  UNCHANGED log \/ \E m \in Message : log' = Append(log, m)
  <2>1. Held(w).ev \in Events /\ Held(w).att \in 1 .. MaxAttempts
    BY <1>2, HeldMessage DEF Requeue
  <2>2. \/ UNCHANGED log
        \/ /\ Held(w).att < MaxAttempts
           /\ log' = Append(log, [ev |-> Held(w).ev, att |-> Held(w).att + 1])
    BY <1>2 DEF Requeue
  <2>3. Held(w).att < MaxAttempts => [ev |-> Held(w).ev, att |-> Held(w).att + 1] \in Message
    BY <2>1 DEF Message
  <2>4. QED BY <2>2, <2>3
<1>3. ASSUME NEW e \in Events, AddOutbox(e) \/ ClaimExpires(e)
      PROVE  UNCHANGED log
  BY <1>3 DEF AddOutbox, ClaimExpires
<1>4. ASSUME NEW p \in Publishers,
             FetchUnpublished(p) \/ CommitPublished(p) \/ PublisherFails(p)
      PROVE  UNCHANGED log
  BY <1>4 DEF FetchUnpublished, CommitPublished, PublisherFails
<1>5. ASSUME NEW w \in Workers,
             \/ Assign(w) \/ Fetch(w) \/ CheckProcessed(w) \/ ClaimCheck(w)
             \/ ClaimInsert(w) \/ HandlerReturns(w) \/ HandlerRaises(w) \/ Release(w)
             \/ MarkProcessed(w) \/ CommitOffset(w) \/ Defer(w) \/ Heartbeat(w) \/ Failure(w)
      PROVE  UNCHANGED log
  BY <1>5 DEF Assign, Fetch, CheckProcessed, ClaimCheck, ClaimInsert, HandlerReturns,
              HandlerRaises, Release, MarkProcessed, CommitOffset, Defer, Heartbeat, Failure,
              HeartbeatFails, HandlerCancelled, RequeueFails, WorkerDies
<1>6. CASE UNCHANGED vars
  BY <1>6 DEF vars
<1>7. QED BY <1>1, <1>2, <1>3, <1>4, <1>5, <1>6
          DEF Next, PublisherStep, WorkerStep, HandleMessage

\* Messages keep their offsets.
LEMMA LogGrows ==
  ASSUME TypeOK, PositionBound, [Next]_vars
  PROVE  /\ Len(log) \in Nat /\ Len(log') \in Nat
         /\ Len(log) <= Len(log')
         /\ \A i \in 1 .. Len(log) : log'[i] = log[i]
<1>1. log \in Seq(Message)
  BY DEF TypeOK
<1>2. CASE UNCHANGED log
  BY <1>1, <1>2, LenProperties
<1>3. ASSUME NEW m \in Message, log' = Append(log, m)
      PROVE  /\ Len(log) \in Nat /\ Len(log') = Len(log) + 1
             /\ \A i \in 1 .. Len(log) : log'[i] = log[i]
  BY <1>1, <1>3, AppendProperties, LenProperties
<1>4. QED BY <1>2, <1>3, LogStep

-----------------------------------------------------------------------------
(* Positions                                                               *)

\* A consumer moves past a message only by committing it, so its position stays
\* within one message of the highest commit (Fetch, CommitOffset, Defer, Assign).
LEMMA PositionStep ==
  ASSUME TypeOK, PositionBound, [Next]_vars
  PROVE  PositionBound'
<1>0. /\ Len(log) \in Nat /\ Len(log') \in Nat /\ Len(log) <= Len(log')
  BY LogGrows
<1>1. ASSUME UNCHANGED <<committed, highest, pos, assigned, pc, off>>
      PROVE  PositionBound'
  BY <1>0, <1>1 DEF PositionBound, TypeOK
<1>2. ASSUME NEW w \in Workers, NEW stage \in Stages \ {"idle"}, pc[w] # "idle",
             Goto(w, stage), UNCHANGED <<committed, highest, pos, assigned, off>>
      PROVE  PositionBound'
  BY <1>0, <1>2 DEF PositionBound, TypeOK, Goto
<1>3. ASSUME NEW w \in Workers, Stop(w), UNCHANGED <<committed, highest, pos>>
      PROVE  PositionBound'
  BY <1>0, <1>3 DEF PositionBound, TypeOK, Stop
<1>4. ASSUME NEW e \in Events, AddOutbox(e) \/ ClaimExpires(e)
      PROVE  PositionBound'
  BY <1>1, <1>4 DEF AddOutbox, ClaimExpires
<1>5. ASSUME NEW p \in Publishers, PublisherStep(p) \/ PublisherFails(p)
      PROVE  PositionBound'
  BY <1>1, <1>5 DEF PublisherStep, PublisherFails, FetchUnpublished, PublishRow, CommitPublished
<1>6. ASSUME NEW w \in Workers, Assign(w)
      PROVE  PositionBound'
  BY <1>0, <1>6 DEF Assign, PositionBound, TypeOK
<1>7. ASSUME NEW w \in Workers, WorkerStep(w)
      PROVE  PositionBound'
  <2>1. CASE Fetch(w)
    <3>1. pos <= highest
      BY <2>1 DEF Fetch, PositionBound, TypeOK
    <3>2. QED BY <1>0, <2>1, <3>1 DEF Fetch, PositionBound, TypeOK
  <2>2. CASE CheckProcessed(w) \/ ClaimCheck(w) \/ Requeue(w) \/ Release(w)
    BY <1>2, <2>2 DEF CheckProcessed, ClaimCheck, Requeue, Release, Stages
  <2>3. CASE ClaimInsert(w)
    <3>1. \/ Goto(w, "defer") \/ Goto(w, "run")
      BY <2>3 DEF ClaimInsert
    <3>2. QED BY <1>2, <2>3, <3>1 DEF ClaimInsert, Stages
  <2>4. CASE HandlerReturns(w) \/ HandlerRaises(w)
    <3>1. \E stage \in {"mark", "requeue"} : StopHeartbeatThen(w, stage)
      BY <2>4 DEF HandlerReturns, HandlerRaises
    <3>2. \/ Stop(w)
          \/ \E stage \in {"mark", "requeue"} : Goto(w, stage) /\ UNCHANGED <<off, assigned>>
      BY <3>1 DEF StopHeartbeatThen
    <3>3. pc[w] # "idle" /\ UNCHANGED <<committed, highest, pos>>
      BY <2>4 DEF HandlerReturns, HandlerRaises
    <3>4. QED BY <1>2, <1>3, <3>2, <3>3 DEF Stages
  <2>5. CASE MarkProcessed(w)
    <3>1. Stop(w) \/ (Goto(w, "commit") /\ UNCHANGED <<off, assigned>>)
      BY <2>5 DEF MarkProcessed
    <3>2. QED BY <1>2, <1>3, <2>5, <3>1 DEF MarkProcessed, Stages
  <2>6. CASE CommitOffset(w)
    BY <1>0, <2>6 DEF CommitOffset, Goto, PositionBound, TypeOK
  <2>7. CASE Defer(w)
    <3>1. \/ Stop(w) /\ UNCHANGED pos
          \/ /\ pos' = off[w] - 1 /\ off' = [off EXCEPT ![w] = 0]
             /\ Goto(w, "idle") /\ UNCHANGED assigned
      BY <2>7 DEF Defer
    <3>2. UNCHANGED <<committed, highest>>
      BY <2>7 DEF Defer
    <3>3. CASE Stop(w) /\ UNCHANGED pos
      BY <1>3, <3>2, <3>3
    <3>4. CASE /\ pos' = off[w] - 1 /\ off' = [off EXCEPT ![w] = 0]
               /\ Goto(w, "idle") /\ UNCHANGED assigned
      BY <1>0, <3>2, <3>4, <2>7 DEF Defer, Goto, PositionBound, TypeOK
    <3>5. QED BY <3>1, <3>3, <3>4
  <2>8. QED BY <1>7, <2>1, <2>2, <2>3, <2>4, <2>5, <2>6, <2>7 DEF WorkerStep, HandleMessage
<1>8. ASSUME NEW w \in Workers, Heartbeat(w) \/ HeartbeatFails(w)
      PROVE  PositionBound'
  BY <1>1, <1>8 DEF Heartbeat, HeartbeatFails
<1>9. ASSUME NEW w \in Workers, HandlerCancelled(w) \/ RequeueFails(w) \/ WorkerDies(w)
      PROVE  PositionBound'
  BY <1>3, <1>9 DEF HandlerCancelled, RequeueFails, WorkerDies
<1>10. CASE UNCHANGED vars
  BY <1>1, <1>10 DEF vars
<1>11. QED BY <1>4, <1>5, <1>6, <1>7, <1>8, <1>9, <1>10 DEF Next, Failure


-----------------------------------------------------------------------------
(* Records only accumulate                                                 *)

\* What no step takes back.
Accumulates ==
  /\ \A e \in Events : outbox[e] # "none" => outbox'[e] # "none"
  /\ processed \subseteq processed' /\ dlq \subseteq dlq' /\ ran \subseteq ran'
  /\ highest' >= highest

\* No step unpublishes a row, forgets a record or lowers the highest commit.
LEMMA Accumulation ==
  ASSUME TypeOK, PositionBound, [Next]_vars
  PROVE  Accumulates
<1>1. ASSUME NEW e \in Events, AddOutbox(e) \/ ClaimExpires(e)
      PROVE  Accumulates
  BY <1>1 DEF AddOutbox, ClaimExpires, TypeOK, Accumulates
<1>2. ASSUME NEW p \in Publishers, PublisherStep(p) \/ PublisherFails(p)
      PROVE  Accumulates
  <2>1. \A e \in Events : outbox[e] # "none" => outbox'[e] # "none"
    BY <1>2 DEF PublisherStep, PublisherFails, FetchUnpublished, PublishRow, CommitPublished, TypeOK
  <2>2. UNCHANGED <<processed, dlq, ran, highest>>
    BY <1>2 DEF PublisherStep, PublisherFails, FetchUnpublished, PublishRow, CommitPublished
  <2>3. QED BY <2>1, <2>2 DEF Accumulates, TypeOK
<1>3. ASSUME NEW w \in Workers, Assign(w) \/ WorkerStep(w) \/ Heartbeat(w) \/ Failure(w)
      PROVE  Accumulates
  <2>1. UNCHANGED outbox
    BY <1>3 DEF Assign, WorkerStep, HandleMessage, Fetch, CheckProcessed, ClaimCheck, ClaimInsert,
       HandlerReturns, HandlerRaises, Requeue, Release, MarkProcessed, CommitOffset, Defer,
       Heartbeat, Failure, HeartbeatFails, HandlerCancelled, RequeueFails, WorkerDies
  <2>2. processed \subseteq processed'
    BY <1>3 DEF Assign, WorkerStep, HandleMessage, Fetch, CheckProcessed, ClaimCheck, ClaimInsert,
       HandlerReturns, HandlerRaises, Requeue, Release, MarkProcessed, CommitOffset, Defer,
       Heartbeat, Failure, HeartbeatFails, HandlerCancelled, RequeueFails, WorkerDies
  <2>3. dlq \subseteq dlq' /\ ran \subseteq ran'
    BY <1>3 DEF Assign, WorkerStep, HandleMessage, Fetch, CheckProcessed, ClaimCheck, ClaimInsert,
       HandlerReturns, HandlerRaises, Requeue, Release, MarkProcessed, CommitOffset, Defer,
       Heartbeat, Failure, HeartbeatFails, HandlerCancelled, RequeueFails, WorkerDies
  <2>4. highest' >= highest
    BY <1>3 DEF Assign, WorkerStep, HandleMessage, Fetch, CheckProcessed, ClaimCheck, ClaimInsert,
       HandlerReturns, HandlerRaises, Requeue, Release, MarkProcessed, CommitOffset, Defer,
       Heartbeat, Failure, HeartbeatFails, HandlerCancelled, RequeueFails, WorkerDies, TypeOK
  <2>5. QED BY <2>1, <2>2, <2>3, <2>4 DEF Accumulates
<1>4. CASE UNCHANGED vars
  BY <1>4 DEF vars, Accumulates, TypeOK
<1>5. QED BY <1>1, <1>2, <1>3, <1>4 DEF Next

-----------------------------------------------------------------------------
(* Nothing is lost                                                         *)

\* A step of one worker leaves the others where they are.
LEMMA OtherWorkers ==
  ASSUME TypeOK, NEW v \in Workers, NEW w \in Workers, v # w,
         WorkerStep(v) \/ Failure(v)
  PROVE  pc'[w] = pc[w] /\ off'[w] = off[w] /\ hb'[w] = hb[w]
<1>1. CASE Fetch(v) \/ CheckProcessed(v) \/ ClaimCheck(v) \/ Requeue(v) \/ Release(v)
           \/ CommitOffset(v) \/ HeartbeatFails(v)
  BY <1>1 DEF Fetch, CheckProcessed, ClaimCheck, Requeue, Release, CommitOffset,
              HeartbeatFails, Goto, TypeOK
<1>2. ASSUME Stop(v) PROVE pc'[w] = pc[w] /\ off'[w] = off[w] /\ hb'[w] = hb[w]
  BY <1>2 DEF Stop, TypeOK
<1>3. CASE HandlerCancelled(v) \/ RequeueFails(v) \/ WorkerDies(v)
  BY <1>2, <1>3 DEF HandlerCancelled, RequeueFails, WorkerDies
<1>4. CASE ClaimInsert(v)
  <2>1. /\ Goto(v, "defer") \/ Goto(v, "run")
        /\ UNCHANGED hb \/ hb' = [hb EXCEPT ![v] = "on"]
        /\ UNCHANGED off
    BY <1>4 DEF ClaimInsert
  <2>2. QED BY <2>1 DEF Goto, TypeOK
<1>5. CASE HandlerReturns(v) \/ HandlerRaises(v)
  <2>1. \/ Stop(v)
        \/ /\ Goto(v, "mark") \/ Goto(v, "requeue")
           /\ hb' = [hb EXCEPT ![v] = "off"]
           /\ UNCHANGED off
    BY <1>5 DEF HandlerReturns, HandlerRaises, StopHeartbeatThen
  <2>2. QED BY <1>2, <2>1 DEF Goto, TypeOK
<1>6. CASE MarkProcessed(v)
  <2>1. Stop(v) \/ (Goto(v, "commit") /\ UNCHANGED <<off, hb>>)
    BY <1>6 DEF MarkProcessed
  <2>2. QED BY <1>2, <2>1 DEF Goto, TypeOK
<1>7. CASE Defer(v)
  <2>1. \/ Stop(v)
        \/ Goto(v, "idle") /\ off' = [off EXCEPT ![v] = 0] /\ UNCHANGED hb
    BY <1>7 DEF Defer
  <2>2. QED BY <1>2, <2>1 DEF Goto, TypeOK
<1>8. QED BY <1>1, <1>3, <1>4, <1>5, <1>6, <1>7 DEF WorkerStep, HandleMessage, Failure

\* What a worker has settled or passed on stays so.
LEMMA MovedOnStep ==
  ASSUME TypeOK, PositionBound, MovedOn, [Next]_vars
  PROVE  MovedOn'
<1>0. /\ Len(log) \in Nat /\ Len(log') \in Nat /\ Len(log) <= Len(log')
      /\ \A i \in 1 .. Len(log) : log'[i] = log[i]
  BY LogGrows
<1>a. \A e : Settled(e) => Settled(e)'
  BY Accumulation DEF Accumulates, Settled
<1>1. ASSUME NEW w \in Workers, pc[w] \in {"release", "commit"}, off'[w] = off[w]
      PROVE  \/ Settled(Held(w).ev)'
             \/ \E j \in off'[w] + 1 .. Len(log') : log'[j].ev = Held(w)'.ev
  <2>1. off[w] \in 1 .. Len(log)
    BY <1>1 DEF PositionBound, TypeOK
  <2>2. Held(w)' = Held(w)
    BY <1>0, <1>1, <2>1 DEF Held
  <2>3. QED BY <1>0, <1>a, <1>1, <2>1, <2>2 DEF MovedOn
<1>2. ASSUME NEW w \in Workers, pc'[w] \in {"release", "commit"},
             \/ pc[w] \in {"release", "commit"} /\ off'[w] = off[w]
             \/ pc[w] = "check" /\ Held(w).ev \in processed /\ off'[w] = off[w]
             \/ pc[w] = "mark" /\ Held(w).ev \in processed' /\ off'[w] = off[w]
             \/ Requeue(w)
      PROVE  \/ Settled(Held(w).ev)'
             \/ \E j \in off'[w] + 1 .. Len(log') : log'[j].ev = Held(w)'.ev
  <2>1. pc[w] # "idle" /\ off[w] \in 1 .. Len(log) /\ off'[w] = off[w]
    BY <1>2 DEF PositionBound, TypeOK, Requeue
  <2>2. Held(w)' = Held(w)
    BY <1>0, <2>1 DEF Held
  <2>3. CASE pc[w] \in {"release", "commit"} /\ off'[w] = off[w]
    BY <1>1, <2>3
  <2>4. CASE Held(w).ev \in processed \/ Held(w).ev \in processed'
    BY <2>2, <2>4, Accumulation DEF Accumulates, Settled
  <2>5. CASE Requeue(w)
    <3>1. \/ Held(w).ev \in dlq'
          \/ log' = Append(log, [ev |-> Held(w).ev, att |-> Held(w).att + 1])
      BY <2>5 DEF Requeue
    <3>2. CASE Held(w).ev \in dlq'
      BY <2>2, <3>2 DEF Settled
    <3>3. CASE log' = Append(log, [ev |-> Held(w).ev, att |-> Held(w).att + 1])
      <4>1. Len(log') = Len(log) + 1 /\ log'[Len(log) + 1].ev = Held(w).ev
        BY <3>3 DEF TypeOK
      <4>2. QED BY <1>0, <2>1, <2>2, <4>1
    <3>4. QED BY <3>1, <3>2, <3>3
  <2>6. QED BY <1>2, <2>3, <2>4, <2>5
<1>3. ASSUME NEW w \in Workers, pc'[w] \in {"release", "commit"}
      PROVE  \/ pc[w] \in {"release", "commit"} /\ off'[w] = off[w]
             \/ pc[w] = "check" /\ Held(w).ev \in processed /\ off'[w] = off[w]
             \/ pc[w] = "mark" /\ Held(w).ev \in processed' /\ off'[w] = off[w]
             \/ Requeue(w)
  <2>1. CASE UNCHANGED <<pc, off>>
    BY <1>3, <2>1
  <2>2. ASSUME NEW v \in Workers, v # w, WorkerStep(v) \/ Failure(v)
        PROVE  pc[w] \in {"release", "commit"} /\ off'[w] = off[w]
    BY <1>3, <2>2, OtherWorkers
  <2>3. CASE WorkerStep(w)
    <3>1. ~Fetch(w) /\ ~ClaimCheck(w) /\ ~CommitOffset(w)
      BY <1>3 DEF Fetch, ClaimCheck, CommitOffset, Goto, TypeOK
    <3>2. ~ClaimInsert(w)
      <4>1. ClaimInsert(w) => Goto(w, "defer") \/ Goto(w, "run")
        BY DEF ClaimInsert
      <4>2. QED BY <1>3, <4>1 DEF Goto, TypeOK
    <3>3. ~HandlerReturns(w) /\ ~HandlerRaises(w)
      <4>1. HandlerReturns(w) => Stop(w) \/ Goto(w, "mark")
        BY DEF HandlerReturns, StopHeartbeatThen
      <4>2. HandlerRaises(w) => Stop(w) \/ Goto(w, "requeue")
        BY DEF HandlerRaises, StopHeartbeatThen
      <4>3. QED BY <1>3, <4>1, <4>2 DEF Goto, Stop, TypeOK
    <3>4. ~Defer(w)
      <4>1. Defer(w) => Stop(w) \/ Goto(w, "idle")
        BY DEF Defer
      <4>2. QED BY <1>3, <4>1 DEF Goto, Stop, TypeOK
    <3>5. CASE CheckProcessed(w)
      BY <1>3, <3>5 DEF CheckProcessed, Goto, TypeOK
    <3>6. CASE Release(w)
      BY <3>6 DEF Release
    <3>7. CASE MarkProcessed(w)
      <4>1. Stop(w) \/ (processed' = processed \cup {Held(w).ev} /\ UNCHANGED off)
        BY <3>7 DEF MarkProcessed
      <4>2. ~Stop(w)
        BY <1>3 DEF Stop, TypeOK
      <4>3. QED BY <3>7, <4>1, <4>2 DEF MarkProcessed
    <3>8. QED BY <2>3, <3>1, <3>2, <3>3, <3>4, <3>5, <3>6, <3>7 DEF WorkerStep, HandleMessage
  <2>4. CASE Failure(w)
    <3>1. Stop(w) \/ UNCHANGED <<pc, off>>
      BY <2>4 DEF Failure, HeartbeatFails, HandlerCancelled, RequeueFails, WorkerDies
    <3>2. QED BY <1>3, <2>1, <3>1 DEF Stop, TypeOK
  <2>5. ASSUME ~\E v \in Workers : WorkerStep(v) \/ Failure(v)
        PROVE  UNCHANGED <<pc, off>>
    BY <2>5 DEF Next, vars, AddOutbox, ClaimExpires, PublisherStep, PublisherFails,
       FetchUnpublished, PublishRow, CommitPublished, Assign, Heartbeat
  <2>6. QED BY <2>1, <2>2, <2>3, <2>4, <2>5
<1>4. SUFFICES ASSUME NEW w \in Workers, pc'[w] \in {"release", "commit"}
               PROVE  \/ Settled(Held(w).ev)'
                      \/ \E j \in off'[w] + 1 .. Len(log') : log'[j].ev = Held(w)'.ev
  BY DEF MovedOn
<1>5. QED BY <1>2, <1>3, <1>4

\* The highest committed offset advances by at most the message its worker
\* holds, which that worker has settled or passed on.
LEMMA OutstandingStep ==
  ASSUME TypeOK, PositionBound, MovedOn, Outstanding, [Next]_vars
  PROVE  Outstanding'
<1>0. /\ Len(log) \in Nat /\ Len(log') \in Nat /\ Len(log) <= Len(log')
      /\ \A i \in 1 .. Len(log) : log'[i] = log[i]
  BY LogGrows
<1>a. \A e : Settled(e) => Settled(e)'
  BY Accumulation DEF Accumulates, Settled
<1>1. ASSUME UNCHANGED highest
      PROVE  Outstanding'
  <2>1. SUFFICES ASSUME NEW i \in 1 .. Len(log')
                 PROVE  \/ Settled(log[i].ev)'
                        \/ \E j \in highest' + 1 .. Len(log') : log'[j].ev = log'[i].ev
    BY DEF Outstanding
  <2>2. CASE i \in 1 .. Len(log)
    <3>1. log'[i] = log[i]
      BY <1>0, <2>2
    <3>2. CASE Settled(log[i].ev)
      BY <3>1, <3>2, Accumulation DEF Accumulates, Settled
    <3>3. CASE \E j \in highest + 1 .. Len(log) : log[j].ev = log[i].ev
      <4>1. PICK j \in highest + 1 .. Len(log) : log[j].ev = log[i].ev
        BY <3>3
      <4>2. highest \in Nat /\ j \in 1 .. Len(log)
        BY <1>0, <4>1 DEF TypeOK
      <4>3. log'[j].ev = log'[i].ev /\ j \in highest' + 1 .. Len(log')
        BY <1>0, <1>1, <3>1, <4>1, <4>2
      <4>4. QED BY <4>3
    <3>4. QED BY <2>2, <3>2, <3>3 DEF Outstanding
  <2>3. CASE i \notin 1 .. Len(log)
    BY <1>0, <1>1, <2>3 DEF PositionBound, TypeOK
  <2>4. QED BY <2>2, <2>3
<1>2. ASSUME NEW w \in Workers, CommitOffset(w)
      PROVE  Outstanding'
  <2>1. UNCHANGED <<log, processed, dlq>>
    BY <1>2 DEF CommitOffset
  <2>2. \/ UNCHANGED highest
        \/ highest' = off[w] /\ off[w] = highest + 1
    <3>1. CASE assigned = w
      <4>1. pos <= highest \/ pos = off[w]
        BY <3>1 DEF PositionBound
      <4>2. committed' = pos
        BY <1>2, <3>1 DEF CommitOffset
      <4>3. off[w] <= highest + 1
        BY DEF PositionBound
      <4>4. QED BY <1>2, <4>1, <4>2, <4>3 DEF CommitOffset, TypeOK
    <3>2. CASE assigned # w
      BY <1>2, <3>2 DEF CommitOffset, PositionBound, TypeOK
    <3>3. QED BY <3>1, <3>2
  <2>3. CASE highest' = off[w] /\ off[w] = highest + 1
    <3>1. SUFFICES ASSUME NEW i \in 1 .. Len(log), ~Settled(log[i].ev)
                   PROVE  \E j \in highest' + 1 .. Len(log) : log[j].ev = log[i].ev
      BY <2>1 DEF Outstanding, Settled
    <3>2. PICK j \in highest + 1 .. Len(log) : log[j].ev = log[i].ev
      BY <3>1 DEF Outstanding
    <3>3. CASE j # off[w]
      BY <1>0, <2>3, <3>2, <3>3 DEF TypeOK
    <3>4. CASE j = off[w]
      <4>1. \E k \in off[w] + 1 .. Len(log) : log[k].ev = log[off[w]].ev
        BY <1>2, <3>1, <3>2, <3>4 DEF MovedOn, CommitOffset, Held
      <4>2. QED BY <2>3, <3>2, <3>4, <4>1
    <3>5. QED BY <3>3, <3>4
  <2>4. QED BY <1>1, <2>2, <2>3
<1>3. ASSUME NEW w \in Workers, Assign(w) \/ WorkerStep(w) \/ Heartbeat(w) \/ Failure(w),
             ~CommitOffset(w)
      PROVE  UNCHANGED highest
  BY <1>3 DEF Assign, WorkerStep, HandleMessage, Fetch, CheckProcessed, ClaimCheck, ClaimInsert,
     HandlerReturns, HandlerRaises, Requeue, Release, MarkProcessed, Defer,
     Heartbeat, Failure, HeartbeatFails, HandlerCancelled, RequeueFails, WorkerDies
<1>4. ASSUME ~\E w \in Workers : Assign(w) \/ WorkerStep(w) \/ Heartbeat(w) \/ Failure(w)
      PROVE  UNCHANGED highest
  BY <1>4 DEF Next, vars, AddOutbox, ClaimExpires, PublisherStep, PublisherFails,
     FetchUnpublished, PublishRow, CommitPublished
<1>5. QED BY <1>1, <1>2, <1>3, <1>4

\* Only sent rows are marked, and only accepted events are sent.
LEMMA SentStep ==
  ASSUME TypeOK, PositionBound, SentBeforeMarked, [Next]_vars
  PROVE  SentBeforeMarked'
<1>0. /\ Len(log) \in Nat /\ Len(log') \in Nat /\ Len(log) <= Len(log')
      /\ \A i \in 1 .. Len(log) : log'[i] = log[i]
  BY LogGrows
<1>a. \A e \in Events : outbox[e] # "none" => outbox'[e] # "none"
  BY Accumulation DEF Accumulates
<1>b. \A i \in 1 .. Len(log) : log[i].ev \in Events
  <2>1. \A i \in 1 .. Len(log) : log[i] \in Message
    BY ElementOfSeq DEF TypeOK
  <2>2. QED BY <2>1 DEF Message
<1>c. \A i \in 1 .. Len(log) : outbox'[log'[i].ev] # "none"
  BY <1>0, <1>a, <1>b DEF SentBeforeMarked
<1>1. ASSUME UNCHANGED <<log, txn>>,
             \A e \in Events : outbox'[e] = "published" => outbox[e] = "published"
      PROVE  SentBeforeMarked'
  <2>1. \A p \in Publishers : \A e \in txn'[p].rows : outbox'[e] # "none"
    BY <1>a, <1>1 DEF SentBeforeMarked, TypeOK
  <2>2. QED BY <1>1, <1>c, <2>1 DEF SentBeforeMarked
<1>2. ASSUME NEW e \in Events, AddOutbox(e) \/ ClaimExpires(e)
      PROVE  SentBeforeMarked'
  BY <1>1, <1>2 DEF AddOutbox, ClaimExpires, TypeOK
<1>3. ASSUME NEW p \in Publishers, FetchUnpublished(p)
      PROVE  SentBeforeMarked'
  <2>1. PICK batch \in SUBSET Fetchable : txn' = [txn EXCEPT ![p] = [rows |-> batch, sent |-> {}]]
    BY <1>3 DEF FetchUnpublished
  <2>2. UNCHANGED <<log, outbox>>
    BY <1>3 DEF FetchUnpublished
  <2>3. QED BY <2>1, <2>2 DEF SentBeforeMarked, Fetchable, TypeOK
<1>4. ASSUME NEW p \in Publishers, PublishRow(p)
      PROVE  SentBeforeMarked'
  <2>1. PICK e \in txn[p].rows \ txn[p].sent :
          /\ log' = Append(log, [ev |-> e, att |-> 1])
          /\ txn' = [txn EXCEPT ![p] = [rows |-> @.rows, sent |-> @.sent \cup {e}]]
    BY <1>4 DEF PublishRow
  <2>2. UNCHANGED outbox
    BY <1>4 DEF PublishRow
  <2>3. Len(log') = Len(log) + 1 /\ log'[Len(log) + 1].ev = e
    BY <2>1 DEF TypeOK
  <2>4. outbox[e] # "none"
    BY <2>1 DEF SentBeforeMarked
  <2>5. \A i \in 1 .. Len(log') : outbox'[log'[i].ev] # "none"
    BY <1>0, <1>c, <2>2, <2>3, <2>4
  <2>6. \A q \in Publishers : \A f \in txn'[q].rows : outbox'[f] # "none"
    BY <2>1, <2>2 DEF SentBeforeMarked, TypeOK
  <2>7. \A f : (\E i \in 1 .. Len(log) : log[i].ev = f)
                 => \E i \in 1 .. Len(log') : log'[i].ev = f
    BY <1>0
  <2>8. \A q \in Publishers : \A f \in txn'[q].sent : f \in txn[q].sent \/ f = e
    BY <2>1 DEF TypeOK
  <2>9. \E i \in 1 .. Len(log') : log'[i].ev = e
    BY <1>0, <2>3
  <2>10. QED BY <2>2, <2>5, <2>6, <2>7, <2>8, <2>9 DEF SentBeforeMarked
<1>5. ASSUME NEW p \in Publishers, CommitPublished(p) \/ PublisherFails(p)
      PROVE  SentBeforeMarked'
  <2>1. UNCHANGED log /\ txn' = [txn EXCEPT ![p] = [rows |-> {}, sent |-> {}]]
    BY <1>5 DEF CommitPublished, PublisherFails
  <2>2. \A e \in Events : outbox'[e] = "published" =>
          outbox[e] = "published" \/ e \in txn[p].sent
    BY <1>5 DEF CommitPublished, PublisherFails, TypeOK
  <2>3. \A q \in Publishers : txn'[q].rows \subseteq txn[q].rows /\ txn'[q].sent \subseteq txn[q].sent
    BY <2>1 DEF TypeOK
  <2>4. \A q \in Publishers : \A f \in txn'[q].rows : outbox'[f] # "none"
    BY <1>a, <2>3 DEF SentBeforeMarked, TypeOK
  <2>5. QED BY <1>c, <2>1, <2>2, <2>3, <2>4 DEF SentBeforeMarked
<1>6. ASSUME NEW w \in Workers, Assign(w) \/ WorkerStep(w) \/ Heartbeat(w) \/ Failure(w)
      PROVE  SentBeforeMarked'
  <2>1. UNCHANGED <<outbox, txn>>
    BY <1>6 DEF Assign, WorkerStep, HandleMessage, Fetch, CheckProcessed, ClaimCheck, ClaimInsert,
       HandlerReturns, HandlerRaises, Requeue, Release, MarkProcessed, CommitOffset, Defer,
       Heartbeat, Failure, HeartbeatFails, HandlerCancelled, RequeueFails, WorkerDies
  <2>2. CASE UNCHANGED log
    BY <1>1, <2>1, <2>2
  <2>3. CASE ~UNCHANGED log
    <3>1. Requeue(w)
      BY <1>6, <2>3 DEF Assign, WorkerStep, HandleMessage, Fetch, CheckProcessed, ClaimCheck,
         ClaimInsert, HandlerReturns, HandlerRaises, Release, MarkProcessed, CommitOffset, Defer,
         Heartbeat, Failure, HeartbeatFails, HandlerCancelled, RequeueFails, WorkerDies
    <3>2. log' = Append(log, [ev |-> Held(w).ev, att |-> Held(w).att + 1])
      BY <2>3, <3>1 DEF Requeue
    <3>3. off[w] \in 1 .. Len(log)
      BY <3>1, HeldMessage DEF Requeue
    <3>4. Len(log') = Len(log) + 1 /\ log'[Len(log) + 1].ev = log[off[w]].ev
      BY <3>2 DEF TypeOK, Held
    <3>5. \A i \in 1 .. Len(log') : outbox'[log'[i].ev] # "none"
      BY <1>0, <1>c, <2>1, <3>3, <3>4 DEF SentBeforeMarked
    <3>6. \A f : (\E i \in 1 .. Len(log) : log[i].ev = f)
                   => \E i \in 1 .. Len(log') : log'[i].ev = f
      BY <1>0
    <3>7. QED BY <2>1, <3>5, <3>6 DEF SentBeforeMarked
  <2>4. QED BY <2>2, <2>3
<1>7. CASE UNCHANGED vars
  BY <1>1, <1>7 DEF vars
<1>8. QED BY <1>2, <1>3, <1>4, <1>5, <1>6, <1>7 DEF Next, PublisherStep

-----------------------------------------------------------------------------
(* Execution precedes recording                                            *)

\* mark_processed follows a handler that returned, and handlers run only on
\* events whose outbox row was committed.
LEMMA ExecutedStep ==
  ASSUME TypeOK, PositionBound, SentBeforeMarked, ExecutedFirst, [Next]_vars
  PROVE  ExecutedFirst'
<1>0. /\ Len(log) \in Nat /\ Len(log') \in Nat /\ Len(log) <= Len(log')
      /\ \A i \in 1 .. Len(log) : log'[i] = log[i]
  BY LogGrows
<1>a. Accumulates
  BY Accumulation
<1>b. ASSUME NEW w \in Workers, pc[w] # "idle", off'[w] = off[w]
      PROVE  Held(w)' = Held(w)
  BY <1>0, <1>b, HeldMessage DEF Held
<1>c. ASSUME NEW w \in Workers, pc[w] # "idle"
      PROVE  Held(w).ev \in Events /\ outbox'[Held(w).ev] # "none"
  BY <1>a, <1>c, HeldMessage DEF Accumulates, SentBeforeMarked, Held
<1>d. \A e \in ran \cup dlq : outbox'[e] # "none"
  BY <1>a DEF Accumulates, ExecutedFirst, TypeOK
<1>e. ASSUME NEW w \in Workers, pc[w] = "mark", off'[w] = off[w]
      PROVE  Held(w)'.ev \in ran'
  BY <1>a, <1>b, <1>e DEF Accumulates, ExecutedFirst
<1>1. ASSUME UNCHANGED <<processed, ran, dlq>>,
             \A w \in Workers : pc'[w] = "mark" => pc[w] = "mark" /\ off'[w] = off[w]
      PROVE  ExecutedFirst'
  BY <1>d, <1>e, <1>1 DEF ExecutedFirst
<1>2. ASSUME NEW w \in Workers, WorkerStep(w) \/ Failure(w)
      PROVE  ExecutedFirst'
  <2>1. \A v \in Workers : v # w => pc'[v] = pc[v] /\ off'[v] = off[v]
    BY <1>2, OtherWorkers
  <2>2. ASSUME UNCHANGED <<processed, ran, dlq>>, pc'[w] # "mark"
        PROVE  ExecutedFirst'
    BY <1>1, <2>1, <2>2
  <2>3. CASE Fetch(w) \/ CheckProcessed(w) \/ ClaimCheck(w) \/ Release(w) \/ CommitOffset(w)
    BY <2>2, <2>3 DEF Fetch, CheckProcessed, ClaimCheck, Release, CommitOffset, Goto, TypeOK
  <2>4. CASE ClaimInsert(w)
    <3>1. Goto(w, "defer") \/ Goto(w, "run")
      BY <2>4 DEF ClaimInsert
    <3>2. QED BY <2>2, <2>4, <3>1 DEF ClaimInsert, Goto, TypeOK
  <2>5. CASE HandlerRaises(w)
    <3>1. Stop(w) \/ Goto(w, "requeue")
      BY <2>5 DEF HandlerRaises, StopHeartbeatThen
    <3>2. QED BY <2>2, <2>5, <3>1 DEF HandlerRaises, Goto, Stop, TypeOK
  <2>6. CASE Defer(w)
    <3>1. Stop(w) \/ Goto(w, "idle")
      BY <2>6 DEF Defer
    <3>2. QED BY <2>2, <2>6, <3>1 DEF Defer, Goto, Stop, TypeOK
  <2>7. CASE Failure(w)
    <3>1. UNCHANGED <<processed, ran, dlq>>
      BY <2>7 DEF Failure, HeartbeatFails, HandlerCancelled, RequeueFails, WorkerDies
    <3>2. pc'[w] # "mark"
      BY <2>7 DEF Failure, HeartbeatFails, HandlerCancelled, RequeueFails, WorkerDies, Stop, TypeOK
    <3>3. QED BY <2>2, <3>1, <3>2
  <2>8. CASE HandlerReturns(w)
    <3>1. ran' = ran \cup {Held(w).ev} /\ UNCHANGED <<processed, dlq>> /\ pc[w] # "idle"
      BY <2>8 DEF HandlerReturns
    <3>2. Stop(w) \/ (Goto(w, "mark") /\ UNCHANGED off)
      BY <2>8 DEF HandlerReturns, StopHeartbeatThen
    <3>3. pc'[w] = "mark" => Held(w)' = Held(w)
      BY <1>b, <3>1, <3>2 DEF Stop, TypeOK
    <3>4. \A v \in Workers : pc'[v] = "mark" => Held(v)'.ev \in ran'
      BY <1>e, <2>1, <3>1, <3>3
    <3>5. \A e \in ran' \cup dlq' : outbox'[e] # "none"
      BY <1>c, <1>d, <3>1
    <3>6. QED BY <3>1, <3>4, <3>5 DEF ExecutedFirst
  <2>9. CASE Requeue(w)
    <3>1. /\ dlq' \subseteq dlq \cup {Held(w).ev} /\ UNCHANGED <<processed, ran>>
          /\ pc[w] # "idle"
      BY <2>9 DEF Requeue
    <3>2. pc'[w] = "release"
      BY <2>9 DEF Requeue, Goto, TypeOK
    <3>3. \A v \in Workers : pc'[v] = "mark" => Held(v)'.ev \in ran'
      BY <1>e, <2>1, <3>2
    <3>4. \A e \in ran' \cup dlq' : outbox'[e] # "none"
      BY <1>c, <1>d, <3>1
    <3>5. QED BY <3>1, <3>3, <3>4 DEF ExecutedFirst
  <2>10. CASE MarkProcessed(w)
    <3>1. /\ UNCHANGED <<ran, dlq>> /\ pc[w] = "mark"
          /\ processed' \subseteq processed \cup {Held(w).ev}
      BY <2>10 DEF MarkProcessed
    <3>2. Stop(w) \/ Goto(w, "commit")
      BY <2>10 DEF MarkProcessed
    <3>3. pc'[w] # "mark"
      BY <3>2 DEF Stop, Goto, TypeOK
    <3>4. \A v \in Workers : pc'[v] = "mark" => Held(v)'.ev \in ran'
      BY <1>e, <2>1, <3>3
    <3>5. QED BY <1>d, <3>1, <3>4 DEF ExecutedFirst
  <2>11. QED BY <1>2, <2>3, <2>4, <2>5, <2>6, <2>7, <2>8, <2>9, <2>10 DEF WorkerStep, HandleMessage
<1>3. ASSUME ~\E w \in Workers : WorkerStep(w) \/ Failure(w)
      PROVE  ExecutedFirst'
  <2>1. UNCHANGED <<pc, off, processed, ran, dlq>>
    BY <1>3 DEF Next, vars, AddOutbox, ClaimExpires, PublisherStep, PublisherFails,
       FetchUnpublished, PublishRow, CommitPublished, Assign, Heartbeat
  <2>2. QED BY <1>1, <2>1
<1>4. QED BY <1>2, <1>3

-----------------------------------------------------------------------------
(* Claims                                                                  *)

\* A claim row is owned by the worker that is handling its event, and a heartbeat
\* without stalls keeps that claim live.
LEMMA ClaimStep ==
  ASSUME TypeOK, PositionBound, ClaimHeld, [Next]_vars
  PROVE  ClaimHeld'
<1> DEFINE Busy == {"run", "requeue", "release", "mark"}
<1>0. /\ Len(log) \in Nat /\ \A i \in 1 .. Len(log) : log'[i] = log[i]
  BY LogGrows
<1>a. ASSUME NEW w \in Workers, pc[w] # "idle", off'[w] = off[w]
      PROVE  Held(w)' = Held(w)
  BY <1>0, <1>a, HeldMessage DEF Held
<1>b. ASSUME NEW w \in Workers, pc[w] # "idle"
      PROVE  Held(w).ev \in Events
  BY <1>b, HeldMessage
<1>c. /\ \A w \in Workers : hb[w] # "off" => pc[w] = "run"
      /\ \A e \in Events, w \in Workers : claim[e].owner = w =>
           pc[w] \in Busy /\ Held(w).ev = e
      /\ stalls = 0 => \A w \in Workers :
           hb[w] = "on" => claim[Held(w).ev] = [owner |-> w, state |-> "live"]
  BY DEF ClaimHeld
<1>d. stalls' = stalls \/ stalls' = stalls + 1
  BY DEF Next, vars, AddOutbox, ClaimExpires, PublisherStep, PublisherFails,
     FetchUnpublished, PublishRow, CommitPublished, Assign, Heartbeat, WorkerStep,
     HandleMessage, Fetch, CheckProcessed, ClaimCheck, ClaimInsert, HandlerReturns,
     HandlerRaises, Requeue, Release, MarkProcessed, CommitOffset, Defer, Failure,
     HeartbeatFails, HandlerCancelled, RequeueFails, WorkerDies, TypeOK
<1>e. stalls' = 0 => stalls = 0
  BY <1>d DEF TypeOK
\* No worker moves.
<1>1. ASSUME UNCHANGED <<pc, off, hb, claim>>
      PROVE  ClaimHeld'
  <2>1. \A w \in Workers : pc[w] # "idle" => Held(w)' = Held(w)
    BY <1>a, <1>1
  <2>2. QED BY <1>1, <1>c, <1>e, <2>1 DEF ClaimHeld
\* One worker moves between stages or stops, and its own row is kept, deleted
\* or orphaned accordingly.
<1>2. ASSUME NEW w \in Workers,
             \A v \in Workers \ {w} : pc'[v] = pc[v] /\ off'[v] = off[v] /\ hb'[v] = hb[v],
             hb'[w] = "off" \/ (pc'[w] = "run" /\ UNCHANGED hb),
             \A e \in Events : claim[e].owner # w => claim'[e] = claim[e],
             \/ /\ UNCHANGED claim /\ off'[w] = off[w]
                /\ (\E e \in Events : claim[e].owner = w) => pc'[w] \in Busy
             \/ /\ \A e \in Events : claim[e].owner = w => claim'[e].owner = NoWorker
                /\ hb'[w] = "off"
             \/ /\ \A e \in Events : claim[e].owner # w
                /\ hb'[w] = "off"
      PROVE  ClaimHeld'
  <2>1. \A v \in Workers \ {w} : pc[v] # "idle" => Held(v)' = Held(v)
    BY <1>a, <1>2
  <2>2. \A v \in Workers : hb'[v] # "off" => pc'[v] = "run"
    BY <1>2, <1>c
  <2>3. ASSUME NEW e \in Events, NEW v \in Workers, claim'[e].owner = v
        PROVE  pc'[v] \in Busy /\ Held(v)'.ev = e
    <3>1. CASE claim[e].owner # w
      BY <1>2, <1>c, <2>1, <2>3, <3>1
    <3>2. CASE claim[e].owner = w
      <4>1. UNCHANGED claim /\ off'[w] = off[w] /\ pc'[w] \in Busy
        BY <1>2, <2>3, <3>2
      <4>2. Held(w)' = Held(w) /\ Held(w).ev = e
        BY <1>a, <1>c, <3>2, <4>1
      <4>3. QED BY <2>3, <3>2, <4>1, <4>2
    <3>3. QED BY <3>1, <3>2
  <2>4. ASSUME stalls' = 0, NEW v \in Workers, hb'[v] = "on"
        PROVE  claim'[Held(v)'.ev] = [owner |-> v, state |-> "live"]
    <3>1. CASE v # w
      <4>1. hb[v] = "on" /\ pc[v] = "run" /\ Held(v)' = Held(v) /\ Held(v).ev \in Events
        BY <1>2, <1>c, <1>b, <2>1, <2>4, <3>1
      <4>2. claim[Held(v).ev] = [owner |-> v, state |-> "live"]
        BY <1>c, <1>e, <2>4, <4>1
      <4>3. claim[Held(v).ev].owner # w
        BY <4>2, <3>1
      <4>4. QED BY <1>2, <4>1, <4>2, <4>3
    <3>2. CASE v = w
      <4>1. UNCHANGED claim /\ off'[w] = off[w] /\ hb[w] = "on" /\ pc[w] = "run"
        BY <1>2, <1>c, <2>4, <3>2
      <4>2. Held(w)' = Held(w)
        BY <1>a, <4>1
      <4>3. QED BY <1>c, <1>e, <2>4, <3>2, <4>1, <4>2
    <3>3. QED BY <3>1, <3>2
  <2>5. QED BY <2>2, <2>3, <2>4 DEF ClaimHeld
<1>3. ASSUME NEW w \in Workers, Stop(w),
             \/ claim' = OrphanedBy(w)
             \/ claim' = ReleasedBy(w)
             \/ UNCHANGED claim /\ \A e \in Events : claim[e].owner # w
      PROVE  ClaimHeld'
  <2>1. \A v \in Workers \ {w} : pc'[v] = pc[v] /\ off'[v] = off[v] /\ hb'[v] = hb[v]
    BY <1>3 DEF Stop, TypeOK
  <2>2. hb'[w] = "off"
    BY <1>3 DEF Stop, TypeOK
  <2>3. \A e \in Events : claim[e].owner # w => claim'[e] = claim[e]
    BY <1>3 DEF OrphanedBy, ReleasedBy
  <2>4. \/ \A e \in Events : claim[e].owner = w => claim'[e].owner = NoWorker
        \/ \A e \in Events : claim[e].owner # w
    BY <1>3 DEF OrphanedBy, ReleasedBy, NoClaim
  <2>5. QED BY <1>2, <2>1, <2>2, <2>3, <2>4
<1>4. ASSUME NEW e \in Events, ClaimExpires(e)
      PROVE  ClaimHeld'
  <2>1. /\ claim' = [claim EXCEPT ![e] = [owner |-> @.owner, state |-> "expired"]]
        /\ UNCHANGED <<pc, off, hb, log>>
        /\ stalls' = 0 => ~Heartbeating(e)
    BY <1>4 DEF ClaimExpires, TypeOK
  <2>2. \A f \in Events : claim'[f].owner = claim[f].owner
    BY <2>1 DEF TypeOK
  <2>3. \A w \in Workers : Held(w)' = Held(w)
    BY <2>1 DEF Held
  <2>4. ASSUME stalls' = 0, NEW v \in Workers, hb'[v] = "on"
        PROVE  claim'[Held(v)'.ev] = [owner |-> v, state |-> "live"]
    <3>1. claim[Held(v).ev] = [owner |-> v, state |-> "live"] /\ hb[v] = "on"
      BY <1>c, <1>e, <2>1, <2>4
    <3>2. Held(v).ev # e
      BY <2>1, <2>4, <3>1 DEF Heartbeating
    <3>3. QED BY <1>b, <1>c, <2>1, <2>3, <3>1, <3>2 DEF TypeOK
  <2>5. QED BY <1>c, <2>1, <2>2, <2>3, <2>4 DEF ClaimHeld
<1>5. ASSUME NEW w \in Workers, ClaimInsert(w)
      PROVE  ClaimHeld'
  <2>0. pc[w] = "claim_insert" /\ UNCHANGED <<off, log, stalls>>
    BY <1>5 DEF ClaimInsert
  <2>1. \A e \in Events : claim[e].owner # w
    BY <1>c, <2>0
  <2>2. CASE Goto(w, "defer") /\ UNCHANGED <<claim, hb>>
    BY <1>2, <1>c, <2>0, <2>1, <2>2 DEF Goto, TypeOK
  <2>3. CASE /\ claim[Held(w).ev].state # "live"
             /\ claim' = [claim EXCEPT ![Held(w).ev] = [owner |-> w, state |-> "live"]]
             /\ hb' = [hb EXCEPT ![w] = "on"]
             /\ Goto(w, "run")
    <3>1. Held(w).ev \in Events /\ \A v \in Workers : Held(v)' = Held(v)
      BY <1>b, <2>0 DEF Held
    <3>2. \A v \in Workers : hb'[v] # "off" => pc'[v] = "run"
      BY <1>c, <2>3 DEF Goto, TypeOK
    <3>3. ASSUME NEW e \in Events, NEW v \in Workers, claim'[e].owner = v
          PROVE  pc'[v] \in Busy /\ Held(v)'.ev = e
      <4>1. CASE e = Held(w).ev
        <5>1. v = w
          BY <2>3, <3>1, <3>3, <4>1 DEF TypeOK
        <5>2. QED BY <2>3, <3>1, <4>1, <5>1 DEF Goto, TypeOK
      <4>2. CASE e # Held(w).ev
        <5>1. claim[e].owner = v
          BY <2>3, <3>3, <4>2 DEF TypeOK
        <5>2. pc[v] \in Busy /\ Held(v).ev = e /\ v # w
          BY <1>c, <2>1, <5>1
        <5>3. pc'[v] = pc[v]
          BY <2>3, <5>2 DEF Goto, TypeOK
        <5>4. QED BY <3>1, <5>2, <5>3
      <4>3. QED BY <4>1, <4>2
    <3>4. ASSUME stalls' = 0, NEW v \in Workers, hb'[v] = "on"
          PROVE  claim'[Held(v)'.ev] = [owner |-> v, state |-> "live"]
      <4>1. CASE v = w
        BY <2>3, <3>1, <4>1 DEF TypeOK
      <4>2. CASE v # w
        <5>1. hb[v] = "on" /\ pc[v] = "run"
          BY <1>c, <2>3, <3>4, <4>2 DEF TypeOK
        <5>2. claim[Held(v).ev] = [owner |-> v, state |-> "live"] /\ Held(v).ev \in Events
          BY <1>b, <1>c, <1>e, <3>4, <5>1
        <5>3. Held(v).ev # Held(w).ev
          BY <2>3, <5>2
        <5>4. QED BY <2>3, <3>1, <5>2, <5>3 DEF TypeOK
      <4>3. QED BY <4>1, <4>2
    <3>5. QED BY <3>2, <3>3, <3>4 DEF ClaimHeld
  <2>4. QED BY <1>5, <2>2, <2>3 DEF ClaimInsert
<1>6. ASSUME NEW w \in Workers, Heartbeat(w)
      PROVE  ClaimHeld'
  <2>0. pc[w] = "run" /\ hb[w] = "on" /\ UNCHANGED <<pc, off, log, stalls>> /\ Held(w).ev \in Events
    BY <1>6, <1>b DEF Heartbeat
  <2>1. CASE hb' = [hb EXCEPT ![w] = "off"] /\ UNCHANGED claim
    BY <1>2, <1>c, <2>0, <2>1 DEF TypeOK
  <2>2. CASE /\ Owns(w) /\ UNCHANGED hb /\ claim[Held(w).ev].state = "expired"
             /\ claim' = [claim EXCEPT ![Held(w).ev] = [owner |-> @.owner, state |-> "live"]]
    <3>1. \A v \in Workers : Held(v)' = Held(v)
      BY <2>0 DEF Held
    <3>2. \A f \in Events : claim'[f].owner = claim[f].owner
      BY <2>0, <2>2 DEF TypeOK
    <3>3. stalls' # 0
      <4>1. claim[Held(w).ev] # [owner |-> w, state |-> "live"]
        BY <2>2
      <4>2. QED BY <1>c, <1>e, <2>0, <4>1
    <3>4. QED BY <1>c, <2>0, <2>2, <3>1, <3>2, <3>3 DEF ClaimHeld
  <2>3. QED BY <1>6, <2>1, <2>2 DEF Heartbeat
<1>7. ASSUME NEW w \in Workers, HeartbeatFails(w)
      PROVE  ClaimHeld'
  <2>1. /\ pc[w] = "run" /\ UNCHANGED <<pc, off, log, claim, stalls>>
        /\ hb' = [hb EXCEPT ![w] = "failed"]
    BY <1>7 DEF HeartbeatFails
  <2>2. \A v \in Workers : Held(v)' = Held(v)
    BY <2>1 DEF Held
  <2>3. \A v \in Workers :
          /\ hb'[v] # "off" => pc'[v] = "run"
          /\ hb'[v] = "on" => hb[v] = "on"
    BY <1>c, <2>1 DEF TypeOK
  <2>4. QED BY <1>c, <2>1, <2>2, <2>3 DEF ClaimHeld
<1>8. ASSUME NEW w \in Workers,
             \/ HandlerCancelled(w) \/ RequeueFails(w) \/ WorkerDies(w)
      PROVE  ClaimHeld'
  BY <1>3, <1>8 DEF HandlerCancelled, RequeueFails, WorkerDies
<1>9. ASSUME NEW w \in Workers, WorkerStep(w)
      PROVE  ClaimHeld'
  <2>0. \A v \in Workers \ {w} : pc'[v] = pc[v] /\ off'[v] = off[v] /\ hb'[v] = hb[v]
    BY <1>9, OtherWorkers
  <2>1. ASSUME pc[w] \notin Busy
        PROVE  hb[w] = "off" /\ \A e \in Events : claim[e].owner # w
    BY <1>c, <2>1 DEF TypeOK
  <2>2. CASE Fetch(w)
    BY <1>2, <2>0, <2>1, <2>2 DEF Fetch
  <2>3. CASE CheckProcessed(w) \/ ClaimCheck(w) \/ CommitOffset(w)
    BY <1>2, <2>0, <2>1, <2>3 DEF CheckProcessed, ClaimCheck, CommitOffset
  <2>4. CASE Defer(w)
    <3>1. pc[w] = "defer" /\ UNCHANGED claim
      BY <2>4 DEF Defer
    <3>2. Stop(w) \/ UNCHANGED hb
      BY <2>4 DEF Defer
    <3>3. QED BY <1>2, <1>3, <2>0, <2>1, <3>1, <3>2
  <2>5. CASE ClaimInsert(w)
    BY <1>5, <2>5
  <2>6. CASE HandlerReturns(w) \/ HandlerRaises(w)
    <3>1. \/ Stop(w) /\ claim' = OrphanedBy(w)
          \/ /\ Goto(w, "mark") \/ Goto(w, "requeue")
             /\ hb' = [hb EXCEPT ![w] = "off"]
             /\ UNCHANGED <<claim, off>>
      BY <2>6 DEF HandlerReturns, HandlerRaises, StopHeartbeatThen
    <3>2. CASE Stop(w) /\ claim' = OrphanedBy(w)
      BY <1>3, <3>2
    <3>3. CASE /\ Goto(w, "mark") \/ Goto(w, "requeue")
               /\ hb' = [hb EXCEPT ![w] = "off"]
               /\ UNCHANGED <<claim, off>>
      <4>1. pc'[w] \in Busy /\ hb'[w] = "off"
        BY <3>3 DEF Goto, TypeOK
      <4>2. QED BY <1>2, <2>0, <3>3, <4>1
    <3>4. QED BY <3>1, <3>2, <3>3
  <2>7. CASE Requeue(w)
    <3>1. pc'[w] = "release" /\ UNCHANGED <<hb, claim, off>> /\ pc[w] = "requeue"
      BY <2>7 DEF Requeue, Goto, TypeOK
    <3>2. hb'[w] = "off"
      BY <1>c, <3>1
    <3>3. QED BY <1>2, <2>0, <3>1, <3>2
  <2>8. CASE Release(w)
    <3>1. claim' = ReleasedBy(w) /\ pc[w] = "release" /\ UNCHANGED hb
      BY <2>8 DEF Release
    <3>2. hb'[w] = "off"
      BY <1>c, <3>1
    <3>3. \A e \in Events :
            /\ claim[e].owner # w => claim'[e] = claim[e]
            /\ claim[e].owner = w => claim'[e].owner = NoWorker
      BY <3>1 DEF ReleasedBy, NoClaim
    <3>4. QED BY <1>2, <2>0, <3>2, <3>3
  <2>9. CASE MarkProcessed(w)
    <3>0. pc[w] = "mark" /\ hb[w] = "off"
      BY <1>c, <2>9 DEF MarkProcessed
    <3>1. \/ claim' = ReleasedBy(w) /\ UNCHANGED hb
          \/ Stop(w) /\ UNCHANGED claim /\ ~Owns(w)
      BY <2>9 DEF MarkProcessed
    <3>2. CASE claim' = ReleasedBy(w) /\ UNCHANGED hb
      <4>1. \A e \in Events :
              /\ claim[e].owner # w => claim'[e] = claim[e]
              /\ claim[e].owner = w => claim'[e].owner = NoWorker
        BY <3>2 DEF ReleasedBy, NoClaim
      <4>2. QED BY <1>2, <2>0, <3>0, <3>2, <4>1
    <3>3. CASE Stop(w) /\ UNCHANGED claim /\ ~Owns(w)
      <4>1. \A e \in Events : claim[e].owner # w
        BY <1>c, <3>3 DEF Owns
      <4>2. QED BY <1>3, <3>3, <4>1
    <3>4. QED BY <3>1, <3>2, <3>3
  <2>10. QED BY <1>9, <2>2, <2>3, <2>4, <2>5, <2>6, <2>7, <2>8, <2>9 DEF WorkerStep, HandleMessage
<1>10. ASSUME ~\E w \in Workers : WorkerStep(w) \/ Failure(w) \/ Heartbeat(w),
              ~\E e \in Events : ClaimExpires(e)
       PROVE  ClaimHeld'
  <2>1. UNCHANGED <<pc, off, hb, claim>>
    BY <1>10 DEF Next, vars, AddOutbox, PublisherStep, PublisherFails,
       FetchUnpublished, PublishRow, CommitPublished, Assign
  <2>2. QED BY <1>1, <2>1
<1>11. QED BY <1>4, <1>6, <1>7, <1>8, <1>9, <1>10 DEF Failure

-----------------------------------------------------------------------------
(* Attempts                                                                *)

\* Requeue extends the chain of attempts by one, or ends it at the last one.
LEMMA RetryStep ==
  ASSUME TypeOK, PositionBound, RetryChain, [Next]_vars
  PROVE  RetryChain'
<1>0. /\ Len(log) \in Nat /\ Len(log') \in Nat /\ Len(log) <= Len(log')
      /\ \A i \in 1 .. Len(log) : log'[i] = log[i]
  BY LogGrows
<1>1. \A i \in 1 .. Len(log) :
        log'[i].att > 1 =>
          \E j \in 1 .. i - 1 : log'[j].ev = log'[i].ev /\ log'[j].att = log'[i].att - 1
  <2>1. SUFFICES ASSUME NEW i \in 1 .. Len(log), log[i].att > 1
                 PROVE  \E j \in 1 .. i - 1 :
                          log'[j].ev = log[i].ev /\ log'[j].att = log[i].att - 1
    BY <1>0
  <2>2. PICK j \in 1 .. i - 1 : log[j].ev = log[i].ev /\ log[j].att = log[i].att - 1
    BY <2>1 DEF RetryChain
  <2>3. QED BY <1>0, <2>2
<1>2. \A e \in dlq : \E i \in 1 .. Len(log') : log'[i].ev = e /\ log'[i].att = MaxAttempts
  BY <1>0 DEF RetryChain
<1>3. ASSUME UNCHANGED <<log, dlq>> PROVE RetryChain'
  BY <1>3 DEF RetryChain
<1>4. ASSUME NEW p \in Publishers, PublishRow(p)
      PROVE  RetryChain'
  <2>1. PICK e \in Events : log' = Append(log, [ev |-> e, att |-> 1])
    BY <1>4 DEF PublishRow, TypeOK
  <2>2. Len(log') = Len(log) + 1 /\ log'[Len(log) + 1].att = 1 /\ UNCHANGED dlq
    BY <1>4, <2>1 DEF PublishRow, TypeOK
  <2>3. ASSUME NEW i \in 1 .. Len(log'), log'[i].att > 1
        PROVE  i \in 1 .. Len(log)
    BY <1>0, <2>2, <2>3
  <2>4. QED BY <1>1, <1>2, <2>2, <2>3 DEF RetryChain
<1>5. ASSUME NEW w \in Workers, Requeue(w)
      PROVE  RetryChain'
  <2>1. /\ off[w] \in 1 .. Len(log) /\ Held(w).att \in 1 .. MaxAttempts
    BY <1>5, HeldMessage DEF Requeue
  <2>2. CASE /\ Held(w).att < MaxAttempts /\ UNCHANGED dlq
             /\ log' = Append(log, [ev |-> Held(w).ev, att |-> Held(w).att + 1])
    <3>1. /\ Len(log') = Len(log) + 1
          /\ log'[Len(log) + 1].ev = Held(w).ev /\ log'[Len(log) + 1].att = Held(w).att + 1
      BY <2>2 DEF TypeOK
    <3>2. log'[off[w]] = Held(w)
      BY <1>0, <2>1 DEF Held
    <3>3. ASSUME NEW i \in 1 .. Len(log'), i \notin 1 .. Len(log)
          PROVE  \E j \in 1 .. i - 1 : log'[j].ev = log'[i].ev /\ log'[j].att = log'[i].att - 1
      <4>1. i = Len(log) + 1
        BY <1>0, <3>1, <3>3
      <4>2. off[w] \in 1 .. i - 1
        BY <1>0, <2>1, <4>1
      <4>3. log'[off[w]].ev = log'[i].ev /\ log'[off[w]].att = log'[i].att - 1
        BY <2>1, <3>1, <3>2, <4>1
      <4>4. QED BY <4>2, <4>3
    <3>4. QED BY <1>1, <1>2, <2>2, <3>3 DEF RetryChain
  <2>3. CASE /\ ~(Held(w).att < MaxAttempts) /\ UNCHANGED log
             /\ dlq' = dlq \cup {Held(w).ev}
    <3>1. Held(w).att = MaxAttempts
      BY <2>1, <2>3
    <3>2. QED BY <1>1, <1>2, <2>1, <2>3, <3>1 DEF RetryChain, Held
  <2>4. QED BY <1>5, <2>2, <2>3 DEF Requeue
<1>6. ASSUME ~\E p \in Publishers : PublishRow(p), ~\E w \in Workers : Requeue(w)
      PROVE  UNCHANGED <<log, dlq>>
  BY <1>6 DEF Next, vars, AddOutbox, ClaimExpires, PublisherStep, PublisherFails,
     FetchUnpublished, CommitPublished, Assign, Heartbeat, WorkerStep,
     HandleMessage, Fetch, CheckProcessed, ClaimCheck, ClaimInsert, HandlerReturns,
     HandlerRaises, Release, MarkProcessed, CommitOffset, Defer, Failure,
     HeartbeatFails, HandlerCancelled, RequeueFails, WorkerDies
<1>7. QED BY <1>3, <1>4, <1>5, <1>6

-----------------------------------------------------------------------------
(* The inductive invariant and what follows from it                        *)

IInv ==
  /\ TypeOK /\ PositionBound
  /\ SentBeforeMarked /\ MovedOn /\ Outstanding
  /\ ExecutedFirst /\ ClaimHeld /\ RetryChain

\* The initial state has no message, no claim and no busy worker.
LEMMA InitInvariant == Init => IInv
<1>1. SUFFICES ASSUME Init PROVE IInv
  OBVIOUS
<1>2. TypeOK
  BY <1>1, DeliveryAssumption DEF Init, TypeOK, Claims, NoClaim, Stages
<1>3. PositionBound /\ MovedOn /\ Outstanding /\ RetryChain
  BY <1>1 DEF Init, PositionBound, MovedOn, Outstanding, RetryChain
<1>4. SentBeforeMarked
  BY <1>1 DEF Init, SentBeforeMarked
<1>5. ExecutedFirst /\ ClaimHeld
  BY <1>1, DeliveryAssumption DEF Init, ExecutedFirst, ClaimHeld, NoClaim
<1>6. QED BY <1>2, <1>3, <1>4, <1>5 DEF IInv

\* The invariant holds in every reachable state.
THEOREM Invariance == Spec => []IInv
<1>1. IInv /\ [Next]_vars => IInv'
  BY TypeStep, PositionStep, SentStep, MovedOnStep, OutstandingStep, ExecutedStep,
     ClaimStep, RetryStep DEF IInv
<1>2. QED BY <1>1, InitInvariant, PTL DEF Spec

\* Every variable of the delivery pipeline keeps its type.
THEOREM TypeCorrect == Spec => []TypeOK
<1>1. IInv => TypeOK
  BY DEF IInv
<1>2. QED BY <1>1, Invariance, PTL

\* No committed event is lost, for any number of events, publishers, workers,
\* crashes, rebalances and stalls (publish_batch, handle_message,
\* consume_messages).
THEOREM NothingLost == Spec => []NoLoss
<1>1. IInv => NoLoss
  <2>1. SUFFICES ASSUME IInv, NEW e \in Events, outbox[e] = "published", ~Settled(e)
                 PROVE  \E i \in committed + 1 .. Len(log) : log[i].ev = e
    BY DEF NoLoss, IInv, TypeOK
  <2>2. PICK i \in 1 .. Len(log) : log[i].ev = e
    BY <2>1 DEF IInv, SentBeforeMarked
  <2>3. PICK j \in highest + 1 .. Len(log) : log[j].ev = e
    BY <2>1, <2>2 DEF IInv, Outstanding
  <2>4. j \in committed + 1 .. Len(log)
    BY <2>1, <2>3 DEF IInv, PositionBound, TypeOK
  <2>5. QED BY <2>3, <2>4
<1>2. QED BY <1>1, Invariance, PTL

\* Retries are consecutive and dead-lettering follows the last permitted attempt.
THEOREM RetriesChained == Spec => []RetryChain
<1>1. IInv => RetryChain
  BY DEF IInv
<1>2. QED BY <1>1, Invariance, PTL

\* Without stalls, heartbeating workers never handle one event concurrently
\* (claim_processing and its heartbeat).
THEOREM HandlersExclusive == Spec => []ExclusiveHandler
<1>1. IInv => ExclusiveHandler
  <2>1. SUFFICES ASSUME IInv, stalls = 0, NEW v \in Workers, NEW w \in Workers,
                        hb[v] = "on", hb[w] = "on", Held(v).ev = Held(w).ev
                 PROVE  v = w
    BY DEF ExclusiveHandler
  <2>2. ASSUME NEW u \in Workers, hb[u] = "on"
        PROVE  claim[Held(u).ev].owner = u
    <3>1. claim[Held(u).ev] = [owner |-> u, state |-> "live"]
      BY <2>1, <2>2 DEF IInv, ClaimHeld
    <3>2. QED BY <3>1
  <2>3. claim[Held(v).ev].owner = v /\ claim[Held(w).ev].owner = w
    BY <2>1, <2>2
  <2>4. QED BY <2>1, <2>3
<1>2. QED BY <1>1, Invariance, PTL

\* The pipeline implements the safety part of reliable delivery: an event is
\* executed only after it was accepted, and recorded as processed only after a
\* handler completed it.
THEOREM RefinesReliableDelivery == Spec => Reliable!Safe
<1>1. Init => Reliable!Init
  BY DEF Init, Reliable!Init
<1>2. ASSUME IInv, [Next]_vars PROVE [Reliable!Next]_(Reliable!vars)
  <2> DEFINE Accepted == {e \in Events : outbox[e] # "none"}
  <2>0. TypeOK /\ PositionBound /\ SentBeforeMarked /\ ExecutedFirst
    BY <1>2 DEF IInv
  <2>1. ASSUME NEW w \in Workers, pc[w] # "idle"
        PROVE  Held(w).ev \in Events /\ outbox[Held(w).ev] # "none"
    BY <2>0, <2>1, HeldMessage DEF SentBeforeMarked, Held
  <2>2. ASSUME UNCHANGED <<outbox, ran, processed, dlq>>
        PROVE  UNCHANGED Reliable!vars
    BY <2>2 DEF Reliable!vars
  <2>3. ASSUME NEW e \in Events, AddOutbox(e)
        PROVE  Reliable!Accept(e)
    <3>1. Accepted' = Accepted \cup {e}
      BY <2>0, <2>3 DEF AddOutbox, TypeOK
    <3>2. QED BY <2>3, <3>1 DEF AddOutbox, Reliable!Accept
  <2>4. ASSUME NEW p \in Publishers, CommitPublished(p)
        PROVE  UNCHANGED Reliable!vars
    <3>1. \A e \in Events : outbox'[e] # "none" <=> outbox[e] # "none"
      BY <2>0, <2>4 DEF CommitPublished, SentBeforeMarked, TypeOK
    <3>2. Accepted' = Accepted
      BY <3>1
    <3>3. QED BY <2>4, <3>2 DEF CommitPublished, Reliable!vars
  <2>5. ASSUME NEW w \in Workers, HandlerReturns(w)
        PROVE  Reliable!Execute(Held(w).ev) /\ Held(w).ev \in Events
    <3>1. /\ ran' = ran \cup {Held(w).ev} /\ UNCHANGED <<outbox, processed, dlq>>
          /\ pc[w] # "idle"
      BY <2>5 DEF HandlerReturns
    <3>2. QED BY <2>1, <3>1 DEF Reliable!Execute
  <2>6. ASSUME NEW w \in Workers, MarkProcessed(w)
        PROVE  UNCHANGED Reliable!vars \/ (Reliable!Acknowledge(Held(w).ev) /\ Held(w).ev \in Events)
    <3>1. /\ pc[w] = "mark" /\ UNCHANGED <<outbox, ran, dlq>>
          /\ UNCHANGED processed \/ processed' = processed \cup {Held(w).ev}
      BY <2>6 DEF MarkProcessed
    <3>2. Held(w).ev \in ran /\ Held(w).ev \in Events
      BY <2>0, <2>1, <3>1 DEF ExecutedFirst
    <3>3. CASE UNCHANGED processed
      BY <2>2, <3>1, <3>3
    <3>4. CASE processed' = processed \cup {Held(w).ev}
      BY <3>1, <3>2, <3>4 DEF Reliable!Acknowledge
    <3>5. QED BY <3>1, <3>3, <3>4
  <2>7. ASSUME NEW w \in Workers, Requeue(w)
        PROVE  UNCHANGED Reliable!vars \/ (Reliable!Bury(Held(w).ev) /\ Held(w).ev \in Events)
    <3>1. /\ pc[w] # "idle" /\ UNCHANGED <<outbox, ran, processed>>
          /\ UNCHANGED dlq \/ dlq' = dlq \cup {Held(w).ev}
      BY <2>7 DEF Requeue
    <3>2. CASE UNCHANGED dlq
      BY <2>2, <3>1, <3>2
    <3>3. CASE dlq' = dlq \cup {Held(w).ev}
      BY <2>1, <3>1, <3>3 DEF Reliable!Bury
    <3>4. QED BY <3>1, <3>2, <3>3
  <2>8. ASSUME ~\E e \in Events : AddOutbox(e), ~\E p \in Publishers : CommitPublished(p),
               ~\E w \in Workers : HandlerReturns(w) \/ MarkProcessed(w) \/ Requeue(w)
        PROVE  UNCHANGED <<outbox, ran, processed, dlq>>
    BY <1>2, <2>8 DEF Next, vars, ClaimExpires, PublisherStep, PublisherFails,
       FetchUnpublished, PublishRow, Assign, Heartbeat, WorkerStep,
       HandleMessage, Fetch, CheckProcessed, ClaimCheck, ClaimInsert,
       HandlerRaises, Release, CommitOffset, Defer, Failure,
       HeartbeatFails, HandlerCancelled, RequeueFails, WorkerDies
  <2>9. QED BY <2>2, <2>3, <2>4, <2>5, <2>6, <2>7, <2>8 DEF Reliable!Next
<1>3. QED BY <1>1, <1>2, Invariance, PTL DEF Spec, Reliable!Safe

=============================================================================
