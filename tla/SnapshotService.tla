-------------------------- MODULE SnapshotService --------------------------
(***************************************************************************)
(* SnapshotService.handle_snapshot_requested (snapshot/service.py) with    *)
(* the SQL of snapshot/repository.py: workers build a snapshot of the      *)
(* commit a ref names, share it with every analysis of that commit, and    *)
(* start or fail the analysis, while events are redelivered, workers die,  *)
(* the ref moves, users cancel and agents go on.                           *)
(*                                                                         *)
(* There is one repository, one ref and one policy: what tells snapshots   *)
(* apart is the commit.  The event backbone is reduced to what            *)
(* EventDelivery shows of it: a SnapshotRequested event is claimed by one  *)
(* worker unless a claim expires, is delivered again after a death or an   *)
(* exception, and ends in the dead letter queue after MaxAttempts.         *)
(***************************************************************************)
EXTENDS Naturals, FiniteSets

CONSTANTS
  Analyses,
  SnapshotWorkers,
  None,
  MaxAttempts,  \* attempts of an event before it is dead-lettered
  MaxTroubles   \* bound: deaths, exceptions, expired claims, pushes and cancellations

ASSUME SnapshotAssumption ==
  /\ None \notin Analyses /\ IsFiniteSet(Analyses)
  /\ MaxAttempts \in Nat \ {0} /\ MaxTroubles \in Nat

VARIABLES
  analysis,    \* analyses.status
  session,     \* agent_sessions: status and snapshot_id
  snapshots,   \* snapshots with their snapshot_files: committed rows
  head,        \* the commit the ref names
  event,       \* the SnapshotRequested event of each analysis
  pc, at, id, commit, found,  \* a worker: step, analysis, new snapshot id, commit, row to use
  ready,       \* outbox: SnapshotReady events
  overlapped,  \* history: analyses whose event two workers handled at once
  troubles     \* how many of the bounded steps were taken

rowVars == <<analysis, session, snapshots>>
workerVars == <<pc, at, id, commit, found>>
serviceVars == <<rowVars, head, event, workerVars, ready, overlapped, troubles>>

Commits == 1 .. MaxTroubles + 1
Ids == 1 .. Cardinality(Analyses) + MaxTroubles  \* bound: snapshot ids in use at a time
Terminal == {"completed", "failed", "cancelled"}
Closed == Terminal \cup {"cancelling"}

With(f, x, v) == [f EXCEPT ![x] = v]

-----------------------------------------------------------------------------
(* The event and its worker                                                *)

Unused == Ids \ ({r.id : r \in snapshots} \cup {id[v] : v \in SnapshotWorkers})

\* A worker claims the event; it will use a new snapshot_id.
Take(w, a) ==
  /\ pc[w] = "idle" /\ event[a].state = "ready" /\ Unused # {}
  /\ event' = [event EXCEPT ![a].state = "claimed"]
  /\ overlapped' = overlapped \cup {at[v] : v \in {v \in SnapshotWorkers : at[v] = a}}
  /\ pc' = With(pc, w, "start") /\ at' = With(at, w, a) /\ id' = With(id, w, CHOOSE i \in Unused : TRUE)
  /\ UNCHANGED <<rowVars, head, commit, found, ready, troubles>>

\* The worker is free again and what it had not committed is gone.
Release(w) ==
  /\ pc' = With(pc, w, "idle") /\ at' = With(at, w, None) /\ id' = With(id, w, 0)
  /\ commit' = With(commit, w, 0) /\ found' = With(found, w, 0)

\* The handler has returned; the event is recorded as processed.
Acknowledge(w) ==
  /\ pc[w] = "ack"
  /\ event' = [event EXCEPT ![at[w]].state = "done"]
  /\ Release(w)
  /\ UNCHANGED <<rowVars, head, ready, overlapped, troubles>>

Handled(a) == \E v \in SnapshotWorkers : at[v] = a

\* The event is for another worker once this one is gone.
BackInQueue(w, state) ==
  IF event[at[w]].state = "claimed" /\ ~\E v \in SnapshotWorkers \ {w} : at[v] = at[w]
    THEN [event EXCEPT ![at[w]].state = state]
    ELSE event

Trouble ==
  /\ troubles < MaxTroubles
  /\ troubles' = troubles + 1

Dies(w) ==
  /\ pc[w] # "idle"
  /\ Trouble
  /\ event' = BackInQueue(w, "ready")
  /\ Release(w)
  /\ UNCHANGED <<rowVars, head, ready, overlapped>>

\* A statement of a transaction raises: the runner republishes the event with the
\* next attempt or dead-letters it (ConsumerRunner).
Raises(w) ==
  /\ pc[w] \in {"start", "find", "insert", "associate", "fail"}
  /\ Trouble
  /\ event' = IF event[at[w]].attempt < MaxAttempts
                THEN [event EXCEPT ![at[w]] = [state |-> "ready", attempt |-> @.attempt + 1]]
                ELSE [event EXCEPT ![at[w]].state = "dead"]
  /\ Release(w)
  /\ UNCHANGED <<rowVars, head, ready, overlapped>>

\* The claim of a stalled worker expires while it goes on.
ClaimExpires(a) ==
  /\ event[a].state = "claimed" /\ Handled(a)
  /\ Trouble
  /\ event' = [event EXCEPT ![a].state = "ready"]
  /\ UNCHANGED <<rowVars, head, workerVars, ready, overlapped>>

-----------------------------------------------------------------------------
(* handle_snapshot_requested                                               *)

Goto(w, step) == pc' = With(pc, w, step)

\* The handler returns.
Finished(w) ==
  /\ Goto(w, "ack") /\ id' = With(id, w, 0)
  /\ commit' = With(commit, w, 0) /\ found' = With(found, w, 0)

\* Variant: the analysis must still be queued.
StartableQueued(a) == analysis[a] = "queued" /\ session[a].snapshot = 0

\* Variant: a redelivered event starts again whatever has happened.
StartableAlways(a) == session[a].status \notin Closed

\* mark_analysis_snapshotting
Startable(a) ==
  /\ analysis[a] = "snapshotting"
  /\ session[a].snapshot = 0
  /\ session[a].status \notin Closed

\* _mark_started (SnapshotStarted has no consumer)
MarkStarted(w) ==
  /\ pc[w] = "start"
  /\ Goto(w, IF Startable(at[w]) THEN "build" ELSE "ack")
  /\ UNCHANGED <<rowVars, head, event, at, id, commit, found, ready, overlapped, troubles>>

\* _policy_for_event and GitSnapshotBuilder.build: the ref is resolved once and
\* the objects of the new id are stored, or any of it fails.
Build(w) ==
  /\ pc[w] = "build"
  /\ \/ commit' = With(commit, w, head) /\ Goto(w, "find")
     \/ Goto(w, "fail") /\ UNCHANGED commit
  /\ UNCHANGED <<rowVars, head, event, at, id, found, ready, overlapped, troubles>>

\* The rows with the key of commit c (find_ready_snapshot and the unique index).
RowsOf(c) == {r \in snapshots : r.commit = c}

\* Continue _mark_ready with the row of this commit: its own or an existing one.
Use(w, snapshot) == found' = With(found, w, snapshot) /\ Goto(w, "associate")

\* find_ready_snapshot
Find(w) ==
  /\ pc[w] = "find"
  /\ \/ \E r \in RowsOf(commit[w]) : Use(w, r.id)
     \/ RowsOf(commit[w]) = {} /\ Goto(w, "insert") /\ UNCHANGED found
  /\ UNCHANGED <<rowVars, head, event, at, id, commit, ready, overlapped, troubles>>

\* The rows w has inserted and not committed.
Pending(w) == IF found[w] # 0 /\ found[w] = id[w] THEN {[id |-> id[w], commit |-> commit[w]]} ELSE {}

\* ON CONFLICT waits for the transaction that has inserted the same key.
InsertGranted(w) ==
  \A v \in SnapshotWorkers \ {w} : Pending(v) # {} => commit[v] # commit[w]

\* Variant: the worker that lost the insert goes on with its own id.
InsertedOwn(w) == id[w]

\* insert_snapshot: the row of the commit afterwards; DO NOTHING keeps the one
\* that is there, and the second find_ready_snapshot returns it.
InsertedOrFound(w) ==
  IF RowsOf(commit[w]) = {} THEN id[w] ELSE CHOOSE i \in Ids : \E r \in RowsOf(commit[w]) : r.id = i

Insert(w) ==
  /\ pc[w] = "insert"
  /\ InsertGranted(w)
  /\ Use(w, InsertedOrFound(w))
  /\ UNCHANGED <<rowVars, head, event, at, id, commit, ready, overlapped, troubles>>

\* Variant: a session that is being cancelled gets its snapshot.
AssociableUntilTerminal(a) == session[a].status \notin {"completed", "failed"}

\* The guard of associate_snapshot.
Associable(a) == session[a].status \notin Closed

RunningUnlessClosed(a) == IF analysis[a] \in Closed THEN analysis[a] ELSE "running"

\* insert_snapshot_files, insert_instruction_files, associate_snapshot,
\* _emit_ready and the commit.  A session that is over leaves the new row.
Associate(w) ==
  /\ pc[w] = "associate"
  /\ snapshots' = snapshots \cup (IF RowsOf(commit[w]) = {} THEN Pending(w) ELSE {})
  /\ IF Associable(at[w])
       THEN /\ session' = With(session, at[w], [status |-> "queued", snapshot |-> found[w]])
            /\ analysis' = With(analysis, at[w], RunningUnlessClosed(at[w]))
            /\ ready' = ready \cup {[analysis |-> at[w], snapshot |-> found[w]]}
       ELSE UNCHANGED <<session, analysis, ready>>
  /\ Finished(w)
  /\ UNCHANGED <<head, event, at, overlapped, troubles>>

\* _mark_failed: both statuses and the error event of the stream
MarkFailed(w) ==
  /\ pc[w] = "fail"
  /\ analysis' = IF analysis[at[w]] \in Closed THEN analysis ELSE With(analysis, at[w], "failed")
  /\ session' = IF analysis[at[w]] \in Closed \/ session[at[w]].status \in Closed
                  THEN session ELSE [session EXCEPT ![at[w]].status = "failed"]
  /\ Finished(w)
  /\ UNCHANGED <<snapshots, head, event, at, ready, overlapped, troubles>>

-----------------------------------------------------------------------------
(* Everybody else                                                          *)

\* A push moves the ref.
RefMoves ==
  /\ Trouble
  /\ head' = head + 1
  /\ UNCHANGED <<rowVars, event, workerVars, ready, overlapped>>

\* The agent handles SnapshotReady, and later completes the analysis.
AgentRuns(a) ==
  /\ \E e \in ready : e.analysis = a
  /\ session[a].status = "queued"
  /\ session' = [session EXCEPT ![a].status = "calling_model"]
  /\ UNCHANGED <<analysis, snapshots, head, event, workerVars, ready, overlapped, troubles>>

AgentCompletes(a) ==
  /\ session[a].status = "calling_model" /\ analysis[a] = "running"
  /\ session' = [session EXCEPT ![a].status = "completed"]
  /\ analysis' = With(analysis, a, "completed")
  /\ UNCHANGED <<snapshots, head, event, workerVars, ready, overlapped, troubles>>

\* PostgresAnalysisService.cancel and _handle_analysis_cancel_requested
Cancel(a) ==
  /\ analysis[a] \notin Closed
  /\ Trouble
  /\ analysis' = With(analysis, a, "cancelling")
  /\ session' = IF session[a].status \in Terminal
                  THEN session ELSE [session EXCEPT ![a].status = "cancelled"]
  /\ UNCHANGED <<snapshots, head, event, workerVars, ready, overlapped>>

HandleCancel(a) ==
  /\ analysis[a] = "cancelling"
  /\ analysis' = With(analysis, a, "cancelled")
  /\ UNCHANGED <<session, snapshots, head, event, workerVars, ready, overlapped, troubles>>

-----------------------------------------------------------------------------
ServiceInit ==
  /\ analysis = [a \in Analyses |-> "snapshotting"]
  /\ session = [a \in Analyses |-> [status |-> "queued", snapshot |-> 0]]
  /\ snapshots = {} /\ head = 1
  /\ event = [a \in Analyses |-> [state |-> "ready", attempt |-> 1]]
  /\ pc = [w \in SnapshotWorkers |-> "idle"] /\ at = [w \in SnapshotWorkers |-> None]
  /\ id = [w \in SnapshotWorkers |-> 0] /\ commit = [w \in SnapshotWorkers |-> 0]
  /\ found = [w \in SnapshotWorkers |-> 0]
  /\ ready = {} /\ overlapped = {}
  /\ troubles = 0

ServiceStep(w) ==
  \/ MarkStarted(w) \/ Build(w) \/ Find(w) \/ Insert(w) \/ Associate(w) \/ MarkFailed(w)
  \/ Acknowledge(w)

ServiceNext ==
  \/ \E w \in SnapshotWorkers : ServiceStep(w) \/ Dies(w) \/ Raises(w) \/ \E a \in Analyses : Take(w, a)
  \/ \E a \in Analyses : ClaimExpires(a) \/ AgentRuns(a) \/ AgentCompletes(a)
                         \/ Cancel(a) \/ HandleCancel(a)
  \/ RefMoves

\* Workers are restarted and take the events that are due; a build ends, by its
\* git timeout at the latest; PostgreSQL grants a lock that is free.
Fairness ==
  /\ \A w \in SnapshotWorkers : WF_serviceVars(ServiceStep(w))
  /\ \A a \in Analyses : WF_serviceVars(\E w \in SnapshotWorkers : Take(w, a))

ServiceSpec == ServiceInit /\ [][ServiceNext]_serviceVars
FairSpec == ServiceSpec /\ Fairness

-----------------------------------------------------------------------------
(* Properties                                                              *)

Steps == {"idle", "start", "build", "find", "insert", "associate", "fail", "ack"}
SessionStatuses == {"queued", "calling_model"} \cup Terminal

\* Types of the variables.
ServiceTypeOK ==
  /\ analysis \in [Analyses -> {"snapshotting", "running"} \cup Closed]
  /\ session \in [Analyses -> [status : SessionStatuses, snapshot : {0} \cup Ids]]
  /\ snapshots \in SUBSET [id : Ids, commit : Commits]
  /\ head \in Commits
  /\ event \in [Analyses -> [state : {"ready", "claimed", "done", "dead"}, attempt : 1 .. MaxAttempts]]
  /\ pc \in [SnapshotWorkers -> Steps] /\ at \in [SnapshotWorkers -> Analyses \cup {None}]
  /\ id \in [SnapshotWorkers -> {0} \cup Ids] /\ found \in [SnapshotWorkers -> {0} \cup Ids]
  /\ commit \in [SnapshotWorkers -> Commits \cup {0}]
  /\ ready \in SUBSET [analysis : Analyses, snapshot : Ids]
  /\ overlapped \in SUBSET Analyses
  /\ troubles \in 0 .. MaxTroubles

\* The analyses of one commit share one snapshot, and that is a committed row with
\* its files, although several workers may build the commit at once, lose the
\* insert, or die before their commit: the loser uses the winner's row
\* (insert_snapshot, the second find_ready_snapshot).
SharedByCommit ==
  /\ \A a \in Analyses : session[a].snapshot \in {0} \cup {r.id : r \in snapshots}
  /\ \A e \in ready : e.snapshot \in {r.id : r \in snapshots}
  /\ \A e, f \in ready, r, s \in snapshots :
       e.snapshot = r.id /\ f.snapshot = s.id /\ r.commit = s.commit => e.snapshot = f.snapshot

\* A redelivered event, whenever it comes and wherever the ref has moved to,
\* neither replaces the snapshot of an analysis that has one, nor restarts its
\* session, nor fails it; unless two workers handled the event at once
\* (mark_analysis_snapshotting is the only guard, associate_snapshot and mark_failed
\* do not look at snapshot_id).
ResultStands ==
  [][\A a \in Analyses : session[a].snapshot # 0 /\ a \notin overlapped =>
       /\ session'[a].snapshot = session[a].snapshot
       /\ session[a].status # "queued" => session'[a].status # "queued"
       /\ analysis'[a] = "failed" => analysis[a] = "failed"]_serviceVars

\* A late snapshot never revives an analysis: what is completed, failed or
\* cancelled stays so, what is being cancelled can only become cancelled, and a
\* cancelled session is not queued again.
EndIsFinal ==
  [][\A a \in Analyses :
       /\ analysis[a] \in Terminal => analysis'[a] = analysis[a]
       /\ analysis[a] = "cancelling" => analysis'[a] \in {"cancelling", "cancelled"}
       /\ session[a].status \in Terminal => session'[a] = session[a]]_serviceVars

\* Every analysis leaves the status snapshotting, unless its event was
\* dead-lettered after MaxAttempts exceptions; then nothing ever fails it.
SnapshotSettles ==
  \A a \in Analyses :
    analysis[a] = "snapshotting" ~>
      analysis[a] # "snapshotting" \/ (event[a].state = "dead" /\ troubles >= MaxAttempts)

=============================================================================
