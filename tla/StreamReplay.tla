---------------------------- MODULE StreamReplay ----------------------------
(***************************************************************************)
(* The event stream of one analysis: the transactions of the agent, the    *)
(* execution, the analysis and the snapshot worker that append to          *)
(* agent_stream_events (agent/repository_stream.py and its copies in       *)
(* workers/analysis.py, snapshot/repository.py and todo/repository.py),    *)
(* the todo lists written with it, and the server-sent events the API      *)
(* polls from it (api/routes.py, api/sse.py) for a client that reconnects  *)
(* with Last-Event-ID.                                                     *)
(*                                                                         *)
(* An open transaction is a member of `open`; it has its row locks and has *)
(* waited for the advisory lock of the analysis once `first` is not 0.     *)
(***************************************************************************)
EXTENDS Naturals, Sequences, FiniteSets, FiniteSetsExt

CONSTANTS
  Calls,       \* todo_update tool calls of the agent
  NoCall,
  TodoInputs,  \* the item lists a call may bring: sequences of [id, status]
  PageSize,    \* LIMIT of stream_events (1000 in the code)
  MaxStatus,   \* bound: status events the agent writes
  MaxLists,    \* bound: transactions that write a todo list
  MaxCancels,  \* bound: cancel requests
  MaxFaults    \* bound: transactions rolled back, deaths and broken client connections

ASSUME StreamAssumption ==
  /\ PageSize \in Nat \ {0} /\ NoCall \notin Calls
  /\ MaxStatus \in Nat /\ MaxLists \in Nat /\ MaxCancels \in Nat /\ MaxFaults \in Nat

VARIABLES
  status,   \* analyses.status
  rows,     \* agent_stream_events: committed rows
  todos,    \* agent_todo_lists: committed rows
  open,     \* transactions that have not committed
  agent,    \* where the agent handler is
  unsent,   \* ANALYSIS_CANCEL_REQUESTED not handled yet, by consumer
  conn,     \* where _polling_sse_event_records is
  last,     \* its last_seq
  page,     \* the events it has read and not yielded
  over,     \* its terminal_event_seen
  got,      \* the events the client has received, over all its connections
  full,     \* history: the page it read last was a full one
  silent,   \* history: no error event was written when it read the terminal status
  byAgent,  \* history: fail_analysis of the agent handler took effect
  count     \* bounded counters

database == <<status, rows, todos, open>>
poller == <<conn, last, page, over, got, full, silent>>
vars == <<database, agent, unsent, poller, byAgent, count>>

Terminal == {"completed", "failed", "cancelled"}
Closed == Terminal \cup {"cancelling"}

-----------------------------------------------------------------------------
(* agent_stream_events                                                     *)

Row(seq, type, version) == [seq |-> seq, type |-> type, version |-> version]

LastSeq == Max({r.seq : r \in rows} \cup {0})

\* What each transaction inserts, in order.
EventsOf(t) ==
  CASE t.kind = "final"        -> <<"delta", "done">>
    [] t.kind = "cancel"       -> <<"cancelled", "cancelled_done">>
    [] t.kind = "agent_cancel" -> <<"cancelled">>
    [] t.kind = "status"       -> <<"status">>
    [] t.kind = "compact"      -> <<"compact_failed">>
    [] t.kind \in {"error", "snapshot_error"} -> <<"error">>
    [] t.kind = "todo"         -> <<"todo_update">>

\* UPDATE analyses and SELECT ... FOR UPDATE keep the row until the commit.
RowLocked == \E t \in open : t.kind \in {"final", "cancel", "snapshot_error"}

\* pg_advisory_xact_lock(analysis_id) is free.
StreamLockFree == \A t \in open : t.first = 0

\* The transaction `kind` takes the lock and reads MAX(seq) + 1.
Number(kind) ==
  /\ StreamLockFree
  /\ open' = open \cup {[kind |-> kind, call |-> NoCall, first |-> LastSeq + 1, version |-> 0]}

\* add_stream_event_on_connection and its copies: the rows t inserts.
Inserted(t) ==
  {Row(t.first + i - 1, EventsOf(t)[i], t.version) : i \in DOMAIN EventsOf(t)}

StatusAfter(t) ==
  CASE t.kind = "final"          -> "completed"
    [] t.kind = "cancel"         -> "cancelled"
    [] t.kind = "snapshot_error" -> "failed"
    [] OTHER                     -> status

\* uq_agent_stream_events_analysis_seq, uq_agent_todo_lists_agent_version and
\* uq_agent_todo_lists_tool_call
Duplicate(t) ==
  \/ \E r \in rows, n \in Inserted(t) : r.seq = n.seq
  \/ t.kind = "todo" /\ \E l \in todos : l.version = t.version \/ l.call = t.call

AgentAfter(t) ==
  CASE t.kind = "final"                   -> "stopped"
    [] t.kind = "compact" /\ byAgent      -> "error"
    [] t.kind = "compact" /\ ~byAgent     -> "stopped"
    [] t.kind = "error"                   -> "stopped"
    [] OTHER                              -> agent

\* The transaction commits, and its handler goes on.
Commit(t) ==
  /\ t \in open /\ t.first # 0 /\ ~Duplicate(t)
  /\ open' = open \ {t}
  /\ rows' = rows \cup Inserted(t)
  /\ status' = StatusAfter(t)
  /\ todos' = IF t.kind = "todo"
                THEN todos \cup {[version |-> t.version, call |-> t.call]} ELSE todos
  /\ agent' = AgentAfter(t)
  /\ unsent' = CASE t.kind = "cancel"       -> unsent \ {"analysis_worker"}
                 [] t.kind = "agent_cancel" -> unsent \ {"agent_worker"}
                 [] OTHER                   -> unsent
  /\ UNCHANGED <<poller, byAgent, count>>

\* The transaction rolls back: its process dies, it hits a unique index, or
\* PostgreSQL breaks the deadlock between FOR UPDATE then advisory lock and
\* advisory lock then the foreign key's row.  A consumer gets its event again; a
\* handler that was reporting a failure does not, the session is terminal.
RollBack(t) ==
  /\ t \in open
  /\ Duplicate(t) \/ count.faults < MaxFaults
  /\ count' = [count EXCEPT !.faults = IF Duplicate(t) THEN @ ELSE @ + 1]
  /\ open' = open \ {t}
  /\ agent' = IF t.kind \in {"compact", "error"} THEN "stopped" ELSE agent
  /\ UNCHANGED <<status, rows, todos, unsent, poller, byAgent>>

-----------------------------------------------------------------------------
(* The writers                                                             *)

\* associate_snapshot; the agent handles SnapshotReady.
SnapshotReady ==
  /\ status = "snapshotting" /\ ~RowLocked
  /\ status' = "running" /\ agent' = "work"
  /\ UNCHANGED <<rows, todos, open, unsent, poller, byAgent, count>>

\* SnapshotRepository.mark_failed: the status and the error in one transaction.
SnapshotFailed ==
  /\ status = "snapshotting" /\ ~RowLocked
  /\ Number("snapshot_error")
  /\ UNCHANGED <<status, rows, todos, agent, unsent, poller, byAgent, count>>

\* _run_turn writes its status event, without a look at the analysis: a cancellation
\* it does not know of may be in the stream already.  (The other events of a turn
\* are numbered the same way and mean nothing to the end of the stream.)
AgentStatus ==
  /\ agent = "work"
  /\ count.status < MaxStatus
  /\ count' = [count EXCEPT !.status = @ + 1]
  /\ Number("status")
  /\ UNCHANGED <<status, rows, todos, agent, unsent, poller, byAgent>>

\* Variant: a session that is being cancelled may still complete.
ContinuableUntilTerminal == status \notin Terminal \cup {"snapshotting"}

\* _lock_continuable_session; the guard of fail_analysis.
Continuable == status \notin Closed \cup {"snapshotting"}

\* complete_turn_with_final_answer
FinalAnswer ==
  /\ agent = "work" /\ Continuable /\ ~RowLocked
  /\ Number("final")
  /\ UNCHANGED <<status, rows, todos, agent, unsent, poller, byAgent, count>>

\* fail_analysis commits; the events follow in transactions of their own.
\* Only a failed compaction writes one although the analysis had ended already.
FailAnalysis ==
  \E next \in {"compact", "error"} :
    /\ agent = "work" /\ ~RowLocked
    /\ status' = IF Continuable THEN "failed" ELSE status
    /\ byAgent' = Continuable
    /\ agent' = IF Continuable \/ next = "compact" THEN next ELSE "stopped"
    /\ UNCHANGED <<rows, todos, open, unsent, poller, count>>

AgentReports ==
  /\ agent \in {"compact", "error"}
  /\ \A t \in open : t.kind # agent
  /\ Number(agent)
  /\ UNCHANGED <<status, rows, todos, agent, unsent, poller, byAgent, count>>

\* The process dies between two transactions of a failure report.
AgentDies ==
  /\ agent \in {"compact", "error"}
  /\ \A t \in open : t.kind # agent
  /\ count.faults < MaxFaults
  /\ count' = [count EXCEPT !.faults = @ + 1]
  /\ agent' = "stopped"
  /\ UNCHANGED <<database, unsent, poller, byAgent>>

\* PostgresAnalysisService.cancel
Cancel ==
  /\ status \notin Terminal /\ ~RowLocked
  /\ count.cancels < MaxCancels
  /\ count' = [count EXCEPT !.cancels = @ + 1]
  /\ status' = "cancelling"
  /\ unsent' = {"analysis_worker", "agent_worker"}
  /\ UNCHANGED <<rows, todos, open, agent, poller, byAgent>>

\* AnalysisWorker._handle_analysis_cancel_requested
HandleCancel ==
  /\ "analysis_worker" \in unsent /\ ~RowLocked
  /\ IF status \in Terminal
       THEN unsent' = unsent \ {"analysis_worker"} /\ UNCHANGED open
       ELSE Number("cancel") /\ UNCHANGED unsent
  /\ UNCHANGED <<status, rows, todos, agent, poller, byAgent, count>>

\* AgentEventHandler.__call__ on ANALYSIS_CANCEL_REQUESTED: always an event.
AgentHandlesCancel ==
  /\ "agent_worker" \in unsent
  /\ \A t \in open : t.kind # "agent_cancel"
  /\ Number("agent_cancel")
  /\ UNCHANGED <<status, rows, todos, agent, unsent, poller, byAgent, count>>

StatusesOf(items) == {items[i].status : i \in DOMAIN items}
InProgress(items) == {i \in DOMAIN items : items[i].status = "in_progress"}

\* Lists normalize_todo_items lets through.
normalize_todo_items(items) ==
  /\ Len(items) \in 1 .. 8
  /\ Cardinality({items[i].id : i \in DOMAIN items}) = Len(items)
  /\ StatusesOf(items) = {"completed"} \/ Cardinality(InProgress(items)) = 1

Replayed(c) == \E l \in todos : l.call = c

\* Variant: the versions start at 2.
LastVersionFromOne == Max({l.version : l \in todos} \cup {1})

LastVersion == Max({l.version : l \in todos} \cup {0})

\* add_todo_list: under the agent's lock a repeated call answers with its list,
\* another one reads MAX(version) + 1.
TodoUpdate(c) ==
  /\ agent # "idle"
  /\ \A t \in open : t.kind # "todo"
  /\ \E items \in TodoInputs :
       IF normalize_todo_items(items) /\ ~Replayed(c)
         THEN /\ count.lists < MaxLists
              /\ count' = [count EXCEPT !.lists = @ + 1]
              /\ open' = open \cup {[kind |-> "todo", call |-> c, first |-> 0,
                                     version |-> LastVersion + 1]}
         ELSE UNCHANGED <<open, count>>
  /\ UNCHANGED <<status, rows, todos, agent, unsent, poller, byAgent>>

\* ... and numbers the todo_update event in the same transaction.
TodoEvent ==
  \E t \in open :
    /\ t.kind = "todo" /\ t.first = 0
    /\ StreamLockFree
    /\ open' = (open \ {t}) \cup {[t EXCEPT !.first = LastSeq + 1]}
    /\ UNCHANGED <<status, rows, todos, agent, unsent, poller, byAgent, count>>

-----------------------------------------------------------------------------
(* The server-sent events                                                  *)

\* The bytes of a Last-Event-ID header: the id of the last event received.
LastEventId == IF got = <<>> THEN 0 ELSE got[Len(got)].seq

\* stream_analysis_events with parse_last_event_id; a client whose connection
\* broke, or that has none yet, connects.
Connect ==
  /\ conn = "off"
  /\ conn' = "read" /\ last' = LastEventId /\ page' = <<>> /\ over' = FALSE
  /\ UNCHANGED <<database, agent, unsent, got, full, silent, byAgent, count>>

\* ORDER BY seq LIMIT PageSize
Ordered(set) ==
  [i \in 1 .. Min({PageSize, Cardinality(set)}) |->
     CHOOSE r \in set : Cardinality({q \in set : q.seq < r.seq}) = i - 1]

\* Variant: the event with the id the client has is sent again.
StreamEventsFrom(after) == Ordered({r \in rows : r.seq >= after})

\* PostgresAnalysisService.stream_events
stream_events(after) == Ordered({r \in rows : r.seq > after})

\* is_terminal_stream_event: by type, or by the status in the payload, which a
\* failed compaction has too.
is_terminal_stream_event(r) ==
  r.type \in {"done", "cancelled_done", "error", "cancelled", "compact_failed"}

\* One page is read; "final" is the read after a terminal status.
ReadPage ==
  /\ conn \in {"read", "final"}
  /\ page' = stream_events(last) /\ full' = (Len(page') = PageSize)
  /\ conn' = IF conn = "read" THEN "emit" ELSE "emit_final"
  /\ UNCHANGED <<database, agent, unsent, last, over, got, silent, byAgent, count>>

\* One event is yielded and reaches the client.
Yield ==
  /\ conn \in {"emit", "emit_final"} /\ page # <<>>
  /\ page' = Tail(page)
  /\ last' = Max({last, Head(page).seq})
  /\ over' = (over \/ is_terminal_stream_event(Head(page)))
  /\ got' = Append(got, Head(page))
  /\ UNCHANGED <<database, agent, unsent, conn, full, silent, byAgent, count>>

\* Variant: a failed analysis is not over.
OverByStatusNotFailed(s) == s \in Terminal \ {"failed"}

\* TERMINAL_ANALYSIS_STATUSES
OverByStatus(s) == s \in Terminal

NoErrorYet == \A r \in rows : r.type # "error"

\* Variant: the stream ends at once when the status is terminal.
AfterPageAtOnce ==
  /\ conn \in {"emit", "emit_final"} /\ page = <<>>
  /\ conn' = IF over \/ conn = "emit_final" \/ OverByStatus(status) THEN "ended" ELSE "read"
  /\ silent' = IF OverByStatus(status) THEN NoErrorYet ELSE silent
  /\ UNCHANGED <<database, agent, unsent, last, page, over, got, full, byAgent, count>>

\* The page is out: end after a terminal event or after the final read, else read
\* the status and poll again (the sleep and the keepalive are left out).
AfterPage ==
  /\ conn \in {"emit", "emit_final"} /\ page = <<>>
  /\ conn' = CASE over \/ conn = "emit_final"         -> "ended"
               [] ~over /\ conn = "emit" /\ OverByStatus(status)  -> "final"
               [] OTHER                               -> "read"
  /\ silent' = IF conn' = "final" THEN NoErrorYet ELSE silent
  /\ UNCHANGED <<database, agent, unsent, last, page, over, got, full, byAgent, count>>

\* The connection breaks, what was read and not received is gone.
Drop ==
  /\ conn \notin {"off", "ended"}
  /\ count.faults < MaxFaults
  /\ count' = [count EXCEPT !.faults = @ + 1]
  /\ conn' = "off" /\ last' = 0 /\ page' = <<>> /\ over' = FALSE /\ full' = FALSE
  /\ silent' = FALSE
  /\ UNCHANGED <<database, agent, unsent, got, byAgent>>

Serve == ReadPage \/ Yield \/ AfterPage

-----------------------------------------------------------------------------
Init ==
  /\ status = "snapshotting" /\ rows = {} /\ todos = {} /\ open = {}
  /\ agent = "idle" /\ unsent = {}
  /\ conn = "off" /\ last = 0 /\ page = <<>> /\ over = FALSE /\ got = <<>>
  /\ full = FALSE /\ silent = FALSE /\ byAgent = FALSE
  /\ count = [status |-> 0, lists |-> 0, faults |-> 0, cancels |-> 0]

CommitAny == \E t \in open : Commit(t)
RollBackAny == \E t \in open : RollBack(t)

Next ==
  \/ SnapshotReady \/ SnapshotFailed
  \/ AgentStatus \/ FinalAnswer \/ FailAnalysis \/ AgentReports \/ AgentDies
  \/ Cancel \/ HandleCancel \/ AgentHandlesCancel
  \/ \E c \in Calls : TodoUpdate(c)
  \/ TodoEvent
  \/ CommitAny \/ RollBackAny
  \/ Connect \/ Serve \/ Drop

\* The API serves a connected client, the client connects again, transactions
\* commit, and a consumer handles its events.
Fairness ==
  /\ WF_vars(Serve) /\ WF_vars(Connect) /\ WF_vars(CommitAny)
  /\ WF_vars(HandleCancel)

Spec == Init /\ [][Next]_vars
FairSpec == Spec /\ Fairness

-----------------------------------------------------------------------------
(* Properties                                                              *)

EventTypes == {"status", "delta", "done", "cancelled", "cancelled_done", "error",
               "compact_failed", "todo_update"}
Kinds == {"final", "cancel", "agent_cancel", "status", "compact", "error",
          "snapshot_error", "todo"}
Rows == [seq : Nat \ {0}, type : EventTypes, version : Nat]

\* Types of the variables.
TypeOK ==
  /\ status \in Closed \cup {"snapshotting", "running"}
  /\ rows \in SUBSET Rows
  /\ todos \in SUBSET [version : Nat \ {0}, call : Calls]
  /\ open \in SUBSET [kind : Kinds, call : Calls \cup {NoCall}, first : Nat, version : Nat]
  /\ agent \in {"idle", "work", "compact", "error", "stopped"}
  /\ unsent \in SUBSET {"analysis_worker", "agent_worker"}
  /\ conn \in {"off", "read", "emit", "final", "emit_final", "ended"}
  /\ last \in Nat /\ page \in Seq(Rows) /\ got \in Seq(Rows)
  /\ over \in BOOLEAN /\ full \in BOOLEAN /\ silent \in BOOLEAN /\ byAgent \in BOOLEAN
  /\ count \in [status : 0 .. MaxStatus, lists : 0 .. MaxLists, faults : 0 .. MaxFaults,
               cancels : 0 .. MaxCancels]

\* Over all its connections, pages and breaks the client receives the stream from
\* the beginning, in order, without a gap and without a repetition.
ClientInOrder ==
  \A i \in DOMAIN got : got[i].seq = i /\ got[i] \in rows

\* applyAnalysisStreamEvent of the frontend: these events make the page of the client
\* final, and a later status event of the agent makes it live again.
Tells(r) == r.type \in {"done", "cancelled_done", "cancelled", "error"}
PageFinal ==
  \E i \in DOMAIN got : Tells(got[i]) /\ \A j \in DOMAIN got : j > i => got[j].type # "status"

\* The agent did not know of the cancellation and wrote the status of a turn after it.
Reopened ==
  \E i, j \in DOMAIN got :
    i < j /\ got[i].type \in {"cancelled", "cancelled_done"} /\ got[j].type = "status"

\* The server closes a stream only when the page of the client is final.  The
\* exceptions: the agent handler failed the analysis and its error event was not in
\* the stream when the poller read the status (fail_analysis commits first); the
\* poller saw the event of a failed compaction, which the server takes for the end
\* and the page does not; more events than one page holds were written between the
\* last poll and the final read; and a cancellation's ending, and no other, was
\* reopened by the status event of a turn that the agent starts after it.
EndTold ==
  conn = "ended" =>
    \/ PageFinal
    \/ silent /\ status = "failed" /\ byAgent
    \/ over /\ \E i \in DOMAIN got : got[i].type = "compact_failed"
    \/ full /\ ~over
    \/ Reopened

\* What the client is told is how the analysis really ends, whichever of the
\* agent, the API's cancel and the two cancel handlers come first.
ToldTruth ==
  \A i \in DOMAIN got :
    /\ got[i].type = "done" => status = "completed"
    /\ got[i].type = "error" => status = "failed"
    /\ got[i].type \in {"cancelled", "cancelled_done"} => status \in {"cancelling", "cancelled"}

\* The todo lists the client has when it receives its n-th event.
ListsShown(n) == {i \in 1 .. n : got[i].type = "todo_update"}

\* Each todo_update call, however often it is executed, leaves one list; the
\* versions are 1, 2, ...; and the client sees each list once and in the order of
\* the versions, so that the list on display is the latest it has.
TodoInOrder ==
  /\ {l.version : l \in todos} = 1 .. Cardinality(todos)
  /\ \A k, l \in todos : k.call = l.call => k = l
  /\ \A n \in DOMAIN got :
       got[n].type = "todo_update" => got[n].version = Cardinality(ListsShown(n))

\* Once an analysis is over or being cancelled, the stream ends for a client that
\* keeps connecting, also when the event that should have told it was never
\* written.
StreamEnds == status \in Closed ~> conn = "ended"

=============================================================================
