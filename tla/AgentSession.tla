---------------------------- MODULE AgentSession ----------------------------
(***************************************************************************)
(* The turn loop of an agent (AgentCommandHandler).  SnapshotReady starts  *)
(* the first turn; a turn calls the model, which asks for tools or gives   *)
(* the final answer; the terminal event of a tool call starts the next     *)
(* turn once all calls of its turn are finished.                           *)
(*                                                                         *)
(* Every repository call is a transaction, hence a step, and a worker may  *)
(* die between any two.  A turn row is identified by its trigger: start, or*)
(* the tool call whose terminal event began it (trigger_domain_key, unique *)
(* per agent).                                                             *)
(*                                                                         *)
(* Events of one key share a partition and an event is claimed before it   *)
(* is handled, so two workers handle the same key only when the partition  *)
(* moved (another event of the key) or a claim expired under its owner     *)
(* (the same event): an overlap.  Events of different tool calls have      *)
(* different keys and are handled by different workers at any time.        *)
(***************************************************************************)
EXTENDS Naturals, FiniteSets, Sequences

CONSTANTS
  Calls,         \* tool calls the model may ask for
  Start,         \* the trigger of the first turn
  Workers,       \* agent workers
  MaxBatch,      \* tool calls in one response: 1 with parallel_tool_calls off
  MaxTurns,      \* max_turns of the session
  MaxToolCalls,  \* max_tool_calls of its limits, 0 for none
  MaxAttempts,   \* deliveries of an event; the model is retried as often
  MaxCopies,     \* bound: events published for one trigger
  MaxFaults,     \* bound: deaths, failing calls, dead-lettered tool requests
  MaxOverlaps    \* bound: two workers handle one trigger

ASSUME SessionAssumption ==
  /\ IsFiniteSet(Calls) /\ IsFiniteSet(Workers) /\ Workers # {}
  /\ Start \notin Calls
  /\ MaxBatch \in Nat \ {0} /\ MaxAttempts \in Nat \ {0} /\ MaxCopies \in Nat \ {0}
  /\ MaxTurns \in Nat /\ MaxToolCalls \in Nat
  /\ MaxFaults \in Nat /\ MaxOverlaps \in Nat

VARIABLES
  analysis,     \* analyses.status
  status,       \* agent_sessions.status
  turnCount,    \* agent_sessions.turn_count
  turn,         \* agent_turns.status by trigger, "none" without a row
  tool,         \* tool_calls.status, "queued" covers running
  parent,       \* the turn that asked for the call
  requested,    \* calls with a ToolCallRequested on its way
  published,    \* number of events published for each trigger
  inbox,        \* their messages in Kafka that are not committed
  processed,    \* events with a processed_events row
  dead,         \* triggers with an event in the dead letter queue
  pc, msg,      \* each worker: its stage and its event
  seen,         \* turn_count it read
  found,        \* turn status it read
  wants,        \* tool calls of the response it got
  lost,         \* another worker took over its event claim
  ended,        \* terminal analysis events written to the outbox
  completions,  \* history: how often each turn was completed
  faults, overlaps

workerVars  == <<pc, msg, seen, found, wants, lost>>
sessionVars == <<analysis, status, turnCount>>
toolVars    == <<tool, parent, requested>>
queueVars   == <<published, inbox, processed, dead>>
history     == <<ended, completions>>
bounds      == <<faults, overlaps>>
vars == <<sessionVars, turn, toolVars, queueVars, workerVars, history, bounds>>

Triggers == Calls \cup {Start}
Event(k, n, a) == [key |-> k, copy |-> n, att |-> a]
Terminal == {"completed", "failed", "cancelled"}
Closed == Terminal \cup {"cancelling"}
NoEvent == Event(Start, 1, 1)

Init ==
  /\ analysis = "running"
  /\ status = "queued"
  /\ turnCount = 0
  /\ turn = [k \in Triggers |-> "none"]
  /\ tool = [c \in Calls |-> "none"]
  /\ parent = [c \in Calls |-> Start]
  /\ requested = {}
  /\ published = [k \in Triggers |-> IF k = Start THEN 1 ELSE 0]
  /\ inbox = {Event(Start, 1, 1)}
  /\ processed = {}
  /\ dead = {}
  /\ pc = [w \in Workers |-> "idle"]
  /\ msg = [w \in Workers |-> NoEvent]
  /\ seen = [w \in Workers |-> 0]
  /\ found = [w \in Workers |-> "none"]
  /\ wants = [w \in Workers |-> {}]
  /\ lost = [w \in Workers |-> FALSE]
  /\ ended = <<>>
  /\ completions = [k \in Triggers |-> 0]
  /\ faults = 0
  /\ overlaps = 0

-----------------------------------------------------------------------------
(* Delivery of an event to a worker                                        *)

Key(w) == msg[w].key
Goto(w, stage) == pc' = [pc EXCEPT ![w] = stage]

Id(m) == [key |-> m.key, copy |-> m.copy]
Busy(m) == {v \in Workers : pc[v] # "idle" /\ msg[v].key = m.key}

\* A message is handled by the worker that takes the claim of its event.
Take(w) ==
  /\ pc[w] = "idle"
  /\ \E m \in inbox :
       /\ IF Busy(m) = {} /\ Id(m) \notin processed
            THEN UNCHANGED overlaps
            ELSE overlaps < MaxOverlaps /\ overlaps' = overlaps + 1
       /\ msg' = [msg EXCEPT ![w] = m]
       /\ lost' = [v \in Workers |-> lost[v] \/ (v \in Busy(m) /\ Id(msg[v]) = Id(m))]
  /\ Goto(w, "session")
  /\ UNCHANGED <<sessionVars, turn, toolVars, queueVars, seen, found, wants, history, faults>>

\* A message of a processed event is committed without being handled.
Skip ==
  /\ \E m \in inbox : Id(m) \in processed /\ inbox' = inbox \ {m}
  /\ UNCHANGED <<sessionVars, turn, toolVars, published, processed, dead, workerVars,
                 history, bounds>>

\* The worker is done with its event and waits for the next one.
Leave(w) ==
  /\ pc' = [pc EXCEPT ![w] = "idle"]
  /\ msg' = [msg EXCEPT ![w] = NoEvent]
  /\ seen' = [seen EXCEPT ![w] = 0]
  /\ found' = [found EXCEPT ![w] = "none"]
  /\ wants' = [wants EXCEPT ![w] = {}]
  /\ lost' = [lost EXCEPT ![w] = FALSE]

\* The handler returned: the event is recorded as processed, unless the claim is
\* gone, which is an error that leaves the event to its new owner.
Acknowledge(w) ==
  /\ pc[w] = "ack"
  /\ IF lost[w]
       THEN UNCHANGED <<inbox, processed>>
       ELSE /\ inbox' = inbox \ {msg[w]}
            /\ processed' = processed \cup {Id(msg[w])}
  /\ Leave(w)
  /\ UNCHANGED <<sessionVars, turn, toolVars, published, dead, history, bounds>>

\* The handler raised: the next attempt is published or the event dead-lettered.
Requeue(w) ==
  LET m == msg[w]
      rest == IF lost[w] THEN inbox ELSE inbox \ {m}
  IN
  /\ pc[w] = "requeue"
  /\ IF m.att < MaxAttempts
       THEN inbox' = rest \cup {Event(m.key, m.copy, m.att + 1)} /\ UNCHANGED dead
       ELSE inbox' = rest /\ dead' = dead \cup {m.key}
  /\ Leave(w)
  /\ UNCHANGED <<sessionVars, turn, toolVars, published, processed, history, bounds>>

-----------------------------------------------------------------------------
(* _run_turn                                                               *)

\* get_session: a closed session ignores the event, and a session that waits for
\* tools ignores everything but their terminal events.
GetSession(w) ==
  /\ pc[w] = "session"
  /\ IF status \in Terminal \/ (status = "waiting_tool" /\ Key(w) = Start)
       THEN Goto(w, "ack") /\ UNCHANGED seen
       ELSE Goto(w, "lookup") /\ seen' = [seen EXCEPT ![w] = turnCount]
  /\ UNCHANGED <<sessionVars, turn, toolVars, queueVars, msg, found, wants, lost,
                 history, bounds>>

\* Variant: a completed turn is run again.
TurnForTriggerAgain(w) ==
  /\ pc[w] = "lookup"
  /\ found' = [found EXCEPT ![w] = turn[Key(w)]]
  /\ Goto(w, CASE turn[Key(w)] = "none" -> "limits"
               [] turn[Key(w)] = "completed" -> "model"
               [] OTHER -> "recover")
  /\ UNCHANGED <<sessionVars, turn, toolVars, queueVars, msg, seen, wants, lost,
                 history, bounds>>

\* _turn_for_trigger
TurnForTrigger(w) ==
  /\ pc[w] = "lookup"
  /\ found' = [found EXCEPT ![w] = turn[Key(w)]]
  /\ Goto(w, CASE turn[Key(w)] = "none" -> "limits"
               [] turn[Key(w)] = "completed" -> "ack"
               [] OTHER -> "recover")
  /\ UNCHANGED <<sessionVars, turn, toolVars, queueVars, msg, seen, wants, lost,
                 history, bounds>>

Pending(k) == {c \in Calls : parent[c] = k /\ tool[c] = "queued"}

\* Variant: a turn that was calling the model is not resumed.
RecoverTurnNever(w) ==
  /\ pc[w] = "recover"
  /\ IF Pending(Key(w)) # {}
       THEN /\ \E c \in Pending(Key(w)) : wants' = [wants EXCEPT ![w] = {c}]
            /\ Goto(w, "reissue")
       ELSE /\ Goto(w, IF found[w] = "calling_model" THEN "ack" ELSE "fail_turn")
            /\ UNCHANGED wants
  /\ UNCHANGED <<sessionVars, turn, toolVars, queueVars, msg, seen, found, lost,
                 history, bounds>>

\* get_pending_tool_call_for_turn, and what _run_turn does without one.
RecoverTurn(w) ==
  /\ pc[w] = "recover"
  /\ IF Pending(Key(w)) # {}
       THEN /\ \E c \in Pending(Key(w)) : wants' = [wants EXCEPT ![w] = {c}]
            /\ Goto(w, "reissue")
       ELSE /\ Goto(w, IF found[w] = "calling_model" THEN "model" ELSE "fail_turn")
            /\ UNCHANGED wants
  /\ UNCHANGED <<sessionVars, turn, toolVars, queueVars, msg, seen, found, lost,
                 history, bounds>>

\* _recover_incomplete_turn publishes ToolCallRequested for that call again.
Reissue(w) ==
  /\ pc[w] = "reissue"
  /\ requested' = requested \cup wants[w]
  /\ wants' = [wants EXCEPT ![w] = {}]
  /\ Goto(w, "waiting")
  /\ UNCHANGED <<sessionVars, turn, tool, parent, queueVars, msg, seen, found, lost,
                 history, bounds>>

NumCalls == Cardinality({c \in Calls : tool[c] # "none"})

\* Variant: one call more than max_tool_calls.
CallsLeftPlusOne(n) == MaxToolCalls = 0 \/ NumCalls + n <= MaxToolCalls + 1

CallsLeft(n) == MaxToolCalls = 0 \/ NumCalls + n <= MaxToolCalls

CheckLimits(w) ==
  /\ pc[w] = "limits"
  /\ Goto(w, IF seen[w] >= MaxTurns \/ ~CallsLeft(1) THEN "fail"
             ELSE IF Key(w) = Start THEN "calling" ELSE "ready")
  /\ UNCHANGED <<sessionVars, turn, toolVars, queueVars, msg, seen, found, wants, lost,
                 history, bounds>>

\* Variant: a failed call has no output.
ReadyToolOutputsCompletedOnly(w) ==
  /\ pc[w] = "ready"
  /\ IF tool[Key(w)] # "completed"
       THEN Goto(w, "ack")
       ELSE Goto(w, IF Pending(parent[Key(w)]) = {} THEN "calling" ELSE "ack")
  /\ UNCHANGED <<sessionVars, turn, toolVars, queueVars, msg, seen, found, wants, lost,
                 history, bounds>>

\* _ready_tool_outputs: the event of a call waits for the other calls of its turn.
\* The call itself may be cancelled by now; then ToolCallCompleted ends here,
\* while ToolCallFailed and ToolCallDenied go on with the error they carry.
ReadyToolOutputs(w) ==
  /\ pc[w] = "ready"
  /\ IF tool[Key(w)] = "cancelled"
       THEN Goto(w, "ack") \/ Goto(w, "calling")
       ELSE Goto(w, IF Pending(parent[Key(w)]) = {} THEN "calling" ELSE "ack")
  /\ UNCHANGED <<sessionVars, turn, toolVars, queueVars, msg, seen, found, wants, lost,
                 history, bounds>>

\* update_session_status
UpdateStatus(w, from, value, to) ==
  /\ pc[w] = from
  /\ status' = IF status \in Closed THEN status ELSE value
  /\ UNCHANGED <<analysis, turnCount, turn, toolVars, queueVars, msg, seen, found, wants,
                 lost, history, bounds>>
  /\ Goto(w, to)

SetCallingModel(w) == UpdateStatus(w, "calling", "calling_model", "start")
SetWaitingTool(w)  == UpdateStatus(w, "waiting", "waiting_tool", "ack")

\* start_turn: a second turn of the same trigger violates the unique index.
StartTurn(w) ==
  /\ pc[w] = "start"
  /\ IF turn[Key(w)] = "none"
       THEN turn' = [turn EXCEPT ![Key(w)] = "calling_model"] /\ Goto(w, "model")
       ELSE Goto(w, "requeue") /\ UNCHANGED turn
  /\ UNCHANGED <<sessionVars, toolVars, queueVars, msg, seen, found, wants, lost,
                 history, bounds>>

-----------------------------------------------------------------------------
(* _run_model_turn                                                         *)

Unused == {c \in Calls : tool[c] = "none"} \ UNION {wants[v] : v \in Workers}

\* The model answers, and the session is read again.
ModelResponds(w) ==
  /\ pc[w] = "model"
  /\ IF status \in Closed
       THEN Goto(w, "ack") /\ UNCHANGED wants
       ELSE \/ Goto(w, "answer") /\ UNCHANGED wants
            \/ \E batch \in SUBSET Unused :
                 /\ Cardinality(batch) \in 1..MaxBatch
                 /\ wants' = [wants EXCEPT ![w] = batch]
                 /\ Goto(w, "count")
  /\ UNCHANGED <<sessionVars, turn, toolVars, queueVars, msg, seen, found, lost,
                 history, bounds>>

\* The call raises: a retryable error is left to the redelivery of the event as
\* long as attempts remain, any other one, or a failed compaction, ends the turn.
ModelFails(w) ==
  /\ pc[w] = "model"
  /\ \/ msg[w].att < MaxAttempts /\ Goto(w, "requeue")
     \/ Goto(w, "fail_turn")
  /\ UNCHANGED <<sessionVars, turn, toolVars, queueVars, msg, seen, found, wants, lost,
                 history, bounds>>

\* The second comparison with max_tool_calls.
CountToolCalls(w) ==
  /\ pc[w] = "count"
  /\ Goto(w, IF CallsLeft(Cardinality(wants[w])) THEN "tools" ELSE "fail")
  /\ UNCHANGED <<sessionVars, turn, toolVars, queueVars, msg, seen, found, wants, lost,
                 history, bounds>>

\* _lock_continuable_session
Continuable == analysis \notin Closed /\ status \notin Closed

TurnCompleted(k) ==
  /\ turnCount' = turnCount + 1
  /\ turn' = [turn EXCEPT ![k] = "completed"]
  /\ completions' = [completions EXCEPT ![k] = @ + 1]

\* Variant: the session is not locked and checked first.
CompleteWithToolCallsUnlocked(w) ==
  /\ pc[w] = "tools"
  /\ IF TRUE
       THEN /\ TurnCompleted(Key(w))
            /\ \E reused \in SUBSET wants[w] :
                 /\ reused # {} => \E c \in Calls : tool[c] = "completed"
                 /\ tool' = [c \in Calls |-> IF c \in reused THEN "completed"
                                             ELSE IF c \in wants[w] THEN "queued" ELSE tool[c]]
                 /\ requested' = requested \cup (wants[w] \ reused)
                 /\ inbox' = inbox \cup {Event(c, 1, 1) : c \in reused}
                 /\ published' = [k \in Triggers |-> IF k \in reused THEN 1 ELSE published[k]]
            /\ parent' = [c \in Calls |-> IF c \in wants[w] THEN Key(w) ELSE parent[c]]
            /\ Goto(w, "waiting")
       ELSE /\ Goto(w, "requeue")
            /\ UNCHANGED <<turnCount, turn, completions, toolVars, inbox, published>>
  /\ wants' = [wants EXCEPT ![w] = {}]
  /\ UNCHANGED <<analysis, status, processed, dead, msg, seen, found, lost, ended, bounds>>

\* complete_turn_with_tool_calls: the turn, its tool calls and their events in one
\* transaction.  A call the agent has made before reuses that result.
CompleteWithToolCalls(w) ==
  /\ pc[w] = "tools"
  /\ IF Continuable
       THEN /\ TurnCompleted(Key(w))
            /\ \E reused \in SUBSET wants[w] :
                 /\ reused # {} => \E c \in Calls : tool[c] = "completed"
                 /\ tool' = [c \in Calls |-> IF c \in reused THEN "completed"
                                             ELSE IF c \in wants[w] THEN "queued" ELSE tool[c]]
                 /\ requested' = requested \cup (wants[w] \ reused)
                 /\ inbox' = inbox \cup {Event(c, 1, 1) : c \in reused}
                 /\ published' = [k \in Triggers |-> IF k \in reused THEN 1 ELSE published[k]]
            /\ parent' = [c \in Calls |-> IF c \in wants[w] THEN Key(w) ELSE parent[c]]
            /\ Goto(w, "waiting")
       ELSE /\ Goto(w, "requeue")
            /\ UNCHANGED <<turnCount, turn, completions, toolVars, inbox, published>>
  /\ wants' = [wants EXCEPT ![w] = {}]
  /\ UNCHANGED <<analysis, status, processed, dead, msg, seen, found, lost, ended, bounds>>

\* complete_turn_with_final_answer
CompleteWithAnswer(w) ==
  /\ pc[w] = "answer"
  /\ IF Continuable
       THEN /\ TurnCompleted(Key(w))
            /\ analysis' = "completed"
            /\ status' = "completed"
            /\ ended' = Append(ended, "completed")
       ELSE UNCHANGED <<sessionVars, turn, history>>
  /\ Goto(w, "ack")
  /\ UNCHANGED <<toolVars, queueVars, msg, seen, found, wants, lost, bounds>>

\* fail_turn
FailTurn(w) ==
  /\ pc[w] = "fail_turn"
  /\ turn' = [turn EXCEPT ![Key(w)] = "failed"]
  /\ Goto(w, "fail")
  /\ UNCHANGED <<sessionVars, toolVars, queueVars, msg, seen, found, wants, lost,
                 history, bounds>>

\* Variant: the status guard is missing.
FailAnalysisAlways(w) ==
  /\ pc[w] = "fail"
  /\ IF FALSE
       THEN Goto(w, "ack") /\ UNCHANGED analysis
       ELSE Goto(w, "report") /\ analysis' = "failed"
  /\ status' = IF status \in Closed THEN status ELSE "failed"
  /\ UNCHANGED <<turnCount, turn, toolVars, queueVars, msg, seen, found, wants, lost,
                 history, bounds>>

\* fail_analysis
FailAnalysis(w) ==
  /\ pc[w] = "fail"
  /\ IF analysis \in Closed
       THEN Goto(w, "ack") /\ UNCHANGED analysis
       ELSE Goto(w, "report") /\ analysis' = "failed"
  /\ status' = IF status \in Closed THEN status ELSE "failed"
  /\ UNCHANGED <<turnCount, turn, toolVars, queueVars, msg, seen, found, wants, lost,
                 history, bounds>>

\* add_outbox(AnalysisFailed), a transaction of its own.
ReportFailure(w) ==
  /\ pc[w] = "report"
  /\ ended' = Append(ended, "failed")
  /\ Goto(w, "ack")
  /\ UNCHANGED <<sessionVars, turn, toolVars, queueVars, msg, seen, found, wants, lost,
                 completions, bounds>>

-----------------------------------------------------------------------------
(* Execution worker, API and faults                                        *)

\* The execution worker publishes one more terminal event of call c.
Publish(c) ==
  /\ published[c] < MaxCopies
  /\ published' = [published EXCEPT ![c] = @ + 1]
  /\ inbox' = inbox \cup {Event(c, published[c] + 1, 1)}

\* finalize_tool_call records the result together with the terminal event.
ToolFinishes(c) ==
  /\ c \in requested
  /\ tool[c] = "queued"
  /\ \E outcome \in {"completed", "failed"} : tool' = [tool EXCEPT ![c] = outcome]
  /\ requested' = requested \ {c}
  /\ Publish(c)
  /\ UNCHANGED <<sessionVars, turn, parent, processed, dead, workerVars, history, bounds>>

\* A redelivered ToolCallRequested of a finished call publishes its event again.
Republish(c) ==
  /\ tool[c] \in Terminal
  /\ Publish(c)
  /\ requested' = requested \ {c}
  /\ UNCHANGED <<sessionVars, turn, tool, parent, processed, dead, workerVars, history, bounds>>

\* PostgresAnalysisService.cancel
Cancel ==
  /\ analysis \notin Terminal
  /\ analysis' = "cancelling"
  /\ status' = IF status \in Terminal THEN status ELSE "cancelled"
  /\ tool' = [c \in Calls |-> IF tool[c] = "queued" THEN "cancelled" ELSE tool[c]]
  /\ UNCHANGED <<turnCount, turn, parent, requested, queueVars, workerVars, history, bounds>>

\* _handle_analysis_cancel_requested
HandleCancelRequested ==
  /\ analysis = "cancelling"
  /\ analysis' = "cancelled"
  /\ status' = IF status \in Terminal THEN status ELSE "cancelled"
  /\ tool' = [c \in Calls |-> IF tool[c] = "queued" THEN "cancelled" ELSE tool[c]]
  /\ ended' = Append(ended, "cancelled")
  /\ UNCHANGED <<turnCount, turn, parent, requested, queueVars, workerVars, completions, bounds>>

\* The event of a requested call is dead-lettered by the execution worker.
ToolRequestLost(c) ==
  /\ c \in requested
  /\ faults < MaxFaults
  /\ faults' = faults + 1
  /\ requested' = requested \ {c}
  /\ UNCHANGED <<sessionVars, turn, tool, parent, queueVars, workerVars, history, overlaps>>

\* A repository call raises; handle_message publishes the next attempt.
CallRaises(w) ==
  /\ pc[w] \notin {"idle", "ack", "requeue"}
  /\ faults < MaxFaults
  /\ faults' = faults + 1
  /\ Goto(w, "requeue")
  /\ UNCHANGED <<sessionVars, turn, toolVars, queueVars, msg, seen, found, wants, lost,
                 history, overlaps>>

\* The worker dies; its event is delivered again once its claim has expired.
WorkerDies(w) ==
  /\ pc[w] # "idle"
  /\ faults < MaxFaults
  /\ faults' = faults + 1
  /\ Leave(w)
  /\ UNCHANGED <<sessionVars, turn, toolVars, queueVars, history, overlaps>>

-----------------------------------------------------------------------------
RunTurn(w) ==
  \/ GetSession(w) \/ TurnForTrigger(w) \/ RecoverTurn(w) \/ Reissue(w)
  \/ CheckLimits(w) \/ ReadyToolOutputs(w) \/ SetCallingModel(w) \/ StartTurn(w)
  \/ SetWaitingTool(w)

RunModelTurn(w) ==
  \/ ModelResponds(w) \/ ModelFails(w) \/ CountToolCalls(w)
  \/ CompleteWithToolCalls(w) \/ CompleteWithAnswer(w)
  \/ FailTurn(w) \/ FailAnalysis(w) \/ ReportFailure(w)

Handle(w) == RunTurn(w) \/ RunModelTurn(w) \/ Acknowledge(w) \/ Requeue(w)

Next ==
  \/ \E w \in Workers : Take(w) \/ Handle(w) \/ CallRaises(w) \/ WorkerDies(w)
  \/ \E c \in Calls : ToolFinishes(c) \/ Republish(c) \/ ToolRequestLost(c)
  \/ Skip \/ Cancel \/ HandleCancelRequested

\* Workers are restarted and keep consuming, model calls time out, and the
\* execution worker finishes what is requested (module ToolCallExecution).
Fairness ==
  /\ \A w \in Workers : WF_vars(Take(w)) /\ WF_vars(Handle(w))
  /\ \A c \in Calls : WF_vars(ToolFinishes(c))
  /\ WF_vars(Skip) /\ WF_vars(HandleCancelRequested)

Spec == Init /\ [][Next]_vars
FairSpec == Spec /\ Fairness

-----------------------------------------------------------------------------
(* Properties                                                              *)

Stages == {"idle", "session", "lookup", "recover", "reissue", "limits", "ready", "calling",
           "start", "model", "count", "tools", "answer", "waiting", "fail_turn", "fail",
           "report", "ack", "requeue"}
Events == [key : Triggers, copy : 1..MaxCopies, att : 1..MaxAttempts]
TurnStatus == {"none", "calling_model", "completed", "failed"}

TypeOK ==
  /\ analysis \in {"running", "cancelling"} \cup Terminal
  /\ status \in {"queued", "calling_model", "waiting_tool"} \cup Terminal
  /\ turnCount \in Nat
  /\ turn \in [Triggers -> TurnStatus]
  /\ tool \in [Calls -> {"none", "queued"} \cup Terminal]
  /\ parent \in [Calls -> Triggers]
  /\ requested \in SUBSET Calls
  /\ published \in [Triggers -> 0..MaxCopies]
  /\ inbox \in SUBSET Events
  /\ processed \in SUBSET [key : Triggers, copy : 1..MaxCopies]
  /\ dead \in SUBSET Triggers
  /\ pc \in [Workers -> Stages]
  /\ msg \in [Workers -> Events]
  /\ seen \in [Workers -> Nat]
  /\ found \in [Workers -> TurnStatus]
  /\ wants \in [Workers -> SUBSET Calls]
  /\ lost \in [Workers -> BOOLEAN]
  /\ ended \in Seq(Terminal)
  /\ completions \in [Triggers -> Nat]
  /\ faults \in Nat /\ overlaps \in Nat

\* An analysis ends once: whatever workers, the API and redeliveries do at the
\* same time, at most one terminal event is published, it agrees with the final
\* status, and session and analysis end the same way although each row is
\* updated under its own guard (_lock_continuable_session, fail_analysis, cancel).
EndsOnce ==
  /\ Len(ended) <= 1
  /\ ended # <<>> => analysis = ended[1]
  /\ analysis = "completed" => ended # <<>>
  /\ status = (IF analysis = "cancelling" THEN "cancelled" ELSE analysis)
     \/ (analysis = "running" /\ status \notin Closed)

\* Redelivery never repeats a turn: after a death, a failing call or a duplicate
\* event the turn of a trigger is completed once, unless two workers overlap on it
\* (_turn_for_trigger, start_turn, complete_turn_with_tool_calls).
TurnCompletedOnce == overlaps = 0 => \A k \in Triggers : completions[k] <= 1

\* max_tool_calls is compared before the transaction that creates the calls, so
\* workers that are between the two can exceed it, by one response each at most.
ToolCallLimit ==
  MaxToolCalls > 0 => NumCalls <= MaxToolCalls + MaxBatch * (Cardinality(Workers) - 1)

\* No wakeup is lost: while the analysis runs, something is still on its way that
\* will drive the agent, even when parallel calls finish at the same moment and
\* each terminal event sees the other call still running (_ready_tool_outputs).
\* The exceptions are events that ended in a dead letter queue.
OnItsWay(k) == \E m \in inbox : m.key = k /\ Id(m) \notin processed

NeverStuck ==
  analysis = "running" =>
    \/ \E k \in Triggers : OnItsWay(k)
    \/ dead # {}
    \/ \E c \in Calls : tool[c] = "queued"

\* After a cancellation no tool call is created and no turn completed, also when
\* the model answers a request that was sent before.
Cancelled == analysis \in {"cancelling", "cancelled"}

CancelledMeansStopped ==
  [][Cancelled => /\ Cancelled'
                  /\ completions' = completions
                  /\ (\A c \in Calls : tool[c] = "none" => tool'[c] = "none")]_vars

\* A request or an event was given up.
GivenUp == dead # {} \/ \E c \in Calls : tool[c] = "queued" /\ c \notin requested

\* Every analysis ends, also when workers die in the middle of a turn, unless an
\* event was dead-lettered.
AnalysisEnds == <>(analysis \in Terminal \/ GivenUp)

=============================================================================
