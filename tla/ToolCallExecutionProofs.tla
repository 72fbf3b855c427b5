---------------------- MODULE ToolCallExecutionProofs ----------------------
(***************************************************************************)
(* Machine-checked proofs about ToolCallExecution, for every set of calls  *)
(* and workers and every bound.                                            *)
(***************************************************************************)
EXTENDS ToolCallExecution, SequenceTheorems, TLAPS

USE ExecutionAssumption DEF workerVars, sinkVars, bounds

\* Rows of tool_calls and of event_processing_claims.
ToolRows == [status : {"queued", "running"} \cup TerminalTool,
             owner : Workers \cup {NoWorker},
             state : {"free", "live", "expired"}]
LeaseRows == [owner : Workers \cup {NoWorker}, state : {"free", "live", "expired"}]

\* The inductive invariant of the execution worker.
IInv == TypeOK /\ OneResult /\ OwnedIsRunning /\ OutcomeKnown

\* Rows stay rows when claims are released, orphaned or reset.
LEMMA RowTypes ==
  ASSUME TypeOK, NEW w \in Workers
  PROVE  /\ OrphanedTool(w) \in [Calls -> ToolRows]
         /\ ReleasedTool(w) \in [Calls -> ToolRows]
         /\ ReleasedLease(w) \in [Calls -> LeaseRows]
         /\ Unclaimed("queued") \in ToolRows
         /\ \A s \in TerminalTool : Unclaimed(s) \in ToolRows
<1>1. tool \in [Calls -> ToolRows] /\ lease \in [Calls -> LeaseRows]
  BY DEF TypeOK, ToolRows, LeaseRows
<1>2. Unclaimed("queued") \in ToolRows /\ \A s \in TerminalTool : Unclaimed(s) \in ToolRows
  BY DEF Unclaimed, ToolRows
<1>3. OrphanedTool(w) \in [Calls -> ToolRows]
  BY <1>1 DEF OrphanedTool, ToolRows
<1>4. ReleasedTool(w) \in [Calls -> ToolRows]
  BY <1>2, <1>3 DEF ReleasedTool
<1>5. ReleasedLease(w) \in [Calls -> LeaseRows]
  BY <1>1 DEF ReleasedLease, LeaseRows, Free
<1>6. QED BY <1>2, <1>3, <1>4, <1>5

\* The end of an invocation leaves the worker idle.
LEMMA LeaveType ==
  ASSUME TypeOK, NEW w \in Workers, Leave(w)
  PROVE  /\ pc' \in [Workers -> Stages]
         /\ call' \in [Workers -> Calls]
         /\ attempt' \in [Workers -> 0 .. MaxAttempts]
         /\ outcome' \in [Workers -> {"none"} \cup TerminalTool]
         /\ hb' \in [Workers -> {"off", "on", "failed"}]
BY DEF TypeOK, Leave, Stages, SomeCall

\* Committing a message, with or without publishing the next attempt, keeps the
\* set of messages well typed.
LEMMA MessagesType ==
  ASSUME TypeOK, NEW c \in Calls, NEW a
  PROVE  /\ [messages EXCEPT ![c] = messages[c] \ {a}] \in [Calls -> SUBSET (1 .. MaxAttempts)]
         /\ \A b \in 1 .. MaxAttempts :
              [messages EXCEPT ![c] = (messages[c] \ {a}) \cup {b}]
                \in [Calls -> SUBSET (1 .. MaxAttempts)]
<1>1. messages \in [Calls -> SUBSET (1 .. MaxAttempts)]
  BY DEF TypeOK
<1>2. messages[c] \in SUBSET (1 .. MaxAttempts)
  BY <1>1
<1>3. messages[c] \ {a} \in SUBSET (1 .. MaxAttempts)
  BY <1>2
<1>4. ASSUME NEW b \in 1 .. MaxAttempts
      PROVE  (messages[c] \ {a}) \cup {b} \in SUBSET (1 .. MaxAttempts)
  BY <1>2
<1>5. QED BY <1>1, <1>3, <1>4

\* Every step of the execution worker keeps the types.
LEMMA TypeStep ==
  ASSUME TypeOK, OutcomeKnown, [Next]_vars
  PROVE  TypeOK'
<1>0. tool \in [Calls -> ToolRows] /\ lease \in [Calls -> LeaseRows]
  BY DEF TypeOK, ToolRows, LeaseRows
<1>1. ASSUME NEW w \in Workers, Handle(w) PROVE TypeOK'
  <2>0. /\ call[w] \in Calls /\ attempt[w] \in 0 .. MaxAttempts
        /\ [status |-> "running", owner |-> w, state |-> "live"] \in ToolRows
    BY DEF TypeOK, ToolRows
  <2>1. CASE ClaimToolCall(w)
    <3>1. \/ UNCHANGED tool
          \/ tool' = [tool EXCEPT ![call[w]] = [status |-> "running", owner |-> w, state |-> "live"]]
      BY <2>1 DEF ClaimToolCall
    <3>2. tool' \in [Calls -> ToolRows]
      BY <1>0, <2>0, <3>1
    <3>3. pc' \in [Workers -> Stages]
      BY <2>1, ZenonT(60) DEF ClaimToolCall, Goto, TypeOK, Stages
    <3>4. QED BY <2>1, <3>2, <3>3 DEF ClaimToolCall, TypeOK, ToolRows
  <2>2. CASE Republish(w)
    <3>1. announced' \in SUBSET Calls /\ pc' \in [Workers -> Stages]
      BY <2>2, <2>0, ZenonT(60) DEF Republish, Goto, TypeOK, Stages
    <3>2. QED BY <2>2, <3>1 DEF Republish, TypeOK
  <2>3. CASE CheckAnalysis(w)
    BY <2>3 DEF CheckAnalysis, Goto, TypeOK, Stages, TerminalTool
  <2>4. CASE ExecuteReturns(w)
    <3>1. tool' \in [Calls -> ToolRows]
      BY <1>0, <2>4, RowTypes DEF ExecuteReturns
    <3>2. /\ pc' \in [Workers -> Stages]
          /\ outcome' \in [Workers -> {"none"} \cup TerminalTool]
          /\ hb' \in [Workers -> {"off", "on", "failed"}]
      BY <2>4, ZenonT(60) DEF ExecuteReturns, Goto, TypeOK, Stages, TerminalTool
    <3>3. QED BY <2>4, <3>1, <3>2 DEF ExecuteReturns, TypeOK, ToolRows
  <2>5. CASE ExecuteRaises(w)
    <3>1. tool' \in [Calls -> ToolRows]
      BY <2>5, RowTypes DEF ExecuteRaises
    <3>2. QED BY <2>0, <2>5, <3>1 DEF ExecuteRaises, Goto, TypeOK, Stages, ToolRows
  <2>6. CASE Finalize(w)
    <3>1. outcome[w] \in TerminalTool
      BY <2>6 DEF Finalize, OutcomeKnown
    <3>2. \/ tool' = OrphanedTool(w) /\ UNCHANGED <<results, announced>>
          \/ /\ tool' = [tool EXCEPT ![call[w]] = Unclaimed(outcome[w])]
             /\ results' = [results EXCEPT ![call[w]] = Append(results[call[w]], outcome[w])]
             /\ announced' = announced \cup {call[w]}
      BY <2>6 DEF Finalize
    <3>3. tool' \in [Calls -> ToolRows]
      BY <1>0, <2>0, <3>1, <3>2, RowTypes
    <3>4. results[call[w]] \in Seq(TerminalTool)
      BY <2>0 DEF TypeOK
    <3>5. Append(results[call[w]], outcome[w]) \in Seq(TerminalTool)
      BY <3>1, <3>4, AppendProperties
    <3>a. results \in [Calls -> Seq(TerminalTool)] /\ announced \in SUBSET Calls
      BY DEF TypeOK
    <3>b. results' \in [Calls -> Seq(TerminalTool)]
      BY <2>0, <3>2, <3>5, <3>a
    <3>c. announced' \in SUBSET Calls
      BY <2>0, <3>2, <3>a
    <3>6. results' \in [Calls -> Seq(TerminalTool)] /\ announced' \in SUBSET Calls
      BY <3>b, <3>c
    <3>7. pc' \in [Workers -> Stages]
      BY <2>6 DEF Finalize, Goto, TypeOK, Stages
    <3>8. QED BY <2>6, <3>3, <3>6, <3>7 DEF Finalize, TypeOK, ToolRows
  <2>7. CASE MarkProcessed(w)
    <3>0. Leave(w)
      BY <2>7 DEF MarkProcessed
    <3>1. lease' \in [Calls -> LeaseRows]
      BY <1>0, <2>7, RowTypes DEF MarkProcessed
    <3>a. \/ UNCHANGED <<processed, messages>>
          \/ /\ processed' = processed \cup {call[w]}
             /\ messages' = [messages EXCEPT ![call[w]] = messages[call[w]] \ {attempt[w]}]
      BY <2>7 DEF MarkProcessed
    <3>b. processed' \in SUBSET Calls
      BY <2>0, <3>a DEF TypeOK
    <3>c. messages' \in [Calls -> SUBSET (1 .. MaxAttempts)]
      BY <2>0, <3>a, MessagesType
    <3>2. processed' \in SUBSET Calls /\ messages' \in [Calls -> SUBSET (1 .. MaxAttempts)]
      BY <3>b, <3>c
    <3>3. UNCHANGED <<analysis, tool, dead, sinkVars, bounds>>
      BY <2>7 DEF MarkProcessed
    <3>4. QED BY <3>0, <3>1, <3>2, <3>3, LeaveType DEF TypeOK, LeaseRows
  <2>8. CASE Requeue(w)
    <3>0. Leave(w)
      BY <2>8 DEF Requeue
    <3>1. lease' \in [Calls -> LeaseRows]
      BY <2>8, RowTypes DEF Requeue
    <3>a. \/ /\ attempt[w] < MaxAttempts
             /\ messages' = [messages EXCEPT ![call[w]] =
                               (messages[call[w]] \ {attempt[w]}) \cup {attempt[w] + 1}]
             /\ UNCHANGED dead
          \/ /\ messages' = [messages EXCEPT ![call[w]] = messages[call[w]] \ {attempt[w]}]
             /\ dead' = dead \cup {call[w]}
      BY <2>8 DEF Requeue
    <3>b. dead' \in SUBSET Calls
      BY <2>0, <3>a DEF TypeOK
    <3>d. attempt[w] < MaxAttempts => attempt[w] + 1 \in 1 .. MaxAttempts
      BY <2>0
    <3>e. [messages EXCEPT ![call[w]] = messages[call[w]] \ {attempt[w]}]
            \in [Calls -> SUBSET (1 .. MaxAttempts)]
      BY <2>0, MessagesType
    <3>f. attempt[w] < MaxAttempts =>
            [messages EXCEPT ![call[w]] = (messages[call[w]] \ {attempt[w]}) \cup {attempt[w] + 1}]
              \in [Calls -> SUBSET (1 .. MaxAttempts)]
      BY <2>0, <3>d, MessagesType
    <3>c. messages' \in [Calls -> SUBSET (1 .. MaxAttempts)]
      BY <3>a, <3>e, <3>f
    <3>2. dead' \in SUBSET Calls /\ messages' \in [Calls -> SUBSET (1 .. MaxAttempts)]
      BY <3>b, <3>c
    <3>3. UNCHANGED <<analysis, tool, processed, sinkVars, bounds>>
      BY <2>8 DEF Requeue
    <3>4. QED BY <3>0, <3>1, <3>2, <3>3, LeaveType DEF TypeOK, LeaseRows
  <2>9. QED BY <1>1, <2>1, <2>2, <2>3, <2>4, <2>5, <2>6, <2>7, <2>8 DEF Handle
<1>2. ASSUME NEW w \in Workers, RenewToolClaim(w) \/ RenewLease(w) PROVE TypeOK'
  <2>0. call[w] \in Calls
    BY DEF TypeOK
  <2>1. CASE RenewToolClaim(w)
    <3>1. \/ UNCHANGED tool
          \/ tool' = [tool EXCEPT ![call[w]].state = "live"]
      BY <2>1 DEF RenewToolClaim
    <3>2. tool' \in [Calls -> ToolRows]
      BY <1>0, <2>0, <3>1 DEF ToolRows
    <3>3. hb' \in [Workers -> {"off", "on", "failed"}]
      BY <2>1 DEF RenewToolClaim, TypeOK
    <3>4. QED BY <2>1, <3>2, <3>3 DEF RenewToolClaim, TypeOK, ToolRows
  <2>2. CASE RenewLease(w)
    <3>1. lease' = [lease EXCEPT ![call[w]].state = "live"]
      BY <2>2 DEF RenewLease
    <3>2. lease' \in [Calls -> LeaseRows]
      BY <1>0, <2>0, <3>1 DEF LeaseRows
    <3>3. QED BY <2>2, <3>2 DEF RenewLease, TypeOK, LeaseRows
  <2>3. QED BY <1>2, <2>1, <2>2
<1>3. ASSUME NEW w \in Workers, Failure(w) PROVE TypeOK'
  <2>0. call[w] \in Calls
    BY DEF TypeOK
  <2>1. CASE HeartbeatFails(w)
    BY <2>1 DEF HeartbeatFails, TypeOK
  <2>2. CASE FinalizeFails(w)
    <3>1. tool' \in [Calls -> ToolRows]
      BY <2>2, RowTypes DEF FinalizeFails
    <3>2. QED BY <2>0, <2>2, <3>1 DEF FinalizeFails, Goto, TypeOK, Stages, ToolRows
  <2>3. CASE WorkerDies(w)
    <3>0. Leave(w)
      BY <2>3 DEF WorkerDies
    <3>1. tool' \in [Calls -> ToolRows]
      BY <2>3, RowTypes DEF WorkerDies
    <3>2. lease' \in [Calls -> LeaseRows]
      BY <1>0, <2>3 DEF WorkerDies, LeaseRows
    <3>3. UNCHANGED <<analysis, messages, processed, dead, sinkVars, stalls>> /\ faults' = faults + 1
      BY <2>3 DEF WorkerDies
    <3>4. QED BY <3>0, <3>1, <3>2, <3>3, LeaveType, SMTT(30) DEF TypeOK, ToolRows, LeaseRows
  <2>4. CASE WorkerStopped(w)
    <3>0. Leave(w)
      BY <2>4 DEF WorkerStopped
    <3>1. tool' \in [Calls -> ToolRows] /\ lease' \in [Calls -> LeaseRows]
      BY <2>4, RowTypes DEF WorkerStopped
    <3>2. UNCHANGED <<analysis, messages, processed, dead, sinkVars, stalls>> /\ faults' = faults + 1
      BY <2>4 DEF WorkerStopped
    <3>3. QED BY <3>0, <3>1, <3>2, LeaveType, SMTT(30) DEF TypeOK, ToolRows, LeaseRows
  <2>5. QED BY <1>3, <2>1, <2>2, <2>3, <2>4 DEF Failure
<1>4. ASSUME NEW c \in Calls, Consume(c) PROVE TypeOK'
  <2>1. PICK a \in messages[c] : Skip(c, a) \/ \E w \in Workers : Deliver(w, c, a)
    BY <1>4 DEF Consume
  <2>2. CASE Skip(c, a)
    BY <2>2 DEF Skip, TypeOK
  <2>3. ASSUME NEW w \in Workers, Deliver(w, c, a) PROVE TypeOK'
    <3>1. a \in 1 .. MaxAttempts
      BY <2>3 DEF Deliver, TypeOK
    <3>2. lease' \in [Calls -> LeaseRows]
      BY <1>0, <2>3 DEF Deliver, LeaseRows
    <3>3. QED BY <2>3, <3>1, <3>2 DEF Deliver, Goto, TypeOK, Stages, LeaseRows
  <2>4. QED BY <2>1, <2>2, <2>3
<1>5. ASSUME NEW c \in Calls, ToolClaimExpires(c) \/ LeaseExpires(c) PROVE TypeOK'
  <2>1. CASE ToolClaimExpires(c)
    <3>1. tool' = [tool EXCEPT ![c].state = "expired"]
      BY <2>1 DEF ToolClaimExpires
    <3>2. tool' \in [Calls -> ToolRows]
      BY <1>0, <3>1 DEF ToolRows
    <3>3. stalls' \in Nat
      BY <2>1 DEF ToolClaimExpires, TypeOK
    <3>4. QED BY <2>1, <3>2, <3>3 DEF ToolClaimExpires, TypeOK, ToolRows
  <2>2. CASE LeaseExpires(c)
    <3>1. lease' = [lease EXCEPT ![c].state = "expired"]
      BY <2>2 DEF LeaseExpires
    <3>2. lease' \in [Calls -> LeaseRows]
      BY <1>0, <3>1 DEF LeaseRows
    <3>3. stalls' \in Nat
      BY <2>2 DEF LeaseExpires, TypeOK
    <3>4. QED BY <2>2, <3>2, <3>3 DEF LeaseExpires, TypeOK, LeaseRows
  <2>3. QED BY <1>5, <2>1, <2>2
<1>6. CASE CancelAnalysis
  <2>1. tool' \in [Calls -> ToolRows]
    BY <1>0, <1>6 DEF CancelAnalysis, ToolRows, TerminalTool
  <2>2. QED BY <1>6, <2>1 DEF CancelAnalysis, TypeOK, ToolRows
<1>7. CASE UNCHANGED vars
  BY <1>7 DEF vars, TypeOK
<1>8. QED BY <1>1, <1>2, <1>3, <1>4, <1>5, <1>6, <1>7 DEF Next

-----------------------------------------------------------------------------
(* What a step may do to a tool call                                       *)

\* A step leaves status and result of a call alone, requeues or starts an
\* unfinished call, cancels it, or records the result of the worker that owns it.
LEMMA CallStep ==
  ASSUME IInv, [Next]_vars, NEW c \in Calls
  PROVE  \/ tool'[c].status = tool[c].status /\ results'[c] = results[c]
         \/ /\ tool[c].status \notin TerminalTool
            /\ tool'[c].status \in {"queued", "running", "cancelled"}
            /\ results'[c] = results[c]
         \/ /\ tool[c].status = "running"
            /\ tool'[c].status \in TerminalTool
            /\ results'[c] = Append(results[c], tool'[c].status)
<1>0. /\ tool \in [Calls -> ToolRows] /\ results \in [Calls -> Seq(TerminalTool)]
      /\ call \in [Workers -> Calls]
  BY DEF IInv, TypeOK, ToolRows
<1>1. ASSUME NEW w \in Workers
      PROVE  /\ OrphanedTool(w)[c].status = tool[c].status
             /\ \/ ReleasedTool(w)[c].status = tool[c].status
                \/ tool[c].status = "running" /\ ReleasedTool(w)[c].status = "queued"
  BY DEF OrphanedTool, ReleasedTool, Unclaimed
<1>2. ASSUME NEW w \in Workers, ClaimToolCall(w)
      PROVE  /\ results'[c] = results[c]
             /\ \/ tool'[c].status = tool[c].status
                \/ tool[c].status \in {"queued", "running"} /\ tool'[c].status = "running"
  <2>1. \/ UNCHANGED tool
        \/ /\ tool[call[w]].status \in {"queued", "running"}
           /\ tool' = [tool EXCEPT ![call[w]] = [status |-> "running", owner |-> w, state |-> "live"]]
    BY <1>2 DEF ClaimToolCall
  <2>2. UNCHANGED results
    BY <1>2 DEF ClaimToolCall
  <2>3. QED BY <1>0, <2>1, <2>2, SMTT(30)
<1>3. ASSUME NEW w \in Workers, Finalize(w)
      PROVE  \/ tool'[c].status = tool[c].status /\ results'[c] = results[c]
             \/ /\ tool[c].status = "running"
                /\ tool'[c].status \in TerminalTool
                /\ results'[c] = Append(results[c], tool'[c].status)
  <2>1. CASE tool' = OrphanedTool(w) /\ UNCHANGED <<results, announced>>
    BY <1>1, <2>1
  <2>2. CASE ~(tool' = OrphanedTool(w) /\ UNCHANGED <<results, announced>>)
    <3>1. /\ tool[call[w]].status # "cancelled"
          /\ tool[call[w]].owner = w
          /\ tool' = [tool EXCEPT ![call[w]] = Unclaimed(outcome[w])]
          /\ results' = [results EXCEPT ![call[w]] = Append(results[call[w]], outcome[w])]
      BY <1>3, <2>2 DEF Finalize, OwnsTool
    <3>2. call[w] \in Calls
      BY <1>0
    <3>3. tool[call[w]].status = "running"
      BY <3>1, <3>2 DEF IInv, OwnedIsRunning
    <3>4. outcome[w] \in TerminalTool
      BY <1>3 DEF Finalize, IInv, OutcomeKnown
    <3>5. Unclaimed(outcome[w]).status = outcome[w]
      BY DEF Unclaimed
    <3>6. CASE c = call[w]
      BY <1>0, <3>1, <3>3, <3>4, <3>5, <3>6
    <3>7. CASE c # call[w]
      BY <1>0, <3>1, <3>7
    <3>8. QED BY <3>6, <3>7
  <2>3. QED BY <2>1, <2>2
<1>4. ASSUME NEW w \in Workers, \/ ExecuteReturns(w) \/ WorkerDies(w) \/ WorkerStopped(w)
      PROVE  tool'[c].status = tool[c].status /\ results'[c] = results[c]
  <2>1. tool' = OrphanedTool(w) \/ UNCHANGED tool
    BY <1>4 DEF ExecuteReturns, WorkerDies, WorkerStopped
  <2>2. UNCHANGED results
    BY <1>4 DEF ExecuteReturns, WorkerDies, WorkerStopped
  <2>3. QED BY <1>1, <2>1, <2>2
<1>5. ASSUME NEW w \in Workers, ExecuteRaises(w) \/ FinalizeFails(w)
      PROVE  /\ results'[c] = results[c]
             /\ \/ tool'[c].status = tool[c].status
                \/ tool[c].status = "running" /\ tool'[c].status = "queued"
  <2>1. tool' = ReleasedTool(w) /\ UNCHANGED results
    BY <1>5 DEF ExecuteRaises, FinalizeFails
  <2>2. QED BY <1>1, <2>1
<1>6. ASSUME NEW w \in Workers,
             \/ Republish(w) \/ CheckAnalysis(w) \/ MarkProcessed(w) \/ Requeue(w)
             \/ RenewLease(w) \/ HeartbeatFails(w)
      PROVE  UNCHANGED <<tool, results>>
  BY <1>6 DEF Republish, CheckAnalysis, MarkProcessed, Requeue, RenewLease, HeartbeatFails
<1>7. ASSUME NEW w \in Workers, RenewToolClaim(w)
      PROVE  tool'[c].status = tool[c].status /\ results'[c] = results[c]
  <2>1. UNCHANGED tool \/ tool' = [tool EXCEPT ![call[w]].state = "live"]
    BY <1>7 DEF RenewToolClaim
  <2>2. UNCHANGED results
    BY <1>7 DEF RenewToolClaim
  <2>3. call[w] \in Calls /\ tool[call[w]] \in ToolRows
    BY <1>0
  <2>4. ASSUME tool' = [tool EXCEPT ![call[w]].state = "live"]
        PROVE  tool'[c].status = tool[c].status
    <3>1. CASE c = call[w]
      <4>1. tool'[c] = [tool[c] EXCEPT !.state = "live"]
        BY <1>0, <2>3, <2>4, <3>1
      <4>2. QED BY <2>3, <3>1, <4>1 DEF ToolRows
    <3>2. CASE c # call[w]
      BY <1>0, <2>4, <3>2
    <3>3. QED BY <3>1, <3>2
  <2>5. QED BY <2>1, <2>2, <2>4
<1>8. ASSUME NEW d \in Calls, ToolClaimExpires(d)
      PROVE  tool'[c].status = tool[c].status /\ results'[c] = results[c]
  <2>1. tool' = [tool EXCEPT ![d].state = "expired"] /\ UNCHANGED results
    BY <1>8 DEF ToolClaimExpires
  <2>2. QED BY <1>0, <2>1 DEF ToolRows
<1>9. ASSUME NEW d \in Calls, Consume(d) \/ LeaseExpires(d)
      PROVE  UNCHANGED <<tool, results>>
  BY <1>9 DEF Consume, Skip, Deliver, LeaseExpires
<1>10. ASSUME CancelAnalysis
       PROVE  /\ results'[c] = results[c]
              /\ \/ tool'[c].status = tool[c].status
                 \/ tool[c].status \notin TerminalTool /\ tool'[c].status = "cancelled"
  BY <1>10 DEF CancelAnalysis
<1>11. CASE UNCHANGED vars
  BY <1>11 DEF vars
<1>12. QED
  BY <1>2, <1>3, <1>4, <1>5, <1>6, <1>7, <1>8, <1>9, <1>10, <1>11
     DEF Next, Handle, Failure, TerminalTool

\* A call keeps at most one result, the one in its row.
LEMMA ResultStep ==
  ASSUME IInv, [Next]_vars, TypeOK'
  PROVE  OneResult'
<1>1. SUFFICES ASSUME NEW c \in Calls
               PROVE  /\ Len(results'[c]) <= 1
                      /\ results'[c] # <<>> => tool'[c].status = results'[c][1]
                      /\ tool'[c].status \in {"completed", "failed", "denied"} => results'[c] # <<>>
  BY DEF OneResult
<1>2. /\ results[c] \in Seq(TerminalTool)
      /\ Len(results[c]) <= 1
      /\ results[c] # <<>> => tool[c].status = results[c][1]
      /\ tool[c].status \in {"completed", "failed", "denied"} => results[c] # <<>>
  BY DEF IInv, TypeOK, OneResult
<1>3. results[c] # <<>> => tool[c].status \in TerminalTool
  BY <1>2, EmptySeq, ElementOfSeq
<1>4. CASE tool'[c].status = tool[c].status /\ results'[c] = results[c]
  BY <1>2, <1>4
<1>5. CASE /\ tool[c].status \notin TerminalTool
           /\ tool'[c].status \in {"queued", "running", "cancelled"}
           /\ results'[c] = results[c]
  BY <1>2, <1>3, <1>5
<1>6. CASE /\ tool[c].status = "running"
           /\ tool'[c].status \in TerminalTool
           /\ results'[c] = Append(results[c], tool'[c].status)
  <2>1. results[c] = <<>>
    BY <1>3, <1>6 DEF TerminalTool
  <2>2. results'[c] = <<tool'[c].status>>
    BY <1>6, <2>1
  <2>3. Len(results'[c]) = 1 /\ results'[c][1] = tool'[c].status /\ results'[c] # <<>>
    BY <2>2
  <2>4. QED BY <2>3
<1>7. QED BY <1>4, <1>5, <1>6, CallStep

\* An owned claim stays on a running or cancelled call.
LEMMA OwnedStep ==
  ASSUME IInv, [Next]_vars
  PROVE  OwnedIsRunning'
<1>0. /\ tool \in [Calls -> ToolRows] /\ call \in [Workers -> Calls] /\ OwnedIsRunning
  BY DEF IInv, TypeOK, ToolRows
<1>1. SUFFICES ASSUME NEW c \in Calls, tool'[c].owner \in Workers
               PROVE  tool'[c].status \in {"running", "cancelled"}
  BY DEF OwnedIsRunning
<1>2. tool[c].owner \in Workers => tool[c].status \in {"running", "cancelled"}
  BY <1>0 DEF OwnedIsRunning
<1>3. ASSUME NEW w \in Workers, tool' = OrphanedTool(w) \/ tool' = ReleasedTool(w)
      PROVE  tool'[c].status = tool[c].status /\ tool'[c].owner = tool[c].owner
  BY <1>1, <1>3 DEF OrphanedTool, ReleasedTool, Unclaimed
<1>4. ASSUME NEW w \in Workers, ClaimToolCall(w)
      PROVE  tool'[c].status \in {"running", "cancelled"}
  <2>1. \/ UNCHANGED tool
        \/ tool' = [tool EXCEPT ![call[w]] = [status |-> "running", owner |-> w, state |-> "live"]]
    BY <1>4 DEF ClaimToolCall
  <2>2. QED BY <1>0, <1>1, <1>2, <2>1
<1>5. ASSUME NEW w \in Workers, Finalize(w)
      PROVE  tool'[c].status \in {"running", "cancelled"}
  <2>1. \/ tool' = OrphanedTool(w)
        \/ tool' = [tool EXCEPT ![call[w]] = Unclaimed(outcome[w])]
    BY <1>5 DEF Finalize
  <2>2. Unclaimed(outcome[w]).owner \notin Workers
    BY DEF Unclaimed
  <2>3. CASE tool' = OrphanedTool(w)
    BY <1>1, <1>2, <1>3, <2>3
  <2>4. CASE tool' = [tool EXCEPT ![call[w]] = Unclaimed(outcome[w])]
    BY <1>0, <1>1, <1>2, <2>2, <2>4
  <2>5. QED BY <2>1, <2>3, <2>4
<1>6. ASSUME NEW w \in Workers,
             \/ ExecuteReturns(w) \/ WorkerDies(w) \/ WorkerStopped(w)
             \/ ExecuteRaises(w) \/ FinalizeFails(w)
      PROVE  tool'[c].status \in {"running", "cancelled"}
  <2>1. tool' = OrphanedTool(w) \/ tool' = ReleasedTool(w) \/ UNCHANGED tool
    BY <1>6 DEF ExecuteReturns, WorkerDies, WorkerStopped, ExecuteRaises, FinalizeFails
  <2>2. QED BY <1>1, <1>2, <1>3, <2>1
<1>7. ASSUME NEW w \in Workers,
             \/ Republish(w) \/ CheckAnalysis(w) \/ MarkProcessed(w) \/ Requeue(w)
             \/ RenewLease(w) \/ HeartbeatFails(w)
      PROVE  UNCHANGED tool
  BY <1>7 DEF Republish, CheckAnalysis, MarkProcessed, Requeue, RenewLease, HeartbeatFails
<1>8. ASSUME NEW w \in Workers, RenewToolClaim(w)
      PROVE  tool'[c].status \in {"running", "cancelled"}
  <2>1. UNCHANGED tool \/ tool' = [tool EXCEPT ![call[w]].state = "live"]
    BY <1>8 DEF RenewToolClaim
  <2>2. QED BY <1>0, <1>1, <1>2, <2>1 DEF ToolRows
<1>9. ASSUME NEW d \in Calls, ToolClaimExpires(d)
      PROVE  tool'[c].status \in {"running", "cancelled"}
  <2>1. tool' = [tool EXCEPT ![d].state = "expired"]
    BY <1>9 DEF ToolClaimExpires
  <2>2. QED BY <1>0, <1>1, <1>2, <2>1 DEF ToolRows
<1>10. ASSUME NEW d \in Calls, Consume(d) \/ LeaseExpires(d) PROVE UNCHANGED tool
  BY <1>10 DEF Consume, Skip, Deliver, LeaseExpires
<1>11. ASSUME CancelAnalysis PROVE tool'[c].status \in {"running", "cancelled"}
  BY <1>1, <1>2, <1>11 DEF CancelAnalysis
<1>12. CASE UNCHANGED vars
  BY <1>1, <1>2, <1>12 DEF vars
<1>13. QED
  BY <1>1, <1>2, <1>4, <1>5, <1>6, <1>7, <1>8, <1>9, <1>10, <1>11, <1>12
     DEF Next, Handle, Failure

\* A worker reaches the finalisation only with a classified result.
LEMMA OutcomeStep ==
  ASSUME IInv, [Next]_vars
  PROVE  OutcomeKnown'
<1>0. /\ pc \in [Workers -> Stages] /\ OutcomeKnown
      /\ outcome \in [Workers -> {"none"} \cup TerminalTool]
  BY DEF IInv, TypeOK
<1>1. SUFFICES ASSUME NEW v \in Workers, pc'[v] = "finalize"
               PROVE  outcome'[v] \in TerminalTool
  BY DEF OutcomeKnown
<1>2. pc[v] = "finalize" => outcome[v] \in TerminalTool
  BY <1>0 DEF OutcomeKnown
<1>3. ASSUME NEW w \in Workers, ExecuteReturns(w) \/ CheckAnalysis(w)
      PROVE  outcome'[v] \in TerminalTool
  BY <1>0, <1>1, <1>2, <1>3 DEF ExecuteReturns, CheckAnalysis, Goto, TerminalTool
<1>4. ASSUME NEW w \in Workers,
             \/ ClaimToolCall(w) \/ Republish(w) \/ ExecuteRaises(w) \/ Finalize(w)
             \/ FinalizeFails(w)
      PROVE  outcome'[v] \in TerminalTool
  <2>1. UNCHANGED outcome /\ \E s \in Stages \ {"finalize"} : Goto(w, s)
    BY <1>4 DEF ClaimToolCall, Republish, ExecuteRaises, Finalize, FinalizeFails, Stages
  <2>2. QED BY <1>0, <1>1, <1>2, <2>1 DEF Goto
<1>5. ASSUME NEW w \in Workers,
             MarkProcessed(w) \/ Requeue(w) \/ WorkerDies(w) \/ WorkerStopped(w)
      PROVE  outcome'[v] \in TerminalTool
  <2>1. Leave(w)
    BY <1>5 DEF MarkProcessed, Requeue, WorkerDies, WorkerStopped
  <2>2. QED BY <1>0, <1>1, <1>2, <2>1 DEF Leave
<1>6. ASSUME NEW w \in Workers, RenewToolClaim(w) \/ RenewLease(w) \/ HeartbeatFails(w)
      PROVE  UNCHANGED <<pc, outcome>>
  BY <1>6 DEF RenewToolClaim, RenewLease, HeartbeatFails
<1>7. ASSUME NEW d \in Calls, ToolClaimExpires(d) \/ LeaseExpires(d) PROVE UNCHANGED <<pc, outcome>>
  BY <1>7 DEF ToolClaimExpires, LeaseExpires
<1>8. ASSUME NEW d \in Calls, Consume(d) PROVE outcome'[v] \in TerminalTool
  <2>1. UNCHANGED <<pc, outcome>> \/ (UNCHANGED outcome /\ \E w \in Workers : Goto(w, "claim"))
    BY <1>8 DEF Consume, Skip, Deliver
  <2>2. QED BY <1>0, <1>1, <1>2, <2>1 DEF Goto
<1>9. ASSUME CancelAnalysis PROVE UNCHANGED <<pc, outcome>>
  BY <1>9 DEF CancelAnalysis
<1>10. CASE UNCHANGED vars
  BY <1>1, <1>2, <1>10 DEF vars
<1>11. QED
  BY <1>1, <1>2, <1>3, <1>4, <1>5, <1>6, <1>7, <1>8, <1>9, <1>10
     DEF Next, Handle, Failure

-----------------------------------------------------------------------------
(* The two leases                                                          *)

\* A claim that belongs to a worker belongs to its running invocation.
Owners ==
  \A c \in Calls :
    /\ lease[c].owner \in Workers => pc[lease[c].owner] # "idle" /\ call[lease[c].owner] = c
    /\ lease[c].state = "free" => lease[c].owner = NoWorker
    /\ tool[c].owner \in Workers =>
         pc[tool[c].owner] \in {"check", "execute", "finalize"} /\ call[tool[c].owner] = c

\* A heartbeat that found its claim gone, or the call cancelled, was right.
HeartbeatOff ==
  \A w \in Workers :
    pc[w] = "execute" /\ hb[w] = "off" =>
      ~(tool[call[w]].status = "running" /\ tool[call[w]].owner = w)

\* Traces of a stall of the event claim of c, and of its tool claim.
LeaseStalled(c) ==
  \/ \E w \in Workers : pc[w] # "idle" /\ call[w] = c /\ lease[c].owner # w
  \/ lease[c].state = "expired" /\ lease[c].owner \in Workers
ToolStalled(c) == tool[c].status = "running" /\ tool[c].state = "expired" /\ RenewsTool(c)

\* One stall leaves a trace in one of the two claims only.
StallsCounted ==
  \A c \in Calls :
    /\ stalls = 0 => ~LeaseStalled(c) /\ ~ToolStalled(c)
    /\ stalls = 1 => ~(LeaseStalled(c) /\ ToolStalled(c))

\* A worker that checks, executes or finalises, and whose heartbeat has not failed,
\* holds the tool claim unless two claims have stalled.
Holding(w) == pc[w] \in {"check", "finalize"} \/ (pc[w] = "execute" /\ hb[w] # "failed")
Holds == stalls <= 1 => \A w \in Workers : Holding(w) => tool[call[w]].owner = w

\* The call is finished, and announced unless it was cancelled.
Done(c) == tool[c].status \in TerminalTool /\ (c \in announced \/ tool[c].status = "cancelled")

\* A worker marks the event processed only when the call is done.
Marked == stalls <= 1 => \A w \in Workers : pc[w] = "mark" => Done(call[w])

LeaseInv == Owners /\ HeartbeatOff /\ StallsCounted /\ Holds

\* The other workers are where they were.
OthersStay(w) ==
  \A v \in Workers \ {w} : pc'[v] = pc[v] /\ call'[v] = call[v] /\ hb'[v] = hb[v]

\* w gives up its tool claim, if it has one, and no other claim changes.
DropsTool(w) ==
  \A c \in Calls : /\ tool'[c].owner # w
                   /\ tool[c].owner = w => tool'[c].owner = NoWorker
                   /\ tool[c].owner # w => tool'[c] = tool[c]

\* The same for the event claim.
DropsLease(w) ==
  \A c \in Calls : /\ lease[c].owner = w => lease'[c].owner = NoWorker
                   /\ lease[c].owner # w => lease'[c] = lease[c]

LEMMA Released ==
  ASSUME TypeOK, NEW w \in Workers
  PROVE  /\ tool' = OrphanedTool(w) \/ tool' = ReleasedTool(w) => DropsTool(w)
         /\ lease' = ReleasedLease(w) => DropsLease(w)
BY DEF OrphanedTool, ReleasedTool, ReleasedLease, Unclaimed, Free, DropsTool, DropsLease

\* An invocation that gives up its claims, or ends, disturbs nobody.
LEMMA DropKeeps ==
  ASSUME TypeOK, TypeOK', LeaseInv, NEW w \in Workers, OthersStay(w), DropsTool(w), stalls' = stalls,
         \/ DropsLease(w) /\ pc'[w] = "idle"
         \/ UNCHANGED lease /\ call'[w] = call[w] /\ pc[w] # "idle" /\ pc'[w] \in {"mark", "requeue"}
  PROVE  LeaseInv'
<1>0. /\ \A c \in Calls : tool[c].owner \in Workers \cup {NoWorker} /\ lease[c].owner \in Workers \cup {NoWorker}
      /\ \A v \in Workers : call[v] \in Calls /\ call'[v] \in Calls
  BY DEF TypeOK
<1>1. \A c \in Calls : tool'[c].owner \in Workers => tool'[c].owner # w /\ tool'[c] = tool[c]
  BY <1>0 DEF DropsTool
<1>2. \A c \in Calls : \/ lease'[c] = lease[c] /\ (lease[c].owner = w => pc'[w] # "idle" /\ call'[w] = call[w])
                       \/ lease[c].owner = w /\ lease'[c].owner = NoWorker
  BY DEF DropsLease
<1>3. Owners'
  BY <1>0, <1>1, <1>2 DEF OthersStay, LeaseInv, Owners
<1>4. HeartbeatOff'
  <2>1. SUFFICES ASSUME NEW v \in Workers, pc'[v] = "execute", hb'[v] = "off"
                 PROVE  ~(tool'[call'[v]].status = "running" /\ tool'[call'[v]].owner = v)
    BY DEF HeartbeatOff
  <2>2. v # w /\ pc[v] = "execute" /\ hb[v] = "off" /\ call'[v] = call[v] /\ call[v] \in Calls
    BY <1>0, <2>1 DEF OthersStay
  <2>3. QED BY <1>1, <2>2 DEF LeaseInv, HeartbeatOff
<1>5. \A c \in Calls : LeaseStalled(c)' => LeaseStalled(c)
  BY <1>0, <1>2 DEF LeaseStalled, OthersStay
<1>6. \A c \in Calls : ToolStalled(c)' => ToolStalled(c)
  BY <1>1 DEF ToolStalled, RenewsTool, OthersStay
<1>7. StallsCounted'
  BY <1>5, <1>6 DEF LeaseInv, StallsCounted
<1>8. Holds'
  <2>1. SUFFICES ASSUME stalls' <= 1, NEW v \in Workers, Holding(v)'
                 PROVE  tool'[call'[v]].owner = v
    BY DEF Holds
  <2>2. v # w /\ Holding(v) /\ call'[v] = call[v] /\ call[v] \in Calls
    BY <1>0, <2>1 DEF OthersStay, Holding
  <2>3. tool[call[v]].owner = v
    BY <2>1, <2>2 DEF LeaseInv, Holds
  <2>4. QED BY <2>2, <2>3 DEF DropsTool
<1>9. QED BY <1>3, <1>4, <1>7, <1>8 DEF LeaseInv

\* An invocation that goes on without touching a claim.
LEMMA MoveKeeps ==
  ASSUME TypeOK, TypeOK', LeaseInv, NEW w \in Workers, OthersStay(w), UNCHANGED <<tool, lease>>, stalls' = stalls,
         call'[w] = call[w], pc[w] # "idle", pc'[w] # "idle",
         pc[w] \in {"check", "execute", "finalize"} => pc'[w] \in {"check", "execute", "finalize"},
         Holding(w)' => Holding(w),
         pc'[w] = "execute" /\ hb'[w] = "off" => ~(tool[call[w]].status = "running" /\ tool[call[w]].owner = w)
  PROVE  LeaseInv'
<1>0. \A v \in Workers : call[v] \in Calls /\ call'[v] = call[v] /\ (pc'[v] # "idle" <=> pc[v] # "idle")
  BY DEF TypeOK, OthersStay
<1>1. Owners'
  <2>1. \A v \in Workers : pc[v] \in {"check", "execute", "finalize"} => pc'[v] \in {"check", "execute", "finalize"}
    BY DEF OthersStay
  <2>2. QED BY <1>0, <2>1 DEF LeaseInv, Owners
<1>2. HeartbeatOff'
  BY <1>0 DEF OthersStay, LeaseInv, HeartbeatOff
<1>3. \A c \in Calls : LeaseStalled(c)' => LeaseStalled(c)
  BY <1>0 DEF LeaseStalled
<1>4. ASSUME NEW c \in Calls, ToolStalled(c)'
      PROVE  ToolStalled(c)
  <2>1. tool[c].status = "running" /\ tool[c].state = "expired" /\ tool[c].owner \in Workers
    BY <1>4 DEF ToolStalled, RenewsTool
  <2>2. CASE tool[c].owner # w
    BY <1>4, <2>1, <2>2 DEF ToolStalled, RenewsTool, OthersStay
  <2>3. CASE tool[c].owner = w
    <3>1. pc[w] \in {"check", "execute", "finalize"} /\ call[w] = c
      BY <2>3 DEF LeaseInv, Owners
    <3>2. Holding(w)'
      BY <1>4, <2>3, <3>1 DEF ToolStalled, RenewsTool, Holding
    <3>3. Holding(w)
      BY <3>2
    <3>4. ~(pc[w] = "execute" /\ hb[w] = "off")
      BY <2>1, <2>3, <3>1 DEF LeaseInv, HeartbeatOff
    <3>5. pc[w] = "execute" => hb[w] = "on"
      BY <3>3, <3>4 DEF Holding, TypeOK
    <3>6. QED BY <2>1, <2>3, <3>5 DEF ToolStalled, RenewsTool
  <2>4. QED BY <2>2, <2>3
<1>5. StallsCounted'
  BY <1>3, <1>4 DEF LeaseInv, StallsCounted
<1>6. Holds'
  <2>1. \A v \in Workers : Holding(v)' => Holding(v)
    BY DEF OthersStay, Holding
  <2>2. QED BY <1>0, <2>1 DEF LeaseInv, Holds
<1>7. QED BY <1>1, <1>2, <1>5, <1>6 DEF LeaseInv

\* A worker takes the tool claim.  It takes it from nobody who holds it, unless
\* both claims have stalled: one of the two workers has lost the event claim.
LEMMA ClaimKeeps ==
  ASSUME IInv, TypeOK', LeaseInv, NEW w \in Workers, ClaimToolCall(w)
  PROVE  LeaseInv'
<1> DEFINE c == call[w]
<1>0. /\ c \in Calls /\ tool \in [Calls -> ToolRows] /\ pc \in [Workers -> Stages] /\ pc[w] = "claim"
      /\ UNCHANGED <<lease, call, hb, stalls>> /\ OthersStay(w)
  BY DEF IInv, TypeOK, ToolRows, ClaimToolCall, Goto, OthersStay
<1>1. CASE tool' = tool
  <2>1. pc'[w] = "republish"
    <3>1. ~(tool[c].status = "queued" \/ (tool[c].status = "running" /\ tool[c].state = "expired"))
      <4>1. SUFFICES ASSUME tool[c].status = "queued" \/ (tool[c].status = "running" /\ tool[c].state = "expired")
                     PROVE  FALSE
        OBVIOUS
      <4>2. tool' = [tool EXCEPT ![c] = [status |-> "running", owner |-> w, state |-> "live"]]
        BY <4>1 DEF ClaimToolCall
      <4>3. tool[c] = [status |-> "running", owner |-> w, state |-> "live"]
        BY <1>0, <1>1, <4>2
      <4>4. QED BY <4>1, <4>3
    <3>2. QED BY <1>0, <3>1 DEF ClaimToolCall, Goto
  <2>2. QED BY <1>0, <1>1, <2>1, MoveKeeps DEF IInv, Holding
<1>2. CASE tool' # tool
  <2>1. /\ tool[c].status = "queued" \/ (tool[c].status = "running" /\ tool[c].state = "expired")
        /\ tool' = [tool EXCEPT ![c] = [status |-> "running", owner |-> w, state |-> "live"]]
        /\ Goto(w, "check")
    BY <1>2 DEF ClaimToolCall
  <2>2. /\ tool'[c].owner = w /\ tool'[c].state = "live" /\ pc'[w] = "check"
        /\ \A d \in Calls \ {c} : tool'[d] = tool[d]
    BY <1>0, <2>1 DEF Goto
  <2>3. \A d \in Calls : tool[d].owner # w
    BY <1>0 DEF LeaseInv, Owners
  <2>4. Owners'
    <3>1. ASSUME NEW d \in Calls
          PROVE  tool'[d].owner \in Workers =>
                   pc'[tool'[d].owner] \in {"check", "execute", "finalize"} /\ call[tool'[d].owner] = d
      BY <1>0, <2>2, <2>3 DEF LeaseInv, Owners, OthersStay
    <3>2. QED BY <1>0, <2>2, <3>1 DEF LeaseInv, Owners, OthersStay
  <2>5. HeartbeatOff'
    <3>1. SUFFICES ASSUME NEW v \in Workers, pc'[v] = "execute", hb[v] = "off"
                   PROVE  ~(tool'[call[v]].status = "running" /\ tool'[call[v]].owner = v)
      BY <1>0 DEF HeartbeatOff
    <3>2. v # w /\ pc[v] = "execute" /\ call[v] \in Calls
      BY <1>0, <2>2, <3>1 DEF OthersStay, IInv, TypeOK
    <3>3. QED BY <1>0, <2>2, <3>1, <3>2 DEF LeaseInv, HeartbeatOff
  <2>6. \A d \in Calls : LeaseStalled(d)' => LeaseStalled(d)
    BY <1>0, <2>2 DEF LeaseStalled, OthersStay
  <2>7. \A d \in Calls : ToolStalled(d)' => ToolStalled(d)
    BY <1>0, <2>2, <2>3 DEF ToolStalled, RenewsTool, OthersStay
  <2>8. StallsCounted'
    BY <1>0, <2>6, <2>7 DEF LeaseInv, StallsCounted
  <2>9. Holds'
    <3>1. SUFFICES ASSUME stalls <= 1, NEW v \in Workers, Holding(v)'
                   PROVE  tool'[call[v]].owner = v
      BY <1>0 DEF Holds
    <3>2. CASE v = w
      BY <2>2, <3>2
    <3>3. CASE v # w
      <4>1. Holding(v) /\ tool[call[v]].owner = v /\ call[v] \in Calls
        BY <1>0, <3>1, <3>3 DEF OthersStay, Holding, LeaseInv, Holds, IInv, TypeOK
      <4>2. call[v] # c
        <5>1. SUFFICES ASSUME call[v] = c PROVE FALSE
          OBVIOUS
        <5>2. tool[c].status = "running" /\ tool[c].state = "expired" /\ tool[c].owner = v
          BY <1>0, <2>1, <4>1, <5>1 DEF IInv, OwnedIsRunning
        <5>3. ~(pc[v] = "execute" /\ hb[v] = "off")
          BY <5>1, <5>2 DEF LeaseInv, HeartbeatOff
        <5>4. pc[v] = "execute" => hb[v] = "on"
          BY <4>1, <5>3 DEF Holding, IInv, TypeOK
        <5>5. ToolStalled(c)
          BY <5>2, <5>4 DEF ToolStalled, RenewsTool
        <5>6. pc[v] # "idle"
          BY <4>1 DEF Holding
        <5>7. LeaseStalled(c)
          BY <1>0, <3>3, <5>1, <5>6 DEF LeaseStalled
        <5>8. stalls = 0 \/ stalls = 1
          BY <3>1 DEF IInv, TypeOK
        <5>9. QED BY <1>0, <5>5, <5>7, <5>8 DEF LeaseInv, StallsCounted
      <4>3. QED BY <2>2, <4>1, <4>2
    <3>4. QED BY <3>2, <3>3
  <2>10. QED BY <2>4, <2>5, <2>8, <2>9 DEF LeaseInv
<1>3. QED BY <1>1, <1>2

\* A worker takes the event claim, from a living one only after a stall.
LEMMA DeliverKeeps ==
  ASSUME TypeOK, TypeOK', LeaseInv, NEW w \in Workers, NEW c \in Calls, NEW a, Deliver(w, c, a)
  PROVE  LeaseInv'
<1>0. /\ pc[w] = "idle" /\ lease[c].state # "live" /\ UNCHANGED <<tool, hb, stalls>>
      /\ lease'[c] = [owner |-> w, state |-> "live"] /\ \A d \in Calls \ {c} : lease'[d] = lease[d]
      /\ call'[w] = c /\ pc'[w] = "claim" /\ OthersStay(w)
  BY DEF Deliver, Goto, TypeOK, OthersStay
<1>1. \A d \in Calls : lease[d].owner # w /\ tool[d].owner # w
  BY <1>0 DEF LeaseInv, Owners
<1>2. Owners'
  <2>1. ASSUME NEW d \in Calls
        PROVE  /\ lease'[d].owner \in Workers => pc'[lease'[d].owner] # "idle" /\ call'[lease'[d].owner] = d
               /\ lease'[d].state = "free" => lease'[d].owner = NoWorker
    <3>1. CASE d = c
      BY <1>0, <3>1
    <3>2. CASE d # c
      BY <1>0, <1>1, <3>2 DEF LeaseInv, Owners, OthersStay
    <3>3. QED BY <3>1, <3>2
  <2>2. ASSUME NEW d \in Calls
        PROVE  tool'[d].owner \in Workers =>
                 pc'[tool'[d].owner] \in {"check", "execute", "finalize"} /\ call'[tool'[d].owner] = d
    BY <1>0, <1>1 DEF LeaseInv, Owners, OthersStay
  <2>3. QED BY <2>1, <2>2 DEF Owners
<1>3. HeartbeatOff'
  BY <1>0 DEF LeaseInv, HeartbeatOff, OthersStay
<1>4. ASSUME NEW d \in Calls, LeaseStalled(d)'
      PROVE  LeaseStalled(d)
  <2>1. CASE d # c
    BY <1>0, <1>4, <2>1 DEF LeaseStalled, OthersStay
  <2>2. CASE d = c
    <3>1. PICK v \in Workers : pc'[v] # "idle" /\ call'[v] = c /\ v # w
      BY <1>0, <1>4, <2>2 DEF LeaseStalled
    <3>2. pc[v] # "idle" /\ call[v] = c
      BY <1>0, <3>1 DEF OthersStay
    <3>3. CASE lease[c].owner # v
      BY <2>2, <3>2, <3>3 DEF LeaseStalled
    <3>4. CASE lease[c].owner = v
      <4>1. lease[c].state # "free"
        BY <3>4 DEF LeaseInv, Owners
      <4>2. lease[c].state = "expired"
        BY <1>0, <4>1 DEF TypeOK
      <4>3. QED BY <2>2, <3>4, <4>2 DEF LeaseStalled
    <3>5. QED BY <3>3, <3>4
  <2>3. QED BY <2>1, <2>2
<1>5. \A d \in Calls : ToolStalled(d)' => ToolStalled(d)
  BY <1>0, <1>1 DEF ToolStalled, RenewsTool, OthersStay
<1>6. StallsCounted'
  BY <1>0, <1>4, <1>5 DEF LeaseInv, StallsCounted
<1>7. Holds'
  BY <1>0 DEF LeaseInv, Holds, Holding, OthersStay
<1>8. QED BY <1>2, <1>3, <1>6, <1>7 DEF LeaseInv

\* A claim expires; under a worker that renews it this is a stall.
LEMMA ExpiryKeeps ==
  ASSUME TypeOK, TypeOK', LeaseInv, NEW c \in Calls, ToolClaimExpires(c) \/ LeaseExpires(c)
  PROVE  LeaseInv'
<1>0. /\ UNCHANGED <<pc, call, hb>> /\ stalls \in Nat /\ stalls' \in {stalls, stalls + 1}
      /\ tool \in [Calls -> ToolRows] /\ lease \in [Calls -> LeaseRows]
  BY DEF ToolClaimExpires, LeaseExpires, TypeOK, ToolRows, LeaseRows
<1>1. CASE ToolClaimExpires(c)
  <2>1. /\ UNCHANGED lease /\ tool[c].status = "running"
        /\ tool' = [tool EXCEPT ![c].state = "expired"]
        /\ RenewsTool(c) => stalls' = stalls + 1
    BY <1>1 DEF ToolClaimExpires
  <2>2. \A d \in Calls : /\ tool'[d].status = tool[d].status /\ tool'[d].owner = tool[d].owner
                         /\ d # c => tool'[d] = tool[d]
    BY <1>0, <2>1 DEF ToolRows
  <2>3. Owners' /\ HeartbeatOff'
    <3>1. Owners'
      BY <1>0, <2>1, <2>2 DEF LeaseInv, Owners
    <3>2. \A v \in Workers : call[v] \in Calls
      BY DEF TypeOK
    <3>3. HeartbeatOff'
      BY <1>0, <2>1, <2>2, <3>2 DEF LeaseInv, HeartbeatOff
    <3>4. QED BY <3>1, <3>3
  <2>4. \A d \in Calls : LeaseStalled(d)' <=> LeaseStalled(d)
    BY <1>0, <2>1 DEF LeaseStalled
  <2>5. \A d \in Calls : ToolStalled(d)' => ToolStalled(d) \/ stalls' = stalls + 1
    BY <1>0, <2>1, <2>2 DEF ToolStalled, RenewsTool
  <2>6. StallsCounted'
    <3>1. CASE stalls' = stalls
      BY <1>0, <2>4, <2>5, <3>1 DEF LeaseInv, StallsCounted
    <3>2. CASE stalls' = stalls + 1
      BY <1>0, <2>4, <3>2 DEF LeaseInv, StallsCounted
    <3>3. QED BY <1>0, <3>1, <3>2
  <2>7. Holds'
    BY <1>0, <2>2 DEF LeaseInv, Holds, Holding, TypeOK
  <2>8. QED BY <2>3, <2>6, <2>7 DEF LeaseInv
<1>2. CASE LeaseExpires(c)
  <2>1. /\ UNCHANGED tool /\ lease[c].state = "live"
        /\ lease' = [lease EXCEPT ![c].state = "expired"]
        /\ lease[c].owner \in Workers => stalls' = stalls + 1
    BY <1>2 DEF LeaseExpires
  <2>2. \A d \in Calls : /\ lease'[d].owner = lease[d].owner
                         /\ d # c => lease'[d] = lease[d]
                         /\ d = c => lease'[d].state = "expired"
    BY <1>0, <2>1 DEF LeaseRows
  <2>3. Owners' /\ HeartbeatOff' /\ Holds'
    <3>1. Owners'
      BY <1>0, <2>1, <2>2 DEF LeaseInv, Owners
    <3>2. HeartbeatOff'
      BY <1>0, <2>1 DEF LeaseInv, HeartbeatOff
    <3>3. Holds'
      BY <1>0, <2>1 DEF LeaseInv, Holds, Holding
    <3>4. QED BY <3>1, <3>2, <3>3
  <2>4. \A d \in Calls : ToolStalled(d)' <=> ToolStalled(d)
    BY <1>0, <2>1 DEF ToolStalled, RenewsTool
  <2>5. \A d \in Calls : LeaseStalled(d)' => LeaseStalled(d) \/ stalls' = stalls + 1
    BY <1>0, <2>1, <2>2 DEF LeaseStalled
  <2>6. StallsCounted'
    <3>1. CASE stalls' = stalls
      BY <1>0, <2>4, <2>5, <3>1 DEF LeaseInv, StallsCounted
    <3>2. CASE stalls' = stalls + 1
      BY <1>0, <2>4, <3>2 DEF LeaseInv, StallsCounted
    <3>3. QED BY <1>0, <3>1, <3>2
  <2>7. QED BY <2>3, <2>6 DEF LeaseInv
<1>3. QED BY <1>1, <1>2

\* A heartbeat renews a claim or finds that it is not to be renewed.
LEMMA RenewalKeeps ==
  ASSUME TypeOK, TypeOK', LeaseInv, NEW w \in Workers, RenewToolClaim(w) \/ RenewLease(w)
  PROVE  LeaseInv'
<1>0. /\ UNCHANGED <<pc, call, stalls>> /\ call[w] \in Calls /\ pc[w] # "idle" /\ OthersStay(w)
      /\ tool \in [Calls -> ToolRows] /\ lease \in [Calls -> LeaseRows]
  BY DEF RenewToolClaim, RenewLease, TypeOK, ToolRows, LeaseRows, OthersStay
<1>1. CASE RenewToolClaim(w) /\ tool[call[w]].status = "running" /\ tool[call[w]].owner = w
  <2>1. UNCHANGED <<lease, hb>> /\ tool' = [tool EXCEPT ![call[w]].state = "live"]
    BY <1>1 DEF RenewToolClaim
  <2>2. \A d \in Calls : /\ tool'[d].status = tool[d].status /\ tool'[d].owner = tool[d].owner
                         /\ tool'[d].state = "expired" => tool[d].state = "expired"
    BY <1>0, <2>1 DEF ToolRows
  <2>3. Owners' /\ HeartbeatOff'
    <3>1. Owners'
      BY <1>0, <2>1, <2>2 DEF LeaseInv, Owners
    <3>2. \A v \in Workers : call[v] \in Calls
      BY DEF TypeOK
    <3>3. HeartbeatOff'
      BY <1>0, <2>1, <2>2, <3>2 DEF LeaseInv, HeartbeatOff
    <3>4. QED BY <3>1, <3>3
  <2>4. \A d \in Calls : (LeaseStalled(d)' => LeaseStalled(d)) /\ (ToolStalled(d)' => ToolStalled(d))
    BY <1>0, <2>1, <2>2 DEF LeaseStalled, ToolStalled, RenewsTool
  <2>5. StallsCounted'
    BY <1>0, <2>4 DEF LeaseInv, StallsCounted
  <2>6. Holds'
    BY <1>0, <2>1, <2>2, SMTT(30) DEF LeaseInv, Holds, Holding, TypeOK
  <2>7. QED BY <2>3, <2>5, <2>6 DEF LeaseInv
<1>2. CASE RenewToolClaim(w) /\ ~(tool[call[w]].status = "running" /\ tool[call[w]].owner = w)
  <2>1. UNCHANGED <<tool, lease>> /\ pc[w] = "execute" /\ hb[w] = "on" /\ hb'[w] = "off"
    BY <1>2 DEF RenewToolClaim, TypeOK
  <2>2. Holding(w)
    BY <2>1 DEF Holding
  <2>3. QED BY <1>0, <1>2, <2>1, <2>2, MoveKeeps
<1>3. CASE RenewLease(w)
  <2>1. /\ UNCHANGED <<tool, hb>> /\ lease[call[w]] = [owner |-> w, state |-> "expired"]
        /\ lease' = [lease EXCEPT ![call[w]].state = "live"]
    BY <1>3 DEF RenewLease
  <2>2. \A d \in Calls : /\ lease'[d].owner = lease[d].owner
                         /\ lease'[d].state \in {lease[d].state, "live"}
    BY <1>0, <2>1 DEF LeaseRows
  <2>3. Owners' /\ HeartbeatOff' /\ Holds'
    BY <1>0, <2>1, <2>2 DEF LeaseInv, Owners, HeartbeatOff, Holds, Holding
  <2>4. \A d \in Calls : (LeaseStalled(d)' => LeaseStalled(d)) /\ (ToolStalled(d)' => ToolStalled(d))
    BY <1>0, <2>1, <2>2 DEF LeaseStalled, ToolStalled, RenewsTool
  <2>5. QED BY <1>0, <2>3, <2>4 DEF LeaseInv, StallsCounted
<1>4. QED BY <1>1, <1>2, <1>3

LEMMA CancelKeeps ==
  ASSUME TypeOK, TypeOK', LeaseInv, CancelAnalysis
  PROVE  LeaseInv'
<1>0. /\ UNCHANGED <<lease, pc, call, hb, stalls>>
      /\ \A c \in Calls : /\ tool'[c].owner = tool[c].owner
                          /\ tool'[c].status = "running" => tool'[c] = tool[c]
  BY DEF CancelAnalysis, TerminalTool
<1>1. Owners' /\ HeartbeatOff' /\ Holds'
  BY <1>0 DEF LeaseInv, Owners, HeartbeatOff, Holds, Holding, TypeOK
<1>2. \A c \in Calls : (LeaseStalled(c)' => LeaseStalled(c)) /\ (ToolStalled(c)' => ToolStalled(c))
  BY <1>0 DEF LeaseStalled, ToolStalled, RenewsTool
<1>3. QED BY <1>0, <1>1, <1>2 DEF LeaseInv, StallsCounted

\* Every step keeps the leases in order.
LEMMA LeaseStep ==
  ASSUME IInv, TypeOK', LeaseInv, [Next]_vars
  PROVE  LeaseInv'
<1>0. TypeOK
  BY DEF IInv
<1>1. ASSUME NEW w \in Workers, Handle(w) \/ Failure(w)
      PROVE  LeaseInv'
  <2>1. CASE ClaimToolCall(w)
    BY <2>1, ClaimKeeps
  <2>2. CASE Republish(w)
    <3>1. /\ UNCHANGED <<tool, lease, call, hb, stalls>> /\ pc[w] = "republish" /\ pc'[w] \in {"mark", "requeue"}
          /\ OthersStay(w)
      <4>1. Goto(w, "mark") \/ Goto(w, "requeue")
        BY <2>2 DEF Republish
      <4>2. QED BY <1>0, <2>2, <4>1 DEF Republish, Goto, TypeOK, OthersStay
    <3>2. QED BY <1>0, <3>1, MoveKeeps DEF Holding
  <2>3. CASE CheckAnalysis(w)
    <3>1. /\ UNCHANGED <<tool, lease, call, stalls>> /\ pc[w] = "check" /\ OthersStay(w)
          /\ pc'[w] = "finalize" \/ (pc'[w] = "execute" /\ hb'[w] = "on")
      BY <1>0, <2>3 DEF CheckAnalysis, Goto, TypeOK, OthersStay
    <3>2. QED BY <1>0, <3>1, MoveKeeps DEF Holding
  <2>4. CASE ExecuteReturns(w)
    <3>1. /\ UNCHANGED <<lease, call, stalls>> /\ pc[w] = "execute" /\ OthersStay(w)
          /\ \/ tool' = OrphanedTool(w) /\ pc'[w] = "requeue"
             \/ UNCHANGED tool /\ pc'[w] = "finalize" /\ hb[w] # "failed"
      BY <1>0, <2>4 DEF ExecuteReturns, Goto, TypeOK, OthersStay
    <3>2. CASE tool' = OrphanedTool(w) /\ pc'[w] = "requeue"
      BY <1>0, <3>1, <3>2, Released, DropKeeps
    <3>3. CASE UNCHANGED tool /\ pc'[w] = "finalize" /\ hb[w] # "failed"
      BY <1>0, <3>1, <3>3, MoveKeeps DEF Holding
    <3>4. QED BY <3>1, <3>2, <3>3
  <2>5. CASE ExecuteRaises(w) \/ FinalizeFails(w)
    <3>1. /\ UNCHANGED <<lease, call, stalls>> /\ pc[w] # "idle" /\ OthersStay(w)
          /\ tool' = ReleasedTool(w) /\ pc'[w] = "requeue"
      BY <1>0, <2>5 DEF ExecuteRaises, FinalizeFails, Goto, TypeOK, OthersStay
    <3>2. QED BY <1>0, <3>1, Released, DropKeeps
  <2>6. CASE Finalize(w)
    <3>1. /\ UNCHANGED <<lease, call, stalls>> /\ pc[w] # "idle" /\ pc'[w] = "mark" /\ OthersStay(w)
      BY <1>0, <2>6 DEF Finalize, Goto, TypeOK, OthersStay
    <3>2. DropsTool(w)
      <4>1. CASE tool' = OrphanedTool(w)
        BY <1>0, <4>1, Released
      <4>2. CASE tool' # OrphanedTool(w)
        <5>1. tool[call[w]].owner = w /\ tool' = [tool EXCEPT ![call[w]] = Unclaimed(outcome[w])]
          BY <2>6, <4>2 DEF Finalize, OwnsTool
        <5>2. \A c \in Calls : tool[c].owner = w => c = call[w]
          BY DEF LeaseInv, Owners
        <5>3. Unclaimed(outcome[w]).owner = NoWorker /\ tool \in [Calls -> ToolRows]
          BY <1>0 DEF Unclaimed, TypeOK, ToolRows
        <5>4. QED BY <5>1, <5>2, <5>3 DEF DropsTool
      <4>3. QED BY <4>1, <4>2
    <3>3. QED BY <1>0, <3>1, <3>2, DropKeeps
  <2>7. CASE MarkProcessed(w) \/ Requeue(w)
    <3>1. /\ Leave(w) /\ UNCHANGED <<tool, stalls>> /\ pc[w] \in {"mark", "requeue"}
          /\ \/ lease' = ReleasedLease(w)
             \/ lease' = lease /\ lease[call[w]].owner # w
      BY <2>7 DEF MarkProcessed, Requeue
    <3>2. OthersStay(w) /\ pc'[w] = "idle"
      BY <1>0, <3>1 DEF Leave, TypeOK, OthersStay
    <3>3. DropsTool(w)
      BY <3>1 DEF LeaseInv, Owners, DropsTool
    <3>4. DropsLease(w)
      <4>1. CASE lease' = ReleasedLease(w)
        BY <1>0, <4>1, Released
      <4>2. CASE lease' = lease /\ lease[call[w]].owner # w
        BY <4>2 DEF LeaseInv, Owners, DropsLease
      <4>3. QED BY <3>1, <4>1, <4>2
    <3>5. QED BY <1>0, <3>1, <3>2, <3>3, <3>4, DropKeeps
  <2>8. CASE WorkerDies(w) \/ WorkerStopped(w)
    <3>1. Leave(w) /\ tool' = OrphanedTool(w) /\ stalls' = stalls
      BY <2>8 DEF WorkerDies, WorkerStopped
    <3>2. OthersStay(w) /\ pc'[w] = "idle"
      BY <1>0, <3>1 DEF Leave, TypeOK, OthersStay
    <3>3. DropsLease(w)
      <4>1. CASE WorkerDies(w)
        BY <4>1 DEF WorkerDies, DropsLease
      <4>2. CASE WorkerStopped(w)
        BY <1>0, <4>2, Released DEF WorkerStopped
      <4>3. QED BY <2>8, <4>1, <4>2
    <3>4. QED BY <1>0, <3>1, <3>2, <3>3, Released, DropKeeps
  <2>9. CASE HeartbeatFails(w)
    <3>1. /\ UNCHANGED <<tool, lease, call, pc, stalls>> /\ pc[w] = "execute" /\ hb[w] = "on" /\ hb'[w] = "failed"
          /\ OthersStay(w)
      BY <1>0, <2>9 DEF HeartbeatFails, TypeOK, OthersStay
    <3>2. QED BY <1>0, <3>1, MoveKeeps DEF Holding
  <2>10. QED BY <1>1, <2>1, <2>2, <2>3, <2>4, <2>5, <2>6, <2>7, <2>8, <2>9 DEF Handle, Failure
<1>2. ASSUME NEW c \in Calls, Consume(c)
      PROVE  LeaseInv'
  <2>1. CASE \E a \in messages[c] : Skip(c, a)
    <3>1. UNCHANGED <<tool, lease, pc, call, hb, stalls>>
      BY <2>1 DEF Skip
    <3>2. QED BY <3>1 DEF LeaseInv, Owners, HeartbeatOff, StallsCounted, LeaseStalled, ToolStalled, RenewsTool,
                          Holds, Holding
  <2>2. CASE \E a \in messages[c] : \E w \in Workers : Deliver(w, c, a)
    BY <1>0, <2>2, DeliverKeeps
  <2>3. QED BY <1>2, <2>1, <2>2 DEF Consume
<1>3. CASE UNCHANGED vars
  BY <1>3 DEF vars, LeaseInv, Owners, HeartbeatOff, StallsCounted, LeaseStalled, ToolStalled, RenewsTool,
              Holds, Holding
<1>4. QED BY <1>0, <1>1, <1>2, <1>3, RenewalKeeps, ExpiryKeeps, CancelKeeps DEF Next

\* What is done stays done.
LEMMA DoneStays ==
  ASSUME IInv, [Next]_vars, NEW c \in Calls, Done(c)
  PROVE  Done(c)'
<1>1. tool'[c].status = tool[c].status
  BY CallStep DEF Done, TerminalTool
<1>2. announced \subseteq announced'
  <2>1. CASE \E w \in Workers : Republish(w) \/ Finalize(w)
    BY <2>1 DEF Republish, Finalize
  <2>2. CASE ~ \E w \in Workers : Republish(w) \/ Finalize(w)
    <3>1. announced' = announced
      BY <2>2 DEF Next, vars, Handle, Failure, Consume, ClaimToolCall, CheckAnalysis, ExecuteReturns,
             ExecuteRaises, MarkProcessed, Requeue, HeartbeatFails, FinalizeFails, WorkerDies,
             WorkerStopped, Skip, Deliver, ToolClaimExpires, LeaseExpires, RenewToolClaim, RenewLease,
             CancelAnalysis
    <3>2. QED BY <3>1
  <2>3. QED BY <2>1, <2>2
<1>3. QED BY <1>1, <1>2 DEF Done

\* A worker comes to mark the event processed only after a republished or a
\* recorded outcome, or a cancellation.
LEMMA MarkedStep ==
  ASSUME IInv, TypeOK', LeaseInv, Marked, AcknowledgedMeansFinished, [Next]_vars
  PROVE  Marked' /\ AcknowledgedMeansFinished'
<1>0. /\ TypeOK /\ stalls \in Nat /\ stalls' \in Nat /\ stalls <= stalls'
      /\ processed \subseteq Calls /\ processed' \subseteq Calls
      /\ \A w \in Workers : call[w] \in Calls
  <2>1. stalls' = stalls \/ stalls' = stalls + 1
    BY DEF Next, vars, Handle, Failure, Consume, ClaimToolCall, Republish, CheckAnalysis, ExecuteReturns,
           ExecuteRaises, Finalize, MarkProcessed, Requeue, HeartbeatFails, FinalizeFails, WorkerDies,
           WorkerStopped, Skip, Deliver, ToolClaimExpires, LeaseExpires, RenewToolClaim, RenewLease,
           CancelAnalysis
  <2>2. QED BY <2>1 DEF IInv, TypeOK
<1>1. SUFFICES ASSUME stalls' <= 1
               PROVE  Marked' /\ AcknowledgedMeansFinished'
  BY DEF Marked, AcknowledgedMeansFinished
<1>2. stalls <= 1
  BY <1>0, <1>1
<1>3. \A c \in processed : Done(c)
  BY <1>2 DEF AcknowledgedMeansFinished, Done
<1>4. \A w \in Workers : pc[w] = "mark" => Done(call[w])
  BY <1>2 DEF Marked
<1>5. ASSUME NEW w \in Workers, pc'[w] = "mark"
      PROVE  Done(call[w])' /\ call'[w] = call[w]
  <2>1. CASE Republish(w)
    <3>1. /\ call' = call /\ tool' = tool /\ tool[call[w]].status \in TerminalTool
          /\ announced' = announced \cup {call[w]}
      BY <1>0, <1>5, <2>1 DEF Republish, Goto, TypeOK
    <3>2. QED BY <3>1 DEF Done
  <2>2. CASE Finalize(w)
    <3>0. call' = call /\ call[w] \in Calls /\ pc[w] = "finalize"
      BY <1>0, <2>2 DEF Finalize
    <3>1. tool[call[w]].owner = w
      BY <1>2, <3>0 DEF LeaseInv, Holds, Holding
    <3>2. tool[call[w]].status \in {"running", "cancelled"}
      BY <3>0, <3>1 DEF IInv, OwnedIsRunning
    <3>3. CASE tool[call[w]].status = "cancelled"
      <4>1. Done(call[w])
        BY <3>3 DEF Done, TerminalTool
      <4>2. QED BY <3>0, <4>1, DoneStays
    <3>4. CASE tool[call[w]].status # "cancelled"
      <4>1. /\ tool' = [tool EXCEPT ![call[w]] = Unclaimed(outcome[w])]
            /\ announced' = announced \cup {call[w]}
        BY <2>2, <3>1, <3>4 DEF Finalize, OwnsTool
      <4>2. outcome[w] \in TerminalTool
        BY <3>0 DEF IInv, OutcomeKnown
      <4>3. tool'[call[w]].status = outcome[w]
        BY <1>0, <3>0, <4>1 DEF TypeOK, Unclaimed
      <4>4. QED BY <3>0, <4>1, <4>2, <4>3 DEF Done
    <3>5. QED BY <3>3, <3>4
  <2>3. CASE ~ Republish(w) /\ ~ Finalize(w)
    <3>1. pc[w] = "mark" /\ call'[w] = call[w]
      <4>1. ASSUME NEW v \in Workers, Handle(v)
            PROVE  pc[w] = "mark" /\ call'[w] = call[w]
        <5>1. CASE ClaimToolCall(v) \/ CheckAnalysis(v) \/ ExecuteReturns(v) \/ ExecuteRaises(v)
          <6>1. call' = call /\ \E s \in {"check", "republish", "finalize", "execute", "requeue"} : Goto(v, s)
            BY <5>1 DEF ClaimToolCall, CheckAnalysis, ExecuteReturns, ExecuteRaises
          <6>2. QED BY <1>0, <1>5, <6>1 DEF Goto, TypeOK
        <5>2. CASE Republish(v) \/ Finalize(v)
          <6>1. call' = call /\ v # w /\ \E s \in {"mark", "requeue"} : Goto(v, s)
            BY <2>3, <5>2 DEF Republish, Finalize
          <6>2. QED BY <1>0, <1>5, <6>1 DEF Goto, TypeOK
        <5>3. CASE MarkProcessed(v) \/ Requeue(v)
          <6>1. Leave(v)
            BY <5>3 DEF MarkProcessed, Requeue
          <6>2. QED BY <1>0, <1>5, <6>1 DEF Leave, TypeOK
        <5>4. QED BY <4>1, <5>1, <5>2, <5>3 DEF Handle
      <4>2. ASSUME NEW v \in Workers, Failure(v)
            PROVE  pc[w] = "mark" /\ call'[w] = call[w]
        <5>1. CASE HeartbeatFails(v) \/ FinalizeFails(v)
          BY <1>0, <1>5, <5>1 DEF HeartbeatFails, FinalizeFails, Goto, TypeOK
        <5>2. CASE WorkerDies(v) \/ WorkerStopped(v)
          <6>1. Leave(v)
            BY <5>2 DEF WorkerDies, WorkerStopped
          <6>2. QED BY <1>0, <1>5, <6>1 DEF Leave, TypeOK
        <5>3. QED BY <4>2, <5>1, <5>2 DEF Failure
      <4>3. ASSUME NEW c \in Calls, Consume(c)
            PROVE  pc[w] = "mark" /\ call'[w] = call[w]
        <5>1. \/ UNCHANGED <<pc, call>>
              \/ \E v \in Workers : call' = [call EXCEPT ![v] = c] /\ Goto(v, "claim")
          BY <4>3 DEF Consume, Skip, Deliver
        <5>2. QED BY <1>0, <1>5, <5>1 DEF Goto, TypeOK
      <4>4. CASE \/ UNCHANGED vars \/ CancelAnalysis
                 \/ \E v \in Workers : RenewToolClaim(v) \/ RenewLease(v)
                 \/ \E c \in Calls : ToolClaimExpires(c) \/ LeaseExpires(c)
        <5>1. UNCHANGED <<pc, call>>
          BY <4>4 DEF vars, CancelAnalysis, RenewToolClaim, RenewLease, ToolClaimExpires, LeaseExpires
        <5>2. QED BY <1>5, <5>1
      <4>5. QED BY <4>1, <4>2, <4>3, <4>4 DEF Next
    <3>2. QED BY <1>0, <1>4, <3>1, DoneStays
  <2>4. QED BY <2>1, <2>2, <2>3
<1>6. ASSUME NEW c \in processed'
      PROVE  Done(c)'
  <2>1. c \in processed \/ \E w \in Workers : MarkProcessed(w) /\ c = call[w]
    BY <1>6, ZenonT(60) DEF Next, vars, Handle, Failure, Consume, ClaimToolCall, Republish, CheckAnalysis, ExecuteReturns,
         ExecuteRaises, Finalize, MarkProcessed, Requeue, HeartbeatFails, FinalizeFails, WorkerDies,
         WorkerStopped, Skip, Deliver, ToolClaimExpires, LeaseExpires, RenewToolClaim, RenewLease,
         CancelAnalysis
  <2>2. Done(c)
    BY <1>3, <1>4, <2>1 DEF MarkProcessed
  <2>3. QED BY <1>0, <2>2, DoneStays
<1>7. Marked'
  <2>1. \A w \in Workers : pc'[w] = "mark" => Done(call[w])' /\ call'[w] = call[w]
    BY <1>5
  <2>2. QED BY <2>1 DEF Marked, Done
<1>8. AcknowledgedMeansFinished'
  BY <1>6 DEF AcknowledgedMeansFinished, Done
<1>9. QED BY <1>7, <1>8

-----------------------------------------------------------------------------
(* Theorems                                                                *)

\* The inductive invariant holds in every reachable state.
THEOREM Invariance == Spec => []IInv
<1>1. Init => IInv
  <2>1. SUFFICES ASSUME Init PROVE IInv
    OBVIOUS
  <2>2. SomeCall \in Calls
    BY DEF SomeCall
  <2>3. results \in [Calls -> Seq(TerminalTool)] /\ \A c \in Calls : results[c] = <<>>
    BY <2>1 DEF Init
  <2>4. TypeOK
    BY <2>1, <2>2, <2>3 DEF Init, TypeOK, Unclaimed, Free, Stages
  <2>5. OneResult
    BY <2>1, <2>3 DEF Init, OneResult, Unclaimed
  <2>6. OwnedIsRunning /\ OutcomeKnown
    BY <2>1 DEF Init, OwnedIsRunning, OutcomeKnown, Unclaimed
  <2>7. QED BY <2>4, <2>5, <2>6 DEF IInv
<1>2. IInv /\ [Next]_vars => IInv'
  <2>1. SUFFICES ASSUME IInv, [Next]_vars PROVE IInv'
    OBVIOUS
  <2>2. TypeOK'
    BY <2>1, TypeStep DEF IInv
  <2>3. QED BY <2>1, <2>2, ResultStep, OwnedStep, OutcomeStep DEF IInv
<1>3. QED BY <1>1, <1>2, PTL DEF Spec

\* The rows of tool_calls and event_processing_claims, the messages and the workers
\* keep their types; in particular no message is published past max_attempts.
THEOREM TypeCorrect == Spec => []TypeOK
BY Invariance, PTL DEF IInv

\* At most one result is recorded for a tool call, whatever claims expire, are taken
\* over or are cancelled under the worker that computes it (_update_terminal_tool_call).
THEOREM ResultRecordedOnce == Spec => []OneResult
BY Invariance, PTL DEF IInv

\* No retry, release, takeover or late result changes the status of a finished call.
THEOREM OutcomeFinal == Spec => FinishedIsFinal
<1>1. IInv /\ [Next]_vars =>
        [\A c \in Calls : tool[c].status \in TerminalTool => tool'[c].status = tool[c].status]_vars
  <2>1. SUFFICES ASSUME IInv, [Next]_vars, NEW c \in Calls, tool[c].status \in TerminalTool
                 PROVE  tool'[c].status = tool[c].status
    OBVIOUS
  <2>2. QED BY <2>1, CallStep DEF TerminalTool
<1>2. QED BY <1>1, Invariance, PTL DEF Spec, FinishedIsFinal

\* The leases are in order in every reachable state.
THEOREM LeaseInvariance == Spec => [](LeaseInv /\ Marked /\ AcknowledgedMeansFinished)
<1>1. Init => LeaseInv /\ Marked /\ AcknowledgedMeansFinished
  <2>1. SUFFICES ASSUME Init PROVE LeaseInv /\ Marked /\ AcknowledgedMeansFinished
    OBVIOUS
  <2>2. /\ \A c \in Calls : /\ tool[c].owner = NoWorker /\ tool[c].state = "free"
                            /\ lease[c].owner = NoWorker /\ lease[c].state = "free"
        /\ \A w \in Workers : pc[w] = "idle"
        /\ processed = {}
    BY <2>1 DEF Init, Unclaimed, Free
  <2>3. QED BY <2>2 DEF LeaseInv, Owners, HeartbeatOff, StallsCounted, LeaseStalled, ToolStalled, RenewsTool,
                        Holds, Holding, Marked, AcknowledgedMeansFinished
<1>2. /\ IInv /\ IInv' /\ LeaseInv /\ Marked /\ AcknowledgedMeansFinished /\ [Next]_vars
      => LeaseInv' /\ Marked' /\ AcknowledgedMeansFinished'
  <2>1. SUFFICES ASSUME IInv, IInv', LeaseInv, Marked, AcknowledgedMeansFinished, [Next]_vars
                 PROVE  LeaseInv' /\ Marked' /\ AcknowledgedMeansFinished'
    OBVIOUS
  <2>2. TypeOK'
    BY <2>1 DEF IInv
  <2>3. QED BY <2>1, <2>2, LeaseStep, MarkedStep
<1>3. QED BY <1>1, <1>2, Invariance, PTL DEF Spec

\* With at most one stalled lease the event of a tool call is acknowledged only when
\* the call is finished and the agent told, although the handler ignores whether
\* finalize_tool_call recorded anything.
THEOREM AcknowledgedFinished == Spec => []AcknowledgedMeansFinished
BY LeaseInvariance, PTL

\* Two workers execute one call only when two leases have stalled, or one has and the
\* heartbeat task of one of the two workers failed.  With no stall the event claim
\* excludes them, whatever heartbeats fail; with one, the tool claim does, as long as
\* both workers renew it.
THEOREM ExecutionExclusive == Spec => []ExclusiveExecution
<1>1. IInv /\ LeaseInv => ExclusiveExecution
  <2>1. SUFFICES ASSUME IInv, LeaseInv, NEW v \in Workers, NEW w \in Workers, v # w,
                        pc[v] = "execute", pc[w] = "execute", call[v] = call[w]
                 PROVE  stalls > 1 \/ (stalls = 1 /\ "failed" \in {hb[v], hb[w]})
    BY DEF ExclusiveExecution
  <2>2. stalls \in Nat /\ call[v] \in Calls
    BY <2>1 DEF IInv, TypeOK
  <2>3. stalls # 0
    <3>1. SUFFICES ASSUME stalls = 0 PROVE FALSE
      OBVIOUS
    <3>2. ~LeaseStalled(call[v])
      BY <2>1, <2>2, <3>1 DEF LeaseInv, StallsCounted
    <3>3. lease[call[v]].owner = v /\ lease[call[v]].owner = w
      BY <2>1, <3>2 DEF LeaseStalled
    <3>4. QED BY <2>1, <3>3
  <2>4. ASSUME stalls = 1, hb[v] # "failed", hb[w] # "failed" PROVE FALSE
    <3>1. tool[call[v]].owner = v /\ tool[call[w]].owner = w
      BY <2>1, <2>4 DEF LeaseInv, Holds, Holding
    <3>2. QED BY <2>1, <3>1
  <2>5. QED BY <2>2, <2>3, <2>4
<1>2. QED BY <1>1, Invariance, LeaseInvariance, PTL
=============================================================================
