------------------------- MODULE AgentSessionProofs -------------------------
(***************************************************************************)
(* Machine-checked proofs about AgentSession, for every set of calls and   *)
(* workers and every limit and bound.                                      *)
(***************************************************************************)
EXTENDS AgentSession, FiniteSetTheorems, SequenceTheorems, TLAPS

USE SessionAssumption DEF workerVars, sessionVars, toolVars, queueVars, history, bounds

\* What an event built for a trigger is.
LEMMA EventTypes ==
  ASSUME NEW k \in Triggers, NEW n \in 1 .. MaxCopies, NEW a \in 1 .. MaxAttempts
  PROVE  Event(k, n, a) \in Events
BY DEF Event, Events

\* The first event of a trigger exists, and idle workers hold one.
LEMMA FirstEvent ==
  /\ 1 \in 1 .. MaxCopies /\ 1 \in 1 .. MaxAttempts
  /\ \A k \in Triggers : Event(k, 1, 1) \in Events
  /\ NoEvent \in Events
<1>1. 1 \in 1 .. MaxCopies /\ 1 \in 1 .. MaxAttempts
  OBVIOUS
<1>2. \A k \in Triggers : Event(k, 1, 1) \in Events
  BY <1>1, EventTypes
<1>3. QED BY <1>1, <1>2 DEF NoEvent, Triggers

\* The event a worker handles.
LEMMA MessageType ==
  ASSUME TypeOK, NEW w \in Workers
  PROVE  /\ msg[w] \in Events /\ Key(w) \in Triggers
         /\ msg[w].copy \in 1 .. MaxCopies /\ msg[w].att \in 1 .. MaxAttempts
         /\ Id(msg[w]) \in [key : Triggers, copy : 1 .. MaxCopies]
<1>1. msg[w] \in Events
  BY DEF TypeOK
<1>2. QED BY <1>1 DEF Events, Key, Id

\* A worker that leaves its event is idle again.
LEMMA LeaveType ==
  ASSUME TypeOK, NEW w \in Workers, Leave(w)
  PROVE  /\ pc' \in [Workers -> Stages] /\ msg' \in [Workers -> Events]
         /\ seen' \in [Workers -> Nat] /\ found' \in [Workers -> TurnStatus]
         /\ wants' \in [Workers -> SUBSET Calls] /\ lost' \in [Workers -> BOOLEAN]
<1>1. pc' \in [Workers -> Stages]
  BY DEF TypeOK, Leave, Stages
<1>2. msg' \in [Workers -> Events]
  BY FirstEvent DEF TypeOK, Leave
<1>3. seen' \in [Workers -> Nat] /\ found' \in [Workers -> TurnStatus]
  BY DEF TypeOK, Leave, TurnStatus
<1>4. wants' \in [Workers -> SUBSET Calls]
  BY DEF TypeOK, Leave
<1>5. lost' \in [Workers -> BOOLEAN]
  BY DEF TypeOK, Leave
<1>6. QED BY <1>1, <1>2, <1>3, <1>4, <1>5

\* Publishing one more terminal event.
LEMMA PublishType ==
  ASSUME TypeOK, NEW c \in Calls, Publish(c)
  PROVE  published' \in [Triggers -> 0 .. MaxCopies] /\ inbox' \in SUBSET Events
<1>1. c \in Triggers /\ published[c] \in 0 .. MaxCopies
  BY DEF TypeOK, Triggers
<1>2. published[c] + 1 \in 1 .. MaxCopies
  BY <1>1 DEF Publish
<1>3. Event(c, published[c] + 1, 1) \in Events
  BY <1>1, <1>2, EventTypes, FirstEvent
<1>4. inbox' \in SUBSET Events
  BY <1>3 DEF Publish, TypeOK
<1>5. published' \in [Triggers -> 0 .. MaxCopies]
  BY <1>1, <1>2 DEF Publish, TypeOK
<1>6. QED BY <1>4, <1>5

\* Delivery keeps the types.
LEMMA DeliveryTypes ==
  ASSUME TypeOK, NEW w \in Workers,
         Take(w) \/ Acknowledge(w) \/ Requeue(w) \/ CallRaises(w) \/ WorkerDies(w)
  PROVE  TypeOK'
<1>1. CASE Take(w)
  <2>1. msg' \in [Workers -> Events] /\ overlaps' \in Nat
    BY <1>1 DEF Take, TypeOK
  <2>2. lost' \in [Workers -> BOOLEAN]
    BY <1>1 DEF Take, TypeOK
  <2>3. pc' \in [Workers -> Stages]
    BY <1>1 DEF Take, Goto, TypeOK, Stages
  <2>4. QED BY <1>1, <2>1, <2>2, <2>3 DEF Take, TypeOK
<1>2. CASE Acknowledge(w)
  <2>1. inbox' \in SUBSET Events
    BY <1>2 DEF Acknowledge, TypeOK
  <2>2. processed' \in SUBSET [key : Triggers, copy : 1 .. MaxCopies]
    BY <1>2, MessageType, SMTT(30) DEF Acknowledge, TypeOK
  <2>3. QED BY <1>2, <2>1, <2>2, LeaveType DEF Acknowledge, TypeOK
<1>3. CASE Requeue(w)
  <2>1. ASSUME msg[w].att < MaxAttempts
        PROVE  Event(msg[w].key, msg[w].copy, msg[w].att + 1) \in Events
    <3>1. msg[w].att + 1 \in 1 .. MaxAttempts
      BY <2>1, MessageType
    <3>2. QED BY <3>1, MessageType, EventTypes DEF Key
  <2>2. inbox' \in SUBSET Events
    BY <1>3, <2>1 DEF Requeue, TypeOK
  <2>3. dead' \in SUBSET Triggers
    <3>1. dead' = dead \/ dead' = dead \cup {Key(w)}
      BY <1>3 DEF Requeue, Key
    <3>2. QED BY <3>1, MessageType DEF TypeOK
  <2>4. Leave(w)
    BY <1>3 DEF Requeue
  <2>5. QED BY <1>3, <2>2, <2>3, <2>4, LeaveType DEF Requeue, TypeOK
<1>4. CASE CallRaises(w)
  <2>1. pc' \in [Workers -> Stages] /\ faults' \in Nat
    BY <1>4 DEF CallRaises, Goto, TypeOK, Stages
  <2>2. QED BY <1>4, <2>1 DEF CallRaises, TypeOK
<1>5. CASE WorkerDies(w)
  <2>1. faults' \in Nat /\ Leave(w)
    BY <1>5 DEF WorkerDies, TypeOK
  <2>2. QED BY <1>5, <2>1, LeaveType DEF WorkerDies, TypeOK
<1>6. QED BY <1>1, <1>2, <1>3, <1>4, <1>5

\* The stages of _run_turn keep the types.
LEMMA RunTurnTypes ==
  ASSUME TypeOK, NEW w \in Workers, RunTurn(w)
  PROVE  TypeOK'
<1>1. CASE GetSession(w)
  <2>1. pc' \in [Workers -> Stages]
    BY <1>1, ZenonT(60) DEF GetSession, Goto, TypeOK, Stages
  <2>2. seen' = seen \/ seen' = [seen EXCEPT ![w] = turnCount]
    BY <1>1 DEF GetSession
  <2>3. seen' \in [Workers -> Nat]
    BY <2>2 DEF TypeOK
  <2>4. QED BY <1>1, <2>1, <2>3 DEF GetSession, TypeOK
<1>2. CASE TurnForTrigger(w)
  <2>1. turn[Key(w)] \in TurnStatus
    BY MessageType DEF TypeOK
  <2>2. found' \in [Workers -> TurnStatus]
    BY <1>2, <2>1 DEF TurnForTrigger, TypeOK
  <2>3. pc' \in [Workers -> Stages]
    BY <1>2 DEF TurnForTrigger, Goto, TypeOK, Stages
  <2>4. QED BY <1>2, <2>2, <2>3 DEF TurnForTrigger, TypeOK
<1>3. CASE RecoverTurn(w)
  <2>1. wants' \in [Workers -> SUBSET Calls]
    <3>1. wants' = wants \/ \E batch \in SUBSET Calls : wants' = [wants EXCEPT ![w] = batch]
      BY <1>3 DEF RecoverTurn, Pending
    <3>2. QED BY <3>1 DEF TypeOK
  <2>2. pc' \in [Workers -> Stages]
    BY <1>3 DEF RecoverTurn, Goto, TypeOK, Stages
  <2>3. QED BY <1>3, <2>1, <2>2 DEF RecoverTurn, TypeOK
<1>4. CASE Reissue(w)
  <2>1. requested' \in SUBSET Calls /\ wants' \in [Workers -> SUBSET Calls]
    BY <1>4 DEF Reissue, TypeOK
  <2>2. pc' \in [Workers -> Stages]
    BY <1>4 DEF Reissue, Goto, TypeOK, Stages
  <2>3. QED BY <1>4, <2>1, <2>2 DEF Reissue, TypeOK
<1>5. CASE CheckLimits(w)
  <2>1. pc' \in [Workers -> Stages]
    BY <1>5 DEF CheckLimits, Goto, TypeOK, Stages
  <2>2. QED BY <1>5, <2>1 DEF CheckLimits, TypeOK
<1>6. CASE ReadyToolOutputs(w)
  <2>1. pc' \in [Workers -> Stages]
    BY <1>6 DEF ReadyToolOutputs, Goto, TypeOK, Stages
  <2>2. QED BY <1>6, <2>1 DEF ReadyToolOutputs, TypeOK
<1>7. CASE SetCallingModel(w) \/ SetWaitingTool(w)
  <2>1. pc' \in [Workers -> Stages]
    BY <1>7 DEF SetCallingModel, SetWaitingTool, UpdateStatus, Goto, TypeOK, Stages
  <2>2. status' \in {"queued", "calling_model", "waiting_tool"} \cup Terminal
    BY <1>7 DEF SetCallingModel, SetWaitingTool, UpdateStatus, TypeOK
  <2>3. QED BY <1>7, <2>1, <2>2 DEF SetCallingModel, SetWaitingTool, UpdateStatus, TypeOK
<1>8. CASE StartTurn(w)
  <2>1. turn' \in [Triggers -> TurnStatus]
    BY <1>8 DEF StartTurn, TypeOK, TurnStatus
  <2>2. pc' \in [Workers -> Stages]
    BY <1>8, ZenonT(60) DEF StartTurn, Goto, TypeOK, Stages
  <2>3. QED BY <1>8, <2>1, <2>2 DEF StartTurn, TypeOK
<1>9. QED BY <1>1, <1>2, <1>3, <1>4, <1>5, <1>6, <1>7, <1>8 DEF RunTurn

\* Completing the turn a worker is in.
LEMMA TurnCompletedType ==
  ASSUME TypeOK, NEW k \in Triggers, TurnCompleted(k)
  PROVE  /\ turnCount' \in Nat /\ turn' \in [Triggers -> TurnStatus]
         /\ completions' \in [Triggers -> Nat]
BY DEF TurnCompleted, TypeOK, TurnStatus

\* What complete_turn_with_tool_calls does to the calls and their events.
LEMMA ToolCallsType ==
  ASSUME TypeOK, NEW w \in Workers, CompleteWithToolCalls(w)
  PROVE  /\ tool' \in [Calls -> {"none", "queued"} \cup Terminal]
         /\ parent' \in [Calls -> Triggers] /\ requested' \in SUBSET Calls
         /\ published' \in [Triggers -> 0 .. MaxCopies] /\ inbox' \in SUBSET Events
<1>1. wants[w] \in SUBSET Calls /\ Key(w) \in Triggers
  BY MessageType DEF TypeOK
<1>2. CASE Continuable
  <2>1. PICK reused \in SUBSET wants[w] :
          /\ tool' = [c \in Calls |-> IF c \in reused THEN "completed"
                                      ELSE IF c \in wants[w] THEN "queued" ELSE tool[c]]
          /\ requested' = requested \cup (wants[w] \ reused)
          /\ inbox' = inbox \cup {Event(c, 1, 1) : c \in reused}
          /\ published' = [k \in Triggers |-> IF k \in reused THEN 1 ELSE published[k]]
    BY <1>2 DEF CompleteWithToolCalls
  <2>2. tool' \in [Calls -> {"none", "queued"} \cup Terminal]
    BY <2>1 DEF TypeOK, Terminal
  <2>3. parent' \in [Calls -> Triggers]
    BY <1>1, <1>2 DEF CompleteWithToolCalls, TypeOK
  <2>4. requested' \in SUBSET Calls
    BY <1>1, <2>1 DEF TypeOK
  <2>5. published' \in [Triggers -> 0 .. MaxCopies]
    BY <2>1 DEF TypeOK
  <2>6. \A c \in reused : Event(c, 1, 1) \in Events
    BY <1>1, FirstEvent DEF Triggers
  <2>7. inbox' \in SUBSET Events
    BY <2>1, <2>6 DEF TypeOK
  <2>8. QED BY <2>2, <2>3, <2>4, <2>5, <2>7
<1>3. CASE ~Continuable
  BY <1>3 DEF CompleteWithToolCalls, TypeOK
<1>4. QED BY <1>2, <1>3

\* The stages of _run_model_turn keep the types.
LEMMA RunModelTurnTypes ==
  ASSUME TypeOK, NEW w \in Workers, RunModelTurn(w)
  PROVE  TypeOK'
<1>0. Key(w) \in Triggers
  BY MessageType
<1>1. CASE ModelResponds(w)
  <2>1. wants' \in [Workers -> SUBSET Calls]
    <3>1. Unused \subseteq Calls
      BY DEF Unused
    <3>2. wants' = wants \/ \E batch \in SUBSET Calls : wants' = [wants EXCEPT ![w] = batch]
      BY <1>1, <3>1 DEF ModelResponds
    <3>3. QED BY <3>2 DEF TypeOK
  <2>2. pc' \in [Workers -> Stages]
    BY <1>1, ZenonT(60) DEF ModelResponds, Goto, TypeOK, Stages
  <2>3. QED BY <1>1, <2>1, <2>2 DEF ModelResponds, TypeOK
<1>2. CASE ModelFails(w)
  <2>1. pc' \in [Workers -> Stages]
    BY <1>2 DEF ModelFails, Goto, TypeOK, Stages
  <2>2. QED BY <1>2, <2>1 DEF ModelFails, TypeOK
<1>3. CASE CountToolCalls(w)
  <2>1. pc' \in [Workers -> Stages]
    BY <1>3 DEF CountToolCalls, Goto, TypeOK, Stages
  <2>2. QED BY <1>3, <2>1 DEF CountToolCalls, TypeOK
<1>4. CASE CompleteWithToolCalls(w)
  <2>1. /\ turnCount' \in Nat /\ turn' \in [Triggers -> TurnStatus]
        /\ completions' \in [Triggers -> Nat]
    <3>1. TurnCompleted(Key(w)) \/ UNCHANGED <<turnCount, turn, completions>>
      BY <1>4 DEF CompleteWithToolCalls
    <3>2. QED BY <1>0, <3>1, TurnCompletedType DEF TypeOK
  <2>2. pc' \in [Workers -> Stages]
    BY <1>4, ZenonT(60) DEF CompleteWithToolCalls, Goto, TypeOK, Stages
  <2>3. wants' \in [Workers -> SUBSET Calls]
    BY <1>4 DEF CompleteWithToolCalls, TypeOK
  <2>4. QED BY <1>4, <2>1, <2>2, <2>3, ToolCallsType DEF CompleteWithToolCalls, TypeOK
<1>5. CASE CompleteWithAnswer(w)
  <2>1. \/ /\ TurnCompleted(Key(w)) /\ analysis' = "completed" /\ status' = "completed"
           /\ ended' = Append(ended, "completed")
        \/ UNCHANGED <<sessionVars, turn, history>>
    BY <1>5 DEF CompleteWithAnswer
  <2>2. /\ turnCount' \in Nat /\ turn' \in [Triggers -> TurnStatus]
        /\ completions' \in [Triggers -> Nat]
    BY <1>0, <2>1, TurnCompletedType DEF TypeOK
  <2>3. pc' \in [Workers -> Stages]
    BY <1>5 DEF CompleteWithAnswer, Goto, TypeOK, Stages
  <2>4. ended' \in Seq(Terminal)
    <3>1. ended \in Seq(Terminal) /\ "completed" \in Terminal
      BY DEF TypeOK, Terminal
    <3>2. QED BY <2>1, <3>1, AppendProperties
  <2>5. /\ analysis' \in {"running", "cancelling"} \cup Terminal
        /\ status' \in {"queued", "calling_model", "waiting_tool"} \cup Terminal
    BY <2>1 DEF TypeOK, Terminal
  <2>6. QED BY <1>5, <2>2, <2>3, <2>4, <2>5 DEF CompleteWithAnswer, TypeOK
<1>6. CASE FailTurn(w)
  <2>1. turn' \in [Triggers -> TurnStatus]
    BY <1>6 DEF FailTurn, TypeOK, TurnStatus
  <2>2. pc' \in [Workers -> Stages]
    BY <1>6 DEF FailTurn, Goto, TypeOK, Stages
  <2>3. QED BY <1>6, <2>1, <2>2 DEF FailTurn, TypeOK
<1>7. CASE FailAnalysis(w)
  <2>1. pc' \in [Workers -> Stages]
    BY <1>7, ZenonT(60) DEF FailAnalysis, Goto, TypeOK, Stages
  <2>2. /\ analysis' \in {"running", "cancelling"} \cup Terminal
        /\ status' \in {"queued", "calling_model", "waiting_tool"} \cup Terminal
    BY <1>7 DEF FailAnalysis, TypeOK, Terminal
  <2>3. QED BY <1>7, <2>1, <2>2 DEF FailAnalysis, TypeOK
<1>8. CASE ReportFailure(w)
  <2>1. pc' \in [Workers -> Stages]
    BY <1>8 DEF ReportFailure, Goto, TypeOK, Stages
  <2>2. ended' \in Seq(Terminal)
    BY <1>8, AppendProperties DEF ReportFailure, TypeOK, Terminal
  <2>3. QED BY <1>8, <2>1, <2>2 DEF ReportFailure, TypeOK
<1>9. QED BY <1>1, <1>2, <1>3, <1>4, <1>5, <1>6, <1>7, <1>8 DEF RunModelTurn

\* The execution worker and cancellation keep the types.
LEMMA OthersTypes ==
  ASSUME TypeOK,
         \/ \E c \in Calls : ToolFinishes(c) \/ Republish(c) \/ ToolRequestLost(c)
         \/ Skip \/ Cancel \/ HandleCancelRequested
  PROVE  TypeOK'
<1>1. ASSUME NEW c \in Calls, ToolFinishes(c) PROVE TypeOK'
  <2>1. Publish(c) /\ requested' \in SUBSET Calls
    BY <1>1 DEF ToolFinishes, TypeOK
  <2>2. tool' \in [Calls -> {"none", "queued"} \cup Terminal]
    BY <1>1 DEF ToolFinishes, TypeOK, Terminal
  <2>3. QED BY <1>1, <2>1, <2>2, PublishType DEF ToolFinishes, TypeOK
<1>2. ASSUME NEW c \in Calls, Republish(c) PROVE TypeOK'
  <2>1. Publish(c) /\ requested' \in SUBSET Calls
    BY <1>2 DEF Republish, TypeOK
  <2>2. QED BY <1>2, <2>1, PublishType DEF Republish, TypeOK
<1>3. ASSUME NEW c \in Calls, ToolRequestLost(c) PROVE TypeOK'
  BY <1>3 DEF ToolRequestLost, TypeOK
<1>4. CASE Skip
  BY <1>4 DEF Skip, TypeOK
<1>5. CASE Cancel
  <2>1. tool' \in [Calls -> {"none", "queued"} \cup Terminal]
    BY <1>5 DEF Cancel, TypeOK, Terminal
  <2>2. /\ analysis' \in {"running", "cancelling"} \cup Terminal
        /\ status' \in {"queued", "calling_model", "waiting_tool"} \cup Terminal
    BY <1>5 DEF Cancel, TypeOK, Terminal
  <2>3. QED BY <1>5, <2>1, <2>2 DEF Cancel, TypeOK
<1>6. CASE HandleCancelRequested
  <2>1. tool' \in [Calls -> {"none", "queued"} \cup Terminal]
    BY <1>6 DEF HandleCancelRequested, TypeOK, Terminal
  <2>2. /\ analysis' \in {"running", "cancelling"} \cup Terminal
        /\ status' \in {"queued", "calling_model", "waiting_tool"} \cup Terminal
    BY <1>6 DEF HandleCancelRequested, TypeOK, Terminal
  <2>3. ended' \in Seq(Terminal)
    <3>1. ended \in Seq(Terminal) /\ "cancelled" \in Terminal
      BY DEF TypeOK, Terminal
    <3>2. QED BY <1>6, <3>1, AppendProperties DEF HandleCancelRequested
  <2>4. QED BY <1>6, <2>1, <2>2, <2>3 DEF HandleCancelRequested, TypeOK
<1>7. QED BY <1>1, <1>2, <1>3, <1>4, <1>5, <1>6

LEMMA TypeInit == Init => TypeOK
<1>1. SUFFICES ASSUME Init PROVE TypeOK
  OBVIOUS
<1>2. Start \in Triggers /\ Calls \subseteq Triggers
  BY DEF Triggers
<1>3. inbox \in SUBSET Events /\ msg \in [Workers -> Events]
  BY <1>1, <1>2, FirstEvent DEF Init
<1>4. published \in [Triggers -> 0 .. MaxCopies] /\ parent \in [Calls -> Triggers]
  BY <1>1, <1>2, FirstEvent DEF Init
<1>5. ended \in Seq(Terminal)
  BY <1>1 DEF Init
<1>6. wants \in [Workers -> SUBSET Calls] /\ lost \in [Workers -> BOOLEAN]
  BY <1>1 DEF Init
<1>7. QED BY <1>1, <1>3, <1>4, <1>5, <1>6 DEF Init, TypeOK, Stages, TurnStatus, Terminal

LEMMA TypeStep == TypeOK /\ [Next]_vars => TypeOK'
<1>1. SUFFICES ASSUME TypeOK, [Next]_vars PROVE TypeOK'
  OBVIOUS
<1>2. CASE Next
  <2>1. ASSUME NEW w \in Workers, Take(w) \/ Handle(w) \/ CallRaises(w) \/ WorkerDies(w)
        PROVE  TypeOK'
    BY <1>1, <2>1, DeliveryTypes, RunTurnTypes, RunModelTurnTypes DEF Handle
  <2>2. QED BY <1>1, <1>2, <2>1, OthersTypes DEF Next
<1>3. CASE UNCHANGED vars
  BY <1>1, <1>3 DEF vars, TypeOK
<1>4. QED BY <1>1, <1>2, <1>3

\* Every variable keeps its type in every behaviour of the agent: statuses are the
\* ones the rows may have, events never exceed max_attempts.
THEOREM TypeCorrect == Spec => []TypeOK
BY TypeInit, TypeStep, PTL DEF Spec

-----------------------------------------------------------------------------
(* The analysis ends once                                                  *)

\* Between fail_analysis and add_outbox one worker owes the AnalysisFailed event,
\* and nobody else can end the analysis.
OneReporter ==
  /\ \A w \in Workers : pc[w] = "report" => analysis = "failed" /\ ended = <<>>
  /\ \A v, w \in Workers : pc[v] = "report" /\ pc[w] = "report" => v = w

\* The inductive invariant.
IInv == TypeOK /\ EndsOnce /\ OneReporter

\* Until it ends an analysis has no terminal event and no reporter, and while it
\* runs its session is open.
LEMMA StillOpen ==
  ASSUME IInv, analysis \notin Terminal
  PROVE  /\ ended = <<>>
         /\ \A w \in Workers : pc[w] # "report"
         /\ analysis = "running" => status \notin Closed
         /\ analysis = "cancelling" => status = "cancelled"
<1>1. ended \in Seq(Terminal) /\ analysis \in {"running", "cancelling"}
  BY DEF IInv, TypeOK
<1>2. ended = <<>>
  <2>1. ASSUME ended # <<>> PROVE ended[1] \in Terminal
    BY <1>1, <2>1
  <2>2. QED BY <2>1 DEF IInv, EndsOnce
<1>3. \A w \in Workers : pc[w] # "report"
  BY DEF IInv, OneReporter, Terminal
<1>4. analysis = "running" => status \notin Closed
  BY DEF IInv, EndsOnce, TypeOK, Terminal, Closed
<1>5. analysis = "cancelling" => status = "cancelled"
  BY DEF IInv, EndsOnce
<1>6. QED BY <1>2, <1>3, <1>4, <1>5

\* A step that leaves the rows and the events of the analysis alone, lets no
\* worker become a reporter and at most moves an open session between open
\* statuses keeps the invariant.
LEMMA QuietStep ==
  ASSUME IInv, UNCHANGED <<analysis, ended>>,
         status' = status \/ (status \notin Closed /\ status' \notin Closed),
         \A v \in Workers : pc'[v] = "report" => pc[v] = "report"
  PROVE  EndsOnce' /\ OneReporter'
<1>1. OneReporter'
  BY DEF IInv, OneReporter
<1>2. CASE status' = status
  BY <1>1, <1>2 DEF IInv, EndsOnce
<1>3. CASE status \notin Closed /\ status' \notin Closed
  <2>1. analysis = "running"
    BY <1>3 DEF IInv, EndsOnce, TypeOK, Closed, Terminal
  <2>2. QED BY <1>1, <1>3, <2>1 DEF IInv, EndsOnce
<1>4. QED BY <1>2, <1>3

\* Which stages a worker can go to, and what happens to the session, in the steps
\* that do not end the analysis.
LEMMA QuietActions ==
  ASSUME IInv, NEW w \in Workers,
         \/ Take(w) \/ Acknowledge(w) \/ Requeue(w) \/ CallRaises(w) \/ WorkerDies(w)
         \/ RunTurn(w) \/ ModelResponds(w) \/ ModelFails(w) \/ CountToolCalls(w)
         \/ CompleteWithToolCalls(w) \/ FailTurn(w)
  PROVE  EndsOnce' /\ OneReporter'
<1>0. pc \in [Workers -> Stages]
  BY DEF IInv, TypeOK
<1>1. CASE Take(w) \/ CallRaises(w)
  <2>1. pc' = [pc EXCEPT ![w] = "session"] \/ pc' = [pc EXCEPT ![w] = "requeue"]
    BY <1>1 DEF Take, CallRaises, Goto
  <2>2. \A v \in Workers : pc'[v] = "report" => pc[v] = "report"
    BY <1>0, <2>1
  <2>3. QED BY <1>1, <2>2, QuietStep DEF Take, CallRaises
<1>2. CASE Acknowledge(w) \/ Requeue(w) \/ WorkerDies(w)
  <2>1. pc' = [pc EXCEPT ![w] = "idle"]
    BY <1>2 DEF Acknowledge, Requeue, WorkerDies, Leave
  <2>2. \A v \in Workers : pc'[v] = "report" => pc[v] = "report"
    BY <1>0, <2>1
  <2>3. QED BY <1>2, <2>2, QuietStep DEF Acknowledge, Requeue, WorkerDies
<1>3. CASE GetSession(w) \/ TurnForTrigger(w) \/ RecoverTurn(w) \/ Reissue(w)
  <2>1. \E stage \in Stages \ {"report"} : pc' = [pc EXCEPT ![w] = stage]
    BY <1>3 DEF GetSession, TurnForTrigger, RecoverTurn, Reissue, Goto, Stages
  <2>2. \A v \in Workers : pc'[v] = "report" => pc[v] = "report"
    BY <1>0, <2>1
  <2>3. QED BY <1>3, <2>2, QuietStep DEF GetSession, TurnForTrigger, RecoverTurn, Reissue
<1>4. CASE CheckLimits(w) \/ ReadyToolOutputs(w) \/ StartTurn(w)
  <2>1. \E stage \in Stages \ {"report"} : pc' = [pc EXCEPT ![w] = stage]
    BY <1>4 DEF CheckLimits, ReadyToolOutputs, StartTurn, Goto, Stages
  <2>2. \A v \in Workers : pc'[v] = "report" => pc[v] = "report"
    BY <1>0, <2>1
  <2>3. QED BY <1>4, <2>2, QuietStep DEF CheckLimits, ReadyToolOutputs, StartTurn
<1>5. CASE SetCallingModel(w) \/ SetWaitingTool(w)
  <2>1. pc' = [pc EXCEPT ![w] = "start"] \/ pc' = [pc EXCEPT ![w] = "ack"]
    BY <1>5 DEF SetCallingModel, SetWaitingTool, UpdateStatus, Goto
  <2>2. \A v \in Workers : pc'[v] = "report" => pc[v] = "report"
    BY <1>0, <2>1
  <2>3. status' = status \/ (status \notin Closed /\ status' \notin Closed)
    BY <1>5 DEF SetCallingModel, SetWaitingTool, UpdateStatus, Closed, Terminal
  <2>4. QED BY <1>5, <2>2, <2>3, QuietStep DEF SetCallingModel, SetWaitingTool, UpdateStatus
<1>6. CASE ModelResponds(w) \/ ModelFails(w) \/ CountToolCalls(w)
  <2>1. \E stage \in Stages \ {"report"} : pc' = [pc EXCEPT ![w] = stage]
    BY <1>6 DEF ModelResponds, ModelFails, CountToolCalls, Goto, Stages
  <2>2. \A v \in Workers : pc'[v] = "report" => pc[v] = "report"
    BY <1>0, <2>1
  <2>3. QED BY <1>6, <2>2, QuietStep DEF ModelResponds, ModelFails, CountToolCalls
<1>7. CASE CompleteWithToolCalls(w) \/ FailTurn(w)
  <2>1. \E stage \in Stages \ {"report"} : pc' = [pc EXCEPT ![w] = stage]
    BY <1>7 DEF CompleteWithToolCalls, FailTurn, Goto, Stages
  <2>2. \A v \in Workers : pc'[v] = "report" => pc[v] = "report"
    BY <1>0, <2>1
  <2>3. UNCHANGED <<analysis, status, ended>>
    BY <1>7 DEF CompleteWithToolCalls, FailTurn
  <2>4. QED BY <2>2, <2>3, QuietStep
<1>8. QED BY <1>1, <1>2, <1>3, <1>4, <1>5, <1>6, <1>7 DEF RunTurn

\* The steps that end an analysis: each finds it open, so it is the only one.
LEMMA EndingActions ==
  ASSUME IInv, NEW w \in Workers, CompleteWithAnswer(w) \/ FailAnalysis(w) \/ ReportFailure(w)
  PROVE  EndsOnce' /\ OneReporter'
<1>0. pc \in [Workers -> Stages] /\ analysis \in {"running", "cancelling"} \cup Terminal
  BY DEF IInv, TypeOK
<1>1. CASE CompleteWithAnswer(w)
  <2>1. pc' = [pc EXCEPT ![w] = "ack"]
    BY <1>1 DEF CompleteWithAnswer, Goto
  <2>2. \A v \in Workers : pc'[v] = "report" => pc[v] = "report"
    BY <1>0, <2>1
  <2>3. CASE Continuable
    <3>1. analysis \notin Terminal
      BY <2>3 DEF Continuable, Closed
    <3>2. /\ analysis' = "completed" /\ status' = "completed"
          /\ ended' = Append(ended, "completed")
      BY <1>1, <2>3 DEF CompleteWithAnswer
    <3>3. ended' = <<"completed">>
      BY <3>1, <3>2, StillOpen
    <3>4. \A v \in Workers : pc'[v] # "report"
      BY <2>2, <3>1, StillOpen
    <3>5. Len(ended') = 1 /\ ended'[1] = "completed" /\ ended' # <<>>
      BY <3>3
    <3>6. QED BY <3>2, <3>4, <3>5 DEF EndsOnce, OneReporter
  <2>4. CASE ~Continuable
    <3>1. UNCHANGED <<analysis, status, ended>>
      BY <1>1, <2>4 DEF CompleteWithAnswer
    <3>2. QED BY <2>2, <3>1, QuietStep
  <2>5. QED BY <2>3, <2>4
<1>2. CASE FailAnalysis(w)
  <2>1. CASE analysis \in Closed
    <3>1. status \in Closed
      BY <1>0, <2>1 DEF IInv, EndsOnce, Closed, Terminal
    <3>2. UNCHANGED <<analysis, status, ended>> /\ pc' = [pc EXCEPT ![w] = "ack"]
      BY <1>2, <2>1, <3>1 DEF FailAnalysis, Goto
    <3>3. \A v \in Workers : pc'[v] = "report" => pc[v] = "report"
      BY <1>0, <3>2
    <3>4. QED BY <3>2, <3>3, QuietStep
  <2>2. CASE analysis \notin Closed
    <3>1. analysis = "running" /\ analysis \notin Terminal
      BY <1>0, <2>2 DEF Closed, Terminal
    <3>2. status \notin Closed /\ ended = <<>> /\ \A v \in Workers : pc[v] # "report"
      BY <3>1, StillOpen
    <3>3. /\ analysis' = "failed" /\ status' = "failed" /\ ended' = <<>>
          /\ pc' = [pc EXCEPT ![w] = "report"]
      BY <1>2, <2>2, <3>2 DEF FailAnalysis, Goto
    <3>4. \A v \in Workers : pc'[v] = "report" => v = w
      BY <1>0, <3>2, <3>3
    <3>5. QED BY <3>3, <3>4 DEF EndsOnce, OneReporter
  <2>3. QED BY <2>1, <2>2
<1>3. CASE ReportFailure(w)
  <2>1. /\ analysis = "failed" /\ ended = <<>>
        /\ \A v \in Workers : pc[v] = "report" => v = w
    BY <1>3 DEF ReportFailure, IInv, OneReporter
  <2>2. /\ UNCHANGED <<analysis, status>> /\ ended' = Append(ended, "failed")
        /\ pc' = [pc EXCEPT ![w] = "ack"]
    BY <1>3 DEF ReportFailure, Goto
  <2>3. \A v \in Workers : pc'[v] # "report"
    BY <1>0, <2>1, <2>2
  <2>4. ended' = <<"failed">>
    BY <2>1, <2>2
  <2>5. QED BY <2>1, <2>2, <2>3, <2>4 DEF IInv, EndsOnce, OneReporter
<1>4. QED BY <1>1, <1>2, <1>3

\* Cancelling finds the analysis open too.
LEMMA CancelActions ==
  ASSUME IInv, Cancel \/ HandleCancelRequested
  PROVE  EndsOnce' /\ OneReporter'
<1>0. analysis \in {"running", "cancelling"} \cup Terminal /\ pc' = pc
  BY DEF IInv, TypeOK, Cancel, HandleCancelRequested
<1>1. CASE Cancel
  <2>1. analysis \notin Terminal
    BY <1>1 DEF Cancel
  <2>2. /\ ended = <<>> /\ \A v \in Workers : pc[v] # "report"
        /\ status \notin Terminal \/ status = "cancelled"
    BY <1>0, <2>1, StillOpen DEF Closed
  <2>3. analysis' = "cancelling" /\ status' = "cancelled" /\ ended' = ended
    BY <1>1, <2>2 DEF Cancel
  <2>4. QED BY <1>0, <2>2, <2>3 DEF EndsOnce, OneReporter
<1>2. CASE HandleCancelRequested
  <2>1. analysis = "cancelling" /\ analysis \notin Terminal
    BY <1>2 DEF HandleCancelRequested, Terminal
  <2>2. ended = <<>> /\ status = "cancelled" /\ \A v \in Workers : pc[v] # "report"
    BY <2>1, StillOpen
  <2>3. analysis' = "cancelled" /\ status' = "cancelled" /\ ended' = Append(ended, "cancelled")
    BY <1>2, <2>2 DEF HandleCancelRequested
  <2>4. ended' = <<"cancelled">>
    BY <2>2, <2>3
  <2>5. QED BY <1>0, <2>2, <2>3, <2>4 DEF EndsOnce, OneReporter
<1>3. QED BY <1>1, <1>2

LEMMA InvariantStep == IInv /\ [Next]_vars => IInv'
<1>1. SUFFICES ASSUME IInv, [Next]_vars PROVE EndsOnce' /\ OneReporter'
  BY TypeStep DEF IInv
<1>2. ASSUME NEW w \in Workers, Take(w) \/ Handle(w) \/ CallRaises(w) \/ WorkerDies(w)
      PROVE  EndsOnce' /\ OneReporter'
  BY <1>1, <1>2, QuietActions, EndingActions DEF Handle, RunModelTurn
<1>3. ASSUME NEW c \in Calls, ToolFinishes(c) \/ Republish(c) \/ ToolRequestLost(c)
      PROVE  EndsOnce' /\ OneReporter'
  BY <1>1, <1>3, QuietStep DEF ToolFinishes, Republish, ToolRequestLost
<1>4. ASSUME Skip PROVE EndsOnce' /\ OneReporter'
  BY <1>1, <1>4, QuietStep DEF Skip
<1>5. ASSUME UNCHANGED vars PROVE EndsOnce' /\ OneReporter'
  BY <1>1, <1>5, QuietStep DEF vars
<1>6. QED BY <1>1, <1>2, <1>3, <1>4, <1>5, CancelActions DEF Next

LEMMA InvariantInit == Init => IInv
<1>1. SUFFICES ASSUME Init PROVE EndsOnce /\ OneReporter
  BY TypeInit DEF IInv
<1>2. QED BY <1>1 DEF Init, EndsOnce, OneReporter, Closed, Terminal

\* An analysis ends once: answer, failure and cancellation exclude each other,
\* the terminal event agrees with the status, and the session with the analysis,
\* for any number of workers, overlaps, deaths and redeliveries.
THEOREM AnalysisEndsOnce == Spec => []EndsOnce
<1>1. IInv => EndsOnce
  BY DEF IInv
<1>2. QED BY <1>1, InvariantInit, InvariantStep, PTL DEF Spec

-----------------------------------------------------------------------------
(* Cancellation stops the agent                                            *)

\* A step after a cancellation leaves completed turns and unused calls alone.
LEMMA StoppedStep ==
  ASSUME TypeOK, Cancelled, [Next]_vars
  PROVE  /\ Cancelled' /\ completions' = completions
         /\ \A c \in Calls : tool[c] = "none" => tool'[c] = "none"
<1>0. tool \in [Calls -> {"none", "queued"} \cup Terminal] /\ analysis \in Closed /\ ~Continuable
  BY DEF TypeOK, Cancelled, Closed, Terminal, Continuable
<1>1. ASSUME NEW w \in Workers, Take(w) \/ Handle(w) \/ CallRaises(w) \/ WorkerDies(w)
      PROVE  UNCHANGED <<analysis, completions, tool>>
  <2>1. CASE Take(w) \/ CallRaises(w) \/ WorkerDies(w) \/ Acknowledge(w) \/ Requeue(w)
    BY <2>1 DEF Take, CallRaises, WorkerDies, Acknowledge, Requeue
  <2>2. CASE RunTurn(w)
    BY <2>2 DEF RunTurn, GetSession, TurnForTrigger, RecoverTurn, Reissue, CheckLimits,
                ReadyToolOutputs, SetCallingModel, SetWaitingTool, UpdateStatus, StartTurn
  <2>3. CASE RunModelTurn(w)
    BY <1>0, <2>3 DEF RunModelTurn, ModelResponds, ModelFails, CountToolCalls,
         CompleteWithToolCalls, CompleteWithAnswer, FailTurn, FailAnalysis, ReportFailure
  <2>4. QED BY <1>1, <2>1, <2>2, <2>3 DEF Handle
<1>2. ASSUME NEW c \in Calls, ToolFinishes(c)
      PROVE  /\ UNCHANGED <<analysis, completions>>
             /\ \A d \in Calls : tool[d] = "none" => tool'[d] = "none"
  <2>1. tool[c] = "queued" /\ \E outcome \in Terminal : tool' = [tool EXCEPT ![c] = outcome]
    BY <1>2 DEF ToolFinishes, Terminal
  <2>2. QED BY <1>0, <1>2, <2>1 DEF ToolFinishes
<1>3. ASSUME NEW c \in Calls, Republish(c) \/ ToolRequestLost(c)
      PROVE  UNCHANGED <<analysis, completions, tool>>
  BY <1>3 DEF Republish, ToolRequestLost
<1>4. ASSUME Cancel \/ HandleCancelRequested
      PROVE  /\ Cancelled' /\ completions' = completions
             /\ \A c \in Calls : tool[c] = "none" => tool'[c] = "none"
  BY <1>4 DEF Cancel, HandleCancelRequested, Cancelled
<1>5. ASSUME Skip \/ UNCHANGED vars PROVE UNCHANGED <<analysis, completions, tool>>
  BY <1>5 DEF Skip, vars
<1>6. QED BY <1>1, <1>2, <1>3, <1>4, <1>5 DEF Next, Cancelled

\* After a cancellation no turn is completed and no tool call is created, whatever
\* the model answers and however many workers still handle events of the agent.
THEOREM CancellationStops == Spec => CancelledMeansStopped
<1>1. TypeOK /\ [Next]_vars =>
        [Cancelled => /\ Cancelled'
                      /\ completions' = completions
                      /\ (\A c \in Calls : tool[c] = "none" => tool'[c] = "none")]_vars
  BY StoppedStep
<1>2. QED BY <1>1, TypeCorrect, PTL DEF Spec, CancelledMeansStopped

-----------------------------------------------------------------------------
(* A turn is completed once                                                *)

\* The stages of a worker that has an unfinished turn.
InTurn == {"recover", "model", "count", "tools", "answer", "fail_turn"}

\* A trigger has one worker; its turn is not completed while the worker is in it;
\* and a turn that was completed stays completed.
Alone ==
  /\ \A v, w \in Workers : pc[v] # "idle" /\ pc[w] # "idle" /\ Key(v) = Key(w) => v = w
  /\ \A w \in Workers : pc[w] \in InTurn => turn[Key(w)] # "completed"
  /\ \A k \in Triggers : completions[k] = 0 \/ (completions[k] = 1 /\ turn[k] = "completed")

\* The inductive invariant of TurnCompletedOnce.
OnceInv == TypeOK /\ (overlaps = 0 => Alone)

\* A worker moves on without touching turns.
LEMMA AloneMove ==
  ASSUME TypeOK, Alone, NEW w \in Workers, NEW stage, pc[w] # "idle", pc' = [pc EXCEPT ![w] = stage],
         UNCHANGED <<msg, turn, completions>>,
         stage \in InTurn => turn[Key(w)] # "completed"
  PROVE  Alone'
<1>1. pc \in [Workers -> Stages] /\ \A v \in Workers : Key(v)' = Key(v)
  BY DEF TypeOK, Key
<1>2. \A v \in Workers : pc'[v] = IF v = w THEN stage ELSE pc[v]
  BY <1>1
<1>3. QED BY <1>1, <1>2 DEF Alone

\* A worker leaves its event.
LEMMA AloneLeave ==
  ASSUME TypeOK, Alone, NEW w \in Workers, Leave(w), UNCHANGED <<turn, completions>>
  PROVE  Alone'
<1>1. pc \in [Workers -> Stages] /\ msg \in [Workers -> Events]
  BY DEF TypeOK
<1>2. \A v \in Workers : v # w => pc'[v] = pc[v] /\ Key(v)' = Key(v)
  BY <1>1 DEF Leave, Key
<1>3. pc'[w] = "idle"
  BY <1>1 DEF Leave
<1>4. QED BY <1>2, <1>3 DEF Alone, InTurn

\* A worker writes its own turn.
LEMMA AloneTurn ==
  ASSUME TypeOK, Alone, NEW w \in Workers, NEW stage, NEW value \in TurnStatus,
         pc[w] # "idle", turn[Key(w)] # "completed",
         pc' = [pc EXCEPT ![w] = stage], turn' = [turn EXCEPT ![Key(w)] = value], UNCHANGED msg,
         stage \in InTurn => value # "completed",
         completions' = IF value = "completed" THEN [completions EXCEPT ![Key(w)] = @ + 1] ELSE completions
  PROVE  Alone'
<1> DEFINE k == Key(w)
<1>0. k \in Triggers /\ (\A v \in Workers : Key(v) \in Triggers) /\ \A v \in Workers : Key(v)' = Key(v)
  BY MessageType DEF Key
<1>1. pc \in [Workers -> Stages] /\ turn \in [Triggers -> TurnStatus] /\ completions \in [Triggers -> Nat]
  BY DEF TypeOK
<1> HIDE DEF k
<1>2. \A v \in Workers : pc'[v] = IF v = w THEN stage ELSE pc[v]
  BY <1>1
<1>3. \A j \in Triggers : turn'[j] = IF j = k THEN value ELSE turn[j]
  BY <1>0, <1>1 DEF k
<1>4. \A v \in Workers : v # w /\ pc[v] # "idle" => Key(v) # k
  BY DEF Alone, k
<1>5. completions[k] = 0
  BY <1>0 DEF Alone, k
<1>6. \A j \in Triggers : completions'[j] = IF j = k /\ value = "completed" THEN 1 ELSE completions[j]
  <2>1. CASE value = "completed"
    <3>1. completions' = [completions EXCEPT ![k] = completions[k] + 1]
      BY <2>1 DEF k
    <3>2. QED BY <1>0, <1>1, <1>5, <2>1, <3>1
  <2>2. CASE value # "completed"
    BY <2>2
  <2>3. QED BY <2>1, <2>2
<1>7. \A u, v \in Workers : pc'[u] # "idle" /\ pc'[v] # "idle" /\ Key(u)' = Key(v)' => u = v
  BY <1>0, <1>2 DEF Alone
<1>8. \A v \in Workers : pc'[v] \in InTurn => turn'[Key(v)'] # "completed"
  <2> SUFFICES ASSUME NEW v \in Workers, pc'[v] \in InTurn PROVE turn'[Key(v)] # "completed"
    BY <1>0
  <2>1. CASE v = w
    BY <1>0, <1>2, <1>3, <2>1 DEF k
  <2>2. CASE v # w
    <3>1. pc[v] \in InTurn /\ pc[v] # "idle"
      BY <1>2, <2>2 DEF InTurn
    <3>2. Key(v) # k /\ turn[Key(v)] # "completed"
      BY <1>4, <2>2, <3>1 DEF Alone
    <3>3. QED BY <1>0, <1>3, <3>2
  <2>3. QED BY <2>1, <2>2
<1>9. \A j \in Triggers : completions'[j] = 0 \/ (completions'[j] = 1 /\ turn'[j] = "completed")
  BY <1>3, <1>6, <1>5 DEF Alone
<1>10. QED BY <1>7, <1>8, <1>9 DEF Alone

\* The steps of a worker.
LEMMA AloneWorker ==
  ASSUME TypeOK, Alone, NEW w \in Workers, overlaps' = overlaps,
         Take(w) \/ Handle(w) \/ CallRaises(w) \/ WorkerDies(w)
  PROVE  Alone'
<1>0. pc \in [Workers -> Stages] /\ msg \in [Workers -> Events]
  BY DEF TypeOK
<1>1. CASE Take(w)
  <2>1. PICK m \in inbox : /\ Busy(m) = {} \/ overlaps' = overlaps + 1
                           /\ msg' = [msg EXCEPT ![w] = m]
    BY <1>1 DEF Take
  <2>2. Busy(m) = {}
    BY <2>1 DEF TypeOK
  <2>3. pc' = [pc EXCEPT ![w] = "session"] /\ pc[w] = "idle" /\ UNCHANGED <<turn, completions>>
    BY <1>1 DEF Take, Goto
  <2>4. \A v \in Workers : v # w => pc'[v] = pc[v] /\ Key(v)' = Key(v)
    BY <1>0, <2>1, <2>3 DEF Key
  <2>5. pc'[w] = "session" /\ Key(w)' = m.key
    BY <1>0, <2>1, <2>3 DEF Key
  <2>6. \A v \in Workers : pc[v] # "idle" => Key(v) # m.key
    BY <2>2 DEF Busy, Key
  <2>7. QED BY <2>3, <2>4, <2>5, <2>6 DEF Alone, InTurn
<1>2. CASE Acknowledge(w) \/ Requeue(w) \/ WorkerDies(w)
  BY <1>2, AloneLeave DEF Acknowledge, Requeue, WorkerDies
<1>3. CASE GetSession(w) \/ Reissue(w) \/ CheckLimits(w) \/ ReadyToolOutputs(w) \/ SetCallingModel(w) \/ SetWaitingTool(w)
           \/ FailAnalysis(w) \/ ReportFailure(w) \/ CallRaises(w)
  <2>1. /\ \E stage \in Stages \ InTurn : pc' = [pc EXCEPT ![w] = stage]
        /\ pc[w] # "idle"
    BY <1>3 DEF GetSession, Reissue, CheckLimits, ReadyToolOutputs, SetCallingModel, SetWaitingTool, UpdateStatus,
                FailAnalysis, ReportFailure, CallRaises, Goto, Stages, InTurn
  <2>2. UNCHANGED <<msg, turn, completions>>
    BY <1>3 DEF GetSession, Reissue, CheckLimits, ReadyToolOutputs, SetCallingModel, SetWaitingTool, UpdateStatus,
                FailAnalysis, ReportFailure, CallRaises
  <2>3. QED BY <2>1, <2>2, AloneMove
<1>4. CASE TurnForTrigger(w)
  <2>1. /\ \E stage \in Stages : /\ pc' = [pc EXCEPT ![w] = stage]
                                 /\ stage \in InTurn => turn[Key(w)] # "completed"
        /\ pc[w] # "idle" /\ UNCHANGED <<msg, turn, completions>>
    BY <1>4 DEF TurnForTrigger, Goto, Stages, InTurn
  <2>2. QED BY <2>1, AloneMove
<1>5. CASE RecoverTurn(w) \/ ModelResponds(w) \/ ModelFails(w) \/ CountToolCalls(w)
  <2>1. pc[w] \in InTurn /\ pc[w] # "idle" /\ UNCHANGED <<msg, turn, completions>>
    BY <1>5 DEF RecoverTurn, ModelResponds, ModelFails, CountToolCalls, InTurn
  <2>2. \E stage : pc' = [pc EXCEPT ![w] = stage]
    BY <1>5 DEF RecoverTurn, ModelResponds, ModelFails, CountToolCalls, Goto
  <2>3. turn[Key(w)] # "completed"
    BY <2>1 DEF Alone
  <2>4. QED BY <2>1, <2>2, <2>3, AloneMove
<1>6. CASE StartTurn(w)
  <2>1. CASE turn[Key(w)] = "none"
    <3>1. /\ pc[w] # "idle" /\ pc' = [pc EXCEPT ![w] = "model"] /\ UNCHANGED <<msg, completions>>
          /\ turn' = [turn EXCEPT ![Key(w)] = "calling_model"]
      BY <1>6, <2>1 DEF StartTurn, Goto
    <3>2. "calling_model" \in TurnStatus /\ turn[Key(w)] # "completed"
      BY <2>1 DEF TurnStatus
    <3>3. QED BY <3>1, <3>2, AloneTurn
  <2>2. CASE turn[Key(w)] # "none"
    BY <1>6, <2>2, AloneMove DEF StartTurn, Goto, InTurn
  <2>3. QED BY <2>1, <2>2
<1>7. CASE CompleteWithToolCalls(w) \/ CompleteWithAnswer(w)
  <2>1. pc[w] \in InTurn /\ pc[w] # "idle" /\ UNCHANGED msg
    BY <1>7 DEF CompleteWithToolCalls, CompleteWithAnswer, InTurn
  <2>2. turn[Key(w)] # "completed"
    BY <2>1 DEF Alone
  <2>3. PICK stage \in {"waiting", "requeue", "ack"} : pc' = [pc EXCEPT ![w] = stage]
    BY <1>7 DEF CompleteWithToolCalls, CompleteWithAnswer, Goto
  <2>4. CASE TurnCompleted(Key(w))
    <3>1. /\ turn' = [turn EXCEPT ![Key(w)] = "completed"] /\ completions' = [completions EXCEPT ![Key(w)] = @ + 1]
          /\ "completed" \in TurnStatus /\ stage \notin InTurn
      BY <2>4 DEF TurnCompleted, TurnStatus, InTurn
    <3>2. QED BY <2>1, <2>2, <2>3, <3>1, AloneTurn
  <2>5. CASE UNCHANGED <<turn, completions>>
    BY <2>1, <2>2, <2>3, <2>5, AloneMove
  <2>6. QED BY <1>7, <2>4, <2>5 DEF CompleteWithToolCalls, CompleteWithAnswer
<1>8. CASE FailTurn(w)
  <2>1. /\ pc[w] \in InTurn /\ pc[w] # "idle" /\ pc' = [pc EXCEPT ![w] = "fail"] /\ UNCHANGED <<msg, completions>>
        /\ turn' = [turn EXCEPT ![Key(w)] = "failed"] /\ "failed" \in TurnStatus
    BY <1>8 DEF FailTurn, Goto, InTurn, TurnStatus
  <2>2. turn[Key(w)] # "completed"
    BY <2>1 DEF Alone
  <2>3. QED BY <2>1, <2>2, AloneTurn
<1>9. QED BY <1>1, <1>2, <1>3, <1>4, <1>5, <1>6, <1>7, <1>8 DEF Handle, RunTurn, RunModelTurn

LEMMA OnceStep == OnceInv /\ [Next]_vars => OnceInv'
<1>1. SUFFICES ASSUME OnceInv, [Next]_vars, overlaps' = 0 PROVE Alone'
  BY TypeStep DEF OnceInv
<1>2. TypeOK /\ overlaps \in Nat
  BY <1>1 DEF OnceInv, TypeOK
<1>3. ASSUME NEW w \in Workers, Take(w) \/ Handle(w) \/ CallRaises(w) \/ WorkerDies(w)
      PROVE  Alone'
  <2>1. overlaps' = overlaps \/ overlaps' = overlaps + 1
    BY <1>3 DEF Take, Handle, RunTurn, RunModelTurn, CallRaises, WorkerDies, Acknowledge, Requeue, GetSession,
                TurnForTrigger, RecoverTurn, Reissue, CheckLimits, ReadyToolOutputs, SetCallingModel, SetWaitingTool,
                UpdateStatus, StartTurn, ModelResponds, ModelFails, CountToolCalls, CompleteWithToolCalls,
                CompleteWithAnswer, FailTurn, FailAnalysis, ReportFailure
  <2>2. overlaps' = overlaps /\ overlaps = 0
    BY <1>1, <1>2, <2>1
  <2>3. QED BY <1>1, <1>2, <1>3, <2>2, AloneWorker DEF OnceInv
<1>4. ASSUME UNCHANGED <<pc, msg, turn, completions, overlaps>>
      PROVE  Alone'
  <2>1. Alone
    BY <1>1, <1>4 DEF OnceInv
  <2>2. \A v \in Workers : Key(v)' = Key(v)
    BY <1>4 DEF Key
  <2>3. QED BY <1>4, <2>1, <2>2 DEF Alone
<1>5. ASSUME NEW c \in Calls, ToolFinishes(c) \/ Republish(c) \/ ToolRequestLost(c)
      PROVE  Alone'
  BY <1>4, <1>5 DEF ToolFinishes, Republish, ToolRequestLost
<1>6. CASE Skip \/ Cancel \/ HandleCancelRequested \/ UNCHANGED vars
  BY <1>4, <1>6 DEF Skip, Cancel, HandleCancelRequested, vars
<1>7. QED BY <1>1, <1>3, <1>5, <1>6 DEF Next

\* Redelivery, retries and deaths never complete the turn of a trigger twice; only
\* two workers on the same trigger can.
THEOREM TurnsCompletedOnce == Spec => []TurnCompletedOnce
<1>1. Init => OnceInv
  BY TypeInit DEF Init, OnceInv, Alone, InTurn
<1>2. OnceInv => TurnCompletedOnce
  <2>1. OnceInv => (overlaps = 0 => \A k \in Triggers : completions[k] = 0 \/ completions[k] = 1)
    BY DEF OnceInv, Alone
  <2>2. QED BY <2>1 DEF TurnCompletedOnce
<1>3. QED BY <1>1, <1>2, OnceStep, PTL DEF Spec

-----------------------------------------------------------------------------
(* max_tool_calls                                                          *)

\* The workers between the second comparison and the transaction.
Counted == {w \in Workers : pc[w] = "tools"}

\* How far the responses of the other workers may go beyond max_tool_calls.
Excess == MaxToolCalls + MaxBatch * (Cardinality(Workers) - 1)

\* A response has at least one call and at most MaxBatch.
Batches == \A w \in Workers : pc[w] \in {"count", "tools"} => Cardinality(wants[w]) \in 1 .. MaxBatch

\* Room for a full response of each counted worker, or of each but one whose own
\* response fits.
Room ==
  \/ NumCalls + MaxBatch * Cardinality(Counted) <= Excess
  \/ \E w \in Counted :
       NumCalls + Cardinality(wants[w]) + MaxBatch * Cardinality(Counted \ {w}) <= Excess

\* The inductive invariant of ToolCallLimit.
LimitInv == TypeOK /\ Batches /\ (MaxToolCalls > 0 => Room)

LEMMA Products ==
  /\ \A n \in Nat : MaxBatch * n \in Nat /\ MaxBatch * (n + 1) = MaxBatch * n + MaxBatch
  /\ \A m, n \in Nat : m <= n => MaxBatch * m <= MaxBatch * n
<1>1. \A n \in Nat : MaxBatch * n \in Nat /\ MaxBatch * (n + 1) = MaxBatch * n + MaxBatch
  OBVIOUS
<1>2. ASSUME NEW m \in Nat, NEW n \in Nat, m <= n
      PROVE  MaxBatch * m <= MaxBatch * n
  <2>1. n - m \in Nat /\ MaxBatch \in Nat
    BY <1>2
  <2>2. MaxBatch * (n - m) >= 0
    BY <2>1
  <2>3. MaxBatch * n = MaxBatch * m + MaxBatch * (n - m)
    OBVIOUS
  <2>4. QED BY <2>1, <2>2, <2>3
<1>3. QED BY <1>1, <1>2

\* The numbers in Room.
LEMMA Sizes ==
  ASSUME TypeOK
  PROVE  /\ IsFiniteSet({c \in Calls : tool[c] # "none"}) /\ NumCalls \in Nat /\ Excess \in Nat
         /\ \A S \in SUBSET Workers : IsFiniteSet(S) /\ Cardinality(S) \in Nat
         /\ \A w \in Workers : IsFiniteSet(wants[w]) /\ Cardinality(wants[w]) \in Nat
         /\ \A S, T \in SUBSET Workers : S \subseteq T => Cardinality(S) <= Cardinality(T)
         /\ \A S \in SUBSET Workers : \A w \in S : Cardinality(S) = Cardinality(S \ {w}) + 1
         /\ Cardinality(Workers) \in Nat \ {0}
<1>1. IsFiniteSet({c \in Calls : tool[c] # "none"}) /\ NumCalls \in Nat
  BY FS_Subset, FS_CardinalityType DEF NumCalls
<1>2. \A S \in SUBSET Workers : IsFiniteSet(S) /\ Cardinality(S) \in Nat
  BY FS_Subset, FS_CardinalityType
<1>3. \A w \in Workers : IsFiniteSet(wants[w]) /\ Cardinality(wants[w]) \in Nat
  <2>1. \A w \in Workers : wants[w] \in SUBSET Calls
    BY DEF TypeOK
  <2>2. QED BY <2>1, FS_Subset, FS_CardinalityType
<1>4. \A S, T \in SUBSET Workers : S \subseteq T => Cardinality(S) <= Cardinality(T)
  BY <1>2, FS_Subset
<1>5. \A S \in SUBSET Workers : \A w \in S : Cardinality(S) = Cardinality(S \ {w}) + 1
  <2> SUFFICES ASSUME NEW S \in SUBSET Workers, NEW w \in S PROVE Cardinality(S) = Cardinality(S \ {w}) + 1
    OBVIOUS
  <2>1. Cardinality(S \ {w}) = Cardinality(S) - 1 /\ Cardinality(S) \in Nat
    BY <1>2, FS_RemoveElement
  <2>2. QED BY <2>1
<1>6. Cardinality(Workers) \in Nat \ {0}
  BY <1>2, FS_EmptySet
<1>7. Excess \in Nat
  <2> DEFINE n == Cardinality(Workers) - 1
  <2>1. n \in Nat
    BY <1>6
  <2> HIDE DEF n
  <2>2. MaxBatch * n \in Nat
    BY <2>1, Products
  <2>3. QED BY <2>2 DEF Excess, n
<1>8. QED BY <1>1, <1>2, <1>3, <1>4, <1>5, <1>6, <1>7

\* A worker moves on, perhaps away from its response, and creates no call.
LEMMA RoomMove ==
  ASSUME TypeOK, Room, NEW w \in Workers, NEW stage, stage # "tools", pc' = [pc EXCEPT ![w] = stage],
         NumCalls' = NumCalls, \A v \in Workers : v # w => wants'[v] = wants[v]
  PROVE  Room'
<1> DEFINE C == Counted
           D == Counted'
<1>0. C \in SUBSET Workers /\ D = C \ {w}
  BY DEF TypeOK, Counted
<1> HIDE DEF C, D
<1>1. CASE NumCalls + MaxBatch * Cardinality(C) <= Excess
  <2>1. Cardinality(D) \in Nat /\ Cardinality(C) \in Nat /\ Cardinality(D) <= Cardinality(C)
    BY <1>0, Sizes
  <2>2. MaxBatch * Cardinality(D) <= MaxBatch * Cardinality(C) /\ MaxBatch * Cardinality(C) \in Nat
        /\ MaxBatch * Cardinality(D) \in Nat
    BY <2>1, Products
  <2>3. NumCalls + MaxBatch * Cardinality(D) <= Excess
    BY <1>1, <2>2, Sizes
  <2>4. QED BY <2>3 DEF Room, D, Excess
<1>2. ASSUME NEW v \in C, NumCalls + Cardinality(wants[v]) + MaxBatch * Cardinality(C \ {v}) <= Excess
      PROVE  Room'
  <2>0. NumCalls \in Nat /\ Cardinality(wants[v]) \in Nat /\ Excess \in Nat
    BY <1>0, Sizes
  <2>1. CASE v = w
    <3>1. MaxBatch * Cardinality(D) \in Nat
      BY <1>0, Sizes, Products
    <3>2. NumCalls + MaxBatch * Cardinality(D) <= Excess
      BY <1>0, <1>2, <2>0, <2>1, <3>1
    <3>3. QED BY <3>2 DEF Room, D, Excess
  <2>2. CASE v # w
    <3>1. Cardinality(D \ {v}) \in Nat /\ Cardinality(C \ {v}) \in Nat /\ Cardinality(D \ {v}) <= Cardinality(C \ {v})
      <4>1. D \ {v} \in SUBSET Workers /\ C \ {v} \in SUBSET Workers /\ D \ {v} \subseteq C \ {v}
        BY <1>0
      <4>2. QED BY <4>1, Sizes
    <3>2. MaxBatch * Cardinality(D \ {v}) <= MaxBatch * Cardinality(C \ {v}) /\ MaxBatch * Cardinality(C \ {v}) \in Nat
          /\ MaxBatch * Cardinality(D \ {v}) \in Nat
      BY <3>1, Products
    <3>3. NumCalls + Cardinality(wants[v]) + MaxBatch * Cardinality(D \ {v}) <= Excess
      BY <1>2, <2>0, <3>2
    <3>4. v \in D /\ wants'[v] = wants[v]
      BY <1>0, <2>2
    <3>5. QED BY <3>3, <3>4 DEF Room, D, Excess
  <2>3. QED BY <2>1, <2>2
<1>3. QED BY <1>1, <1>2 DEF Room, C

\* A worker has compared its response.
LEMMA RoomCheck ==
  ASSUME TypeOK, NEW w \in Workers, pc[w] = "count", MaxToolCalls > 0,
         NumCalls + Cardinality(wants[w]) <= MaxToolCalls,
         pc' = [pc EXCEPT ![w] = "tools"], NumCalls' = NumCalls, wants' = wants
  PROVE  Room'
<1> DEFINE C == Counted
           n == Cardinality(Workers) - 1
<1>0. C \in SUBSET (Workers \ {w}) /\ Counted' = C \cup {w} /\ Counted' \ {w} = C
  BY DEF TypeOK, Counted
<1> HIDE DEF C
<1>1. Cardinality(C) \in Nat /\ n \in Nat /\ Cardinality(C) <= n
  <2>1. Cardinality(Workers \ {w}) = n /\ n \in Nat
    <3>1. Cardinality(Workers) = Cardinality(Workers \ {w}) + 1 /\ Cardinality(Workers \ {w}) \in Nat
      BY Sizes
    <3>2. QED BY <3>1
  <2>2. Cardinality(C) <= Cardinality(Workers \ {w}) /\ Cardinality(C) \in Nat
    BY <1>0, Sizes
  <2>3. QED BY <2>1, <2>2
<1> HIDE DEF n
<1>2. MaxBatch * Cardinality(C) <= MaxBatch * n /\ MaxBatch * n \in Nat /\ MaxBatch * Cardinality(C) \in Nat
  BY <1>1, Products
<1>3. NumCalls \in Nat /\ Cardinality(wants[w]) \in Nat
  BY Sizes
<1>4. NumCalls + Cardinality(wants[w]) + MaxBatch * Cardinality(C) <= MaxToolCalls + MaxBatch * n
  BY <1>2, <1>3
<1>5. QED BY <1>0, <1>4 DEF Room, Excess, n

\* A worker creates the calls of its response.
LEMMA RoomCommit ==
  ASSUME TypeOK, Batches, Room, NEW w \in Workers, NEW stage, stage # "tools", pc[w] = "tools",
         pc' = [pc EXCEPT ![w] = stage], \A v \in Workers : v # w => wants'[v] = wants[v],
         NumCalls' \in Nat, NumCalls' <= NumCalls + Cardinality(wants[w])
  PROVE  Room'
<1> DEFINE C == Counted
           D == Counted'
           size == Cardinality(wants[w])
<1>0. C \in SUBSET Workers /\ D = C \ {w} /\ w \in C
  BY DEF TypeOK, Counted
<1>00. size \in Nat /\ size <= MaxBatch /\ NumCalls \in Nat /\ Excess \in Nat /\ NumCalls' <= NumCalls + size
  BY Sizes DEF Batches
<1> HIDE DEF C, D, size
<1>1. CASE NumCalls + MaxBatch * Cardinality(C) <= Excess
  <2>1. Cardinality(C) = Cardinality(D) + 1 /\ Cardinality(D) \in Nat
    BY <1>0, Sizes
  <2>2. MaxBatch * Cardinality(C) = MaxBatch * Cardinality(D) + MaxBatch /\ MaxBatch * Cardinality(D) \in Nat
    BY <2>1, Products
  <2>3. NumCalls' + MaxBatch * Cardinality(D) <= Excess
    BY <1>1, <1>00, <2>2
  <2>4. QED BY <2>3 DEF Room, D, Excess
<1>2. ASSUME NEW v \in C, NumCalls + Cardinality(wants[v]) + MaxBatch * Cardinality(C \ {v}) <= Excess
      PROVE  Room'
  <2>1. CASE v = w
    <3>1. MaxBatch * Cardinality(D) \in Nat
      BY <1>0, Sizes, Products
    <3>2. NumCalls' + MaxBatch * Cardinality(D) <= Excess
      BY <1>0, <1>2, <1>00, <2>1, <3>1 DEF size
    <3>3. QED BY <3>2 DEF Room, D, Excess
  <2>2. CASE v # w
    <3>1. Cardinality(C \ {v}) = Cardinality(D \ {v}) + 1 /\ Cardinality(D \ {v}) \in Nat /\ Cardinality(wants[v]) \in Nat
      <4>1. C \ {v} \in SUBSET Workers /\ w \in C \ {v} /\ (C \ {v}) \ {w} = D \ {v} /\ D \ {v} \in SUBSET Workers
        BY <1>0, <2>2
      <4> HIDE DEF C, D
      <4>2. Cardinality(C \ {v}) = Cardinality((C \ {v}) \ {w}) + 1
        BY <4>1, Sizes
      <4>3. QED BY <1>0, <4>1, <4>2, Sizes
    <3>2. MaxBatch * Cardinality(C \ {v}) = MaxBatch * Cardinality(D \ {v}) + MaxBatch
          /\ MaxBatch * Cardinality(D \ {v}) \in Nat
      BY <3>1, Products
    <3>3. NumCalls' + Cardinality(wants[v]) + MaxBatch * Cardinality(D \ {v}) <= Excess
      BY <1>2, <1>00, <3>1, <3>2
    <3>4. v \in D /\ wants'[v] = wants[v]
      BY <1>0, <2>2
    <3>5. QED BY <3>3, <3>4 DEF Room, D, Excess
  <2>3. QED BY <2>1, <2>2
<1>3. QED BY <1>1, <1>2 DEF Room, C

\* The number of calls depends on which calls there are.
LEMMA SameCalls ==
  ASSUME \A c \in Calls : tool'[c] # "none" <=> tool[c] # "none"
  PROVE  NumCalls' = NumCalls
<1>1. {c \in Calls : tool'[c] # "none"} = {c \in Calls : tool[c] # "none"}
  OBVIOUS
<1>2. QED BY <1>1 DEF NumCalls

\* A step of a worker that neither takes nor compares a response.
LEMMA LimitMove ==
  ASSUME LimitInv, NEW w \in Workers, NEW stage \in Stages \ {"count", "tools"},
         pc' = [pc EXCEPT ![w] = stage], UNCHANGED tool, \A v \in Workers : v # w => wants'[v] = wants[v]
  PROVE  Batches' /\ (MaxToolCalls > 0 => Room')
<1>0. TypeOK /\ Batches /\ (MaxToolCalls > 0 => Room)
  BY DEF LimitInv
<1>1. NumCalls' = NumCalls
  BY SameCalls
<1>2. Batches'
  BY <1>0 DEF Batches, TypeOK
<1>3. QED BY <1>0, <1>1, <1>2, RoomMove

LEMMA LimitWorker ==
  ASSUME LimitInv, NEW w \in Workers, Take(w) \/ Handle(w) \/ CallRaises(w) \/ WorkerDies(w)
  PROVE  Batches' /\ (MaxToolCalls > 0 => Room')
<1>0. TypeOK /\ Batches /\ (MaxToolCalls > 0 => Room) /\ pc \in [Workers -> Stages] /\ wants \in [Workers -> SUBSET Calls]
  BY DEF LimitInv, TypeOK
<1>1. CASE \/ Take(w) \/ CallRaises(w) \/ GetSession(w) \/ TurnForTrigger(w) \/ CheckLimits(w) \/ ReadyToolOutputs(w)
           \/ SetCallingModel(w) \/ SetWaitingTool(w) \/ StartTurn(w) \/ ModelFails(w) \/ CompleteWithAnswer(w)
           \/ FailTurn(w) \/ FailAnalysis(w) \/ ReportFailure(w)
  <2>1. \E stage \in Stages \ {"count", "tools"} : pc' = [pc EXCEPT ![w] = stage]
    BY <1>1 DEF Take, CallRaises, GetSession, TurnForTrigger, CheckLimits, ReadyToolOutputs, SetCallingModel,
      SetWaitingTool, UpdateStatus, StartTurn, ModelFails, CompleteWithAnswer, FailTurn, FailAnalysis, ReportFailure,
      Goto, Stages
  <2>2. UNCHANGED <<tool, wants>>
    BY <1>1 DEF Take, CallRaises, GetSession, TurnForTrigger, CheckLimits, ReadyToolOutputs, SetCallingModel,
      SetWaitingTool, UpdateStatus, StartTurn, ModelFails, CompleteWithAnswer, FailTurn, FailAnalysis, ReportFailure
  <2>3. QED BY <2>1, <2>2, LimitMove
<1>2. CASE Acknowledge(w) \/ Requeue(w) \/ WorkerDies(w)
  <2>1. Leave(w) /\ UNCHANGED tool
    BY <1>2 DEF Acknowledge, Requeue, WorkerDies
  <2>2. pc' = [pc EXCEPT ![w] = "idle"] /\ \A v \in Workers : v # w => wants'[v] = wants[v]
    BY <1>0, <2>1 DEF Leave
  <2>3. QED BY <2>1, <2>2, LimitMove DEF Stages
<1>3. CASE RecoverTurn(w) \/ Reissue(w)
  <2>1. \E stage \in Stages \ {"count", "tools"} : pc' = [pc EXCEPT ![w] = stage]
    BY <1>3 DEF RecoverTurn, Reissue, Goto, Stages
  <2>2. UNCHANGED tool /\ \A v \in Workers : v # w => wants'[v] = wants[v]
    BY <1>0, <1>3 DEF RecoverTurn, Reissue
  <2>3. QED BY <2>1, <2>2, LimitMove
<1>4. CASE ModelResponds(w)
  <2>1. CASE UNCHANGED wants
    <3>1. \E stage \in {"ack", "answer", "count"} : pc' = [pc EXCEPT ![w] = stage]
      BY <1>4 DEF ModelResponds, Goto
    <3>2. \/ pc' = [pc EXCEPT ![w] = "ack"] \/ pc' = [pc EXCEPT ![w] = "answer"]
          \/ pc' = [pc EXCEPT ![w] = "count"] /\ Cardinality(wants'[w]) \in 1 .. MaxBatch
      BY <1>0, <1>4 DEF ModelResponds, Goto
    <3>3. CASE pc' = [pc EXCEPT ![w] = "count"] /\ Cardinality(wants'[w]) \in 1 .. MaxBatch
      <4>1. NumCalls' = NumCalls
        BY <1>4, SameCalls DEF ModelResponds
      <4>2. Batches'
        BY <1>0, <2>1, <3>3 DEF Batches
      <4>3. QED BY <1>0, <2>1, <3>3, <4>1, <4>2, RoomMove
    <3>4. QED BY <1>4, <2>1, <3>2, <3>3, LimitMove DEF ModelResponds, Stages
  <2>2. CASE ~UNCHANGED wants
    <3>1. PICK batch \in SUBSET Unused : /\ Cardinality(batch) \in 1 .. MaxBatch
                                         /\ wants' = [wants EXCEPT ![w] = batch]
                                         /\ pc' = [pc EXCEPT ![w] = "count"]
      BY <1>4, <2>2 DEF ModelResponds, Goto
    <3>2. \A v \in Workers : v # w => wants'[v] = wants[v]
      BY <1>0, <3>1
    <3>3. wants'[w] = batch
      BY <1>0, <3>1
    <3>4. Batches'
      BY <1>0, <3>1, <3>2, <3>3 DEF Batches
    <3>5. NumCalls' = NumCalls
      BY <1>4, SameCalls DEF ModelResponds
    <3>6. QED BY <1>0, <3>1, <3>2, <3>4, <3>5, RoomMove
  <2>3. QED BY <2>1, <2>2
<1>5. CASE CountToolCalls(w)
  <2>1. pc[w] = "count" /\ UNCHANGED <<tool, wants>>
    BY <1>5 DEF CountToolCalls
  <2>2. CASE CallsLeft(Cardinality(wants[w]))
    <3>1. pc' = [pc EXCEPT ![w] = "tools"]
      BY <1>5, <2>2 DEF CountToolCalls, Goto
    <3>2. NumCalls' = NumCalls
      BY <2>1, SameCalls
    <3>3. Batches'
      BY <1>0, <2>1, <3>1 DEF Batches
    <3>4. MaxToolCalls > 0 => NumCalls + Cardinality(wants[w]) <= MaxToolCalls
      BY <2>2 DEF CallsLeft
    <3>5. QED BY <1>0, <2>1, <3>1, <3>2, <3>3, <3>4, RoomCheck
  <2>3. CASE ~CallsLeft(Cardinality(wants[w]))
    BY <1>5, <2>1, <2>3, LimitMove DEF CountToolCalls, Goto, Stages
  <2>4. QED BY <2>2, <2>3
<1>6. CASE CompleteWithToolCalls(w)
  <2>1. /\ pc[w] = "tools" /\ \A v \in Workers : v # w => wants'[v] = wants[v]
    BY <1>0, <1>6 DEF CompleteWithToolCalls
  <2>2. CASE Continuable
    <3>1. pc' = [pc EXCEPT ![w] = "waiting"]
      BY <1>6, <2>2 DEF CompleteWithToolCalls, Goto
    <3>2. PICK reused \in SUBSET wants[w] :
            tool' = [c \in Calls |-> IF c \in reused THEN "completed" ELSE IF c \in wants[w] THEN "queued" ELSE tool[c]]
      BY <1>6, <2>2 DEF CompleteWithToolCalls
    <3> DEFINE A == {c \in Calls : tool[c] # "none"}
               B == wants[w]
    <3>3. {c \in Calls : tool'[c] # "none"} = A \cup B
      BY <1>0, <3>2
    <3>4. IsFiniteSet(A) /\ IsFiniteSet(B) /\ NumCalls = Cardinality(A)
      BY <1>0, Sizes DEF NumCalls
    <3> HIDE DEF A, B
    <3>5. /\ Cardinality(A \cup B) = Cardinality(A) + Cardinality(B) - Cardinality(A \cap B)
          /\ IsFiniteSet(A \cup B)
      BY <3>4, FS_Union
    <3>6. IsFiniteSet(A \cap B)
      BY <3>4, FS_Subset
    <3>7. Cardinality(A) \in Nat /\ Cardinality(B) \in Nat /\ Cardinality(A \cap B) \in Nat /\ Cardinality(A \cup B) \in Nat
      BY <3>4, <3>5, <3>6, FS_CardinalityType
    <3>8. NumCalls' = Cardinality(A \cup B)
      BY <3>3 DEF NumCalls
    <3>9. NumCalls' \in Nat /\ NumCalls' <= NumCalls + Cardinality(wants[w])
      BY <3>4, <3>5, <3>7, <3>8 DEF B
    <3>10. Batches'
      BY <1>0, <2>1, <3>1 DEF Batches
    <3>11. QED BY <1>0, <2>1, <3>1, <3>9, <3>10, RoomCommit
  <2>3. CASE ~Continuable
    BY <1>6, <2>1, <2>3, LimitMove DEF CompleteWithToolCalls, Goto, Stages
  <2>4. QED BY <2>2, <2>3
<1>7. QED BY <1>1, <1>2, <1>3, <1>4, <1>5, <1>6 DEF Handle, RunTurn, RunModelTurn

LEMMA LimitStep == LimitInv /\ [Next]_vars => LimitInv'
<1>1. SUFFICES ASSUME LimitInv, [Next]_vars PROVE Batches' /\ (MaxToolCalls > 0 => Room')
  BY TypeStep DEF LimitInv
<1>2. ASSUME UNCHANGED <<pc, wants>>, \A c \in Calls : tool'[c] # "none" <=> tool[c] # "none"
      PROVE  Batches' /\ (MaxToolCalls > 0 => Room')
  <2>1. NumCalls' = NumCalls
    BY <1>2, SameCalls
  <2>2. Counted' = Counted
    BY <1>2 DEF Counted
  <2>3. QED BY <1>1, <1>2, <2>1, <2>2 DEF LimitInv, Batches, Room, Excess
<1>3. tool \in [Calls -> {"none", "queued"} \cup Terminal]
  BY <1>1 DEF LimitInv, TypeOK
<1>4. ASSUME NEW c \in Calls, ToolFinishes(c) \/ Republish(c) \/ ToolRequestLost(c)
      PROVE  Batches' /\ (MaxToolCalls > 0 => Room')
  <2>1. UNCHANGED <<pc, wants>>
    BY <1>4 DEF ToolFinishes, Republish, ToolRequestLost
  <2>2. \A d \in Calls : tool'[d] # "none" <=> tool[d] # "none"
    BY <1>3, <1>4 DEF ToolFinishes, Republish, ToolRequestLost
  <2>3. QED BY <1>2, <2>1, <2>2
<1>5. CASE Skip \/ Cancel \/ HandleCancelRequested \/ UNCHANGED vars
  BY <1>2, <1>3, <1>5 DEF Skip, Cancel, HandleCancelRequested, vars
<1>6. QED BY <1>1, <1>4, <1>5, LimitWorker DEF Next

\* max_tool_calls is exceeded by at most one response for each worker but one,
\* although it is compared before the transaction that creates the calls.
THEOREM ToolCallsLimited == Spec => []ToolCallLimit
<1>1. Init => LimitInv
  <2>1. SUFFICES ASSUME Init PROVE Batches /\ Room
    BY TypeInit DEF LimitInv
  <2>2. TypeOK
    BY <2>1, TypeInit
  <2>3. Counted = {} /\ {c \in Calls : tool[c] # "none"} = {}
    BY <2>1 DEF Init, Counted
  <2>4. NumCalls = 0 /\ Cardinality(Counted) = 0
    BY <2>3, FS_EmptySet DEF NumCalls
  <2>5. NumCalls + MaxBatch * Cardinality(Counted) <= Excess
    BY <2>2, <2>4, Sizes
  <2>6. QED BY <2>1, <2>5 DEF Init, Batches, Room
<1>2. LimitInv => ToolCallLimit
  <2>1. SUFFICES ASSUME LimitInv, MaxToolCalls > 0 PROVE NumCalls <= Excess
    BY DEF ToolCallLimit, Excess
  <2>2. TypeOK /\ Room /\ Counted \in SUBSET Workers
    BY <2>1 DEF LimitInv, Counted
  <2>3. NumCalls \in Nat /\ Excess \in Nat
    BY <2>2, Sizes
  <2>4. CASE NumCalls + MaxBatch * Cardinality(Counted) <= Excess
    <3>1. MaxBatch * Cardinality(Counted) \in Nat
      BY <2>2, Sizes, Products
    <3>2. QED BY <2>3, <2>4, <3>1
  <2>5. ASSUME NEW w \in Counted, NumCalls + Cardinality(wants[w]) + MaxBatch * Cardinality(Counted \ {w}) <= Excess
        PROVE  NumCalls <= Excess
    <3>1. MaxBatch * Cardinality(Counted \ {w}) \in Nat /\ Cardinality(wants[w]) \in Nat
      BY <2>2, Sizes, Products
    <3>2. QED BY <2>3, <2>5, <3>1
  <2>6. QED BY <2>2, <2>4, <2>5 DEF Room
<1>3. QED BY <1>1, <1>2, LimitStep, PTL DEF Spec

-----------------------------------------------------------------------------
(* No wakeup is lost                                                       *)

\* The calls of the turn of k.
Kids(k) == {c \in Calls : tool[c] # "none" /\ parent[c] = k}

\* The calls a worker is about to create are nobody's yet.
Requests ==
  /\ \A w \in Workers : pc[w] \in {"count", "tools"} => wants[w] # {} /\ \A c \in wants[w] : tool[c] = "none"
  /\ \A v, w \in Workers : pc[v] \in {"count", "tools"} /\ pc[w] \in {"count", "tools"} /\ v # w =>
       wants[v] \cap wants[w] = {}

\* A call that has not finished has no event.
Fresh ==
  \A c \in Calls : tool[c] \in {"none", "queued"} =>
    /\ \A m \in inbox : m.key # c
    /\ \A e \in processed : e.key # c
    /\ \A w \in Workers : pc[w] # "idle" => Key(w) # c

\* Calls are created from the first turn on, a turn is that of a call or the first,
\* and a worker that is about to wait has created calls.
Rooted ==
  /\ (\E c \in Calls : tool[c] # "none") => Kids(Start) # {}
  /\ \A c \in Calls : Kids(c) # {} => tool[c] # "none"
  /\ \A w \in Workers : pc[w] \in {"reissue", "waiting"} => Kids(Key(w)) # {}
  /\ \A w \in Workers : pc[w] = "ready" => Key(w) # Start
  /\ status = "waiting_tool" => Kids(Start) # {}

\* While the analysis runs a completed turn has calls and no call is cancelled.
Running ==
  analysis = "running" =>
    /\ \A k \in Triggers : turn[k] = "completed" => Kids(k) # {}
    /\ \A c \in Calls : tool[c] # "cancelled"

\* An event of k is on its way, and nobody is about to acknowledge one.
Good(k) == OnItsWay(k) /\ \A w \in Workers : pc[w] = "ack" => Key(w) # k

\* The calls of k are the last ones that were made.
Last(k) == Kids(k) # {} /\ \A c \in Kids(k) : Kids(c) = {}

\* One of the last calls runs, or the event of one of them will start a turn.
Driven ==
  analysis = "running" =>
    \/ dead # {}
    \/ Kids(Start) = {} /\ Good(Start)
    \/ \E k \in Triggers : Last(k) /\ (Pending(k) # {} \/ \E c \in Kids(k) : Good(c))

\* The inductive invariant of NeverStuck.
WakeInv == IInv /\ Requests /\ Fresh /\ Rooted /\ Running /\ Driven

LEMMA SameKids ==
  ASSUME parent' = parent, \A c \in Calls : tool'[c] # "none" <=> tool[c] # "none"
  PROVE  \A k : Kids(k)' = Kids(k)
BY DEF Kids

LEMMA SamePending ==
  ASSUME UNCHANGED <<tool, parent>>
  PROVE  \A k : Kids(k)' = Kids(k) /\ Pending(k)' = Pending(k)
BY DEF Kids, Pending

\* While the analysis runs its session is open.
LEMMA OpenSession ==
  ASSUME IInv, analysis = "running"
  PROVE  status \notin Closed /\ Continuable /\ \A w \in Workers : pc[w] # "report"
<1>1. analysis \notin Terminal /\ analysis \notin Closed
  BY DEF Terminal, Closed
<1>2. QED BY <1>1, StillOpen DEF Continuable

\* What Driven needs of a step that creates and finishes no call: the events that
\* will start a turn stay.
LEMMA DrivenKept ==
  ASSUME TypeOK, Driven, analysis' = "running" => analysis = "running", UNCHANGED <<tool, parent>>, dead \subseteq dead',
         \A k \in Triggers :
           /\ analysis' = "running" /\ Good(k) /\ Kids(k) = {}
           /\ k \in Calls => Pending(parent[k]) = {}
           => Good(k)' \/ dead' # {}
  PROVE  Driven'
<1>1. SUFFICES ASSUME analysis' = "running", dead' = {}
               PROVE  \/ Kids(Start)' = {} /\ Good(Start)'
                      \/ \E k \in Triggers : Last(k)' /\ (Pending(k)' # {} \/ \E c \in Kids(k)' : Good(c)')
  BY DEF Driven
<1>2. \A k : Kids(k)' = Kids(k) /\ Pending(k)' = Pending(k)
  BY SamePending
<1>3. \A k : Last(k)' <=> Last(k)
  BY <1>2 DEF Last
<1>4. CASE Kids(Start) = {} /\ Good(Start)
  BY <1>1, <1>2, <1>4 DEF Triggers
<1>5. ASSUME NEW k \in Triggers, Last(k), Pending(k) # {} \/ \E c \in Kids(k) : Good(c)
      PROVE  Last(k)' /\ (Pending(k)' # {} \/ \E c \in Kids(k)' : Good(c)')
  <2>1. CASE Pending(k) # {}
    BY <1>2, <1>3, <1>5, <2>1
  <2>2. CASE Pending(k) = {}
    <3>1. PICK c \in Kids(k) : Good(c)
      BY <1>5, <2>2
    <3>2. c \in Calls /\ c \in Triggers /\ parent[c] = k /\ Kids(c) = {}
      BY <1>5, <3>1 DEF Kids, Last, Triggers
    <3>3. Good(c)'
      BY <1>1, <2>2, <3>1, <3>2
    <3>4. QED BY <1>2, <1>3, <1>5, <3>1, <3>3
  <2>3. QED BY <2>1, <2>2
<1>6. QED BY <1>1, <1>4, <1>5 DEF Driven

\* The events that will start a turn stay when the queue and the stages that
\* acknowledge do.
LEMMA GoodKept ==
  ASSUME NEW k, Good(k), inbox \subseteq inbox', processed' = processed,
         \A v \in Workers : pc'[v] = "ack" => (pc[v] = "ack" /\ msg'[v] = msg[v]) \/ msg'[v].key # k
  PROVE  Good(k)'
<1>1. OnItsWay(k)'
  BY DEF Good, OnItsWay
<1>2. \A v \in Workers : pc'[v] = "ack" => Key(v)' # k
  BY DEF Good, Key
<1>3. QED BY <1>1, <1>2 DEF Good

\* A worker moves on within the handler, and no call is created.
LEMMA WakeMove ==
  ASSUME WakeInv, NEW w \in Workers, NEW stage \in Stages, pc[w] # "idle", pc' = [pc EXCEPT ![w] = stage],
         UNCHANGED <<msg, tool, parent, inbox, processed, dead>>,
         analysis' = "running" => analysis = "running",
         \A v \in Workers : v # w => wants'[v] = wants[v],
         stage \in {"count", "tools"} =>
           /\ wants'[w] # {} /\ \A c \in wants'[w] : tool[c] = "none"
           /\ \A v \in Workers : v # w /\ pc[v] \in {"count", "tools"} => wants[v] \cap wants'[w] = {},
         stage \in {"reissue", "waiting"} => Kids(Key(w)) # {},
         stage = "ready" => Key(w) # Start,
         status' = "waiting_tool" => status = "waiting_tool" \/ Kids(Key(w)) # {},
         \A k \in Triggers : turn'[k] = "completed" => turn[k] = "completed",
         stage = "ack" /\ analysis' = "running" =>
           \/ Kids(Key(w)) # {}
           \/ Key(w) \in Calls /\ Pending(parent[Key(w)]) # {}
  PROVE  Requests' /\ Fresh' /\ Rooted' /\ Running' /\ Driven'
<1>0. TypeOK /\ Requests /\ Fresh /\ Rooted /\ Running /\ Driven /\ pc \in [Workers -> Stages]
  BY DEF WakeInv, IInv, TypeOK
<1>1. \A v \in Workers : pc'[v] = IF v = w THEN stage ELSE pc[v]
  BY <1>0
<1>2. (\A k : Kids(k)' = Kids(k) /\ Pending(k)' = Pending(k)) /\ \A v \in Workers : Key(v)' = Key(v)
  BY SamePending DEF Key
<1>3. Requests'
  BY <1>0, <1>1 DEF Requests
<1>4. Fresh'
  BY <1>0, <1>1, <1>2 DEF Fresh
<1>5. Rooted'
  <2>1. Kids(Key(w)) # {} => Kids(Start) # {}
    BY <1>0 DEF Rooted, Kids
  <2>2. status' = "waiting_tool" => Kids(Start)' # {}
    BY <1>0, <1>2, <2>1 DEF Rooted
  <2>3. QED BY <1>0, <1>1, <1>2, <2>2 DEF Rooted
<1>6. Running'
  BY <1>0, <1>2 DEF Running
<1>7. Driven'
  <2>1. ASSUME NEW k \in Triggers, analysis' = "running", Good(k), Kids(k) = {}, k \in Calls => Pending(parent[k]) = {}
        PROVE  Good(k)'
    <3>1. stage = "ack" => msg'[w].key # k
      BY <2>1 DEF Key
    <3>2. \A v \in Workers : pc'[v] = "ack" => (pc[v] = "ack" /\ msg'[v] = msg[v]) \/ msg'[v].key # k
      BY <1>1, <3>1
    <3>3. QED BY <2>1, <3>2, GoodKept
  <2>2. QED BY <1>0, <2>1, DrivenKept
<1>8. QED BY <1>3, <1>4, <1>5, <1>6, <1>7

\* The stages of the handler that create no call.
LEMMA WakeHandler ==
  ASSUME WakeInv, NEW w \in Workers,
         \/ CallRaises(w) \/ RunTurn(w) \/ ModelResponds(w) \/ ModelFails(w) \/ CountToolCalls(w)
         \/ CompleteWithAnswer(w) \/ FailTurn(w) \/ FailAnalysis(w) \/ ReportFailure(w)
         \/ (CompleteWithToolCalls(w) /\ ~Continuable)
  PROVE  Requests' /\ Fresh' /\ Rooted' /\ Running' /\ Driven'
<1>0. /\ IInv /\ TypeOK /\ Requests /\ Fresh /\ Rooted /\ Running /\ Driven
      /\ pc \in [Workers -> Stages] /\ wants \in [Workers -> SUBSET Calls] /\ turn \in [Triggers -> TurnStatus]
      /\ Key(w) \in Triggers
  BY MessageType DEF WakeInv, IInv, TypeOK
<1> DEFINE quiet == Stages \ {"count", "tools", "reissue", "waiting", "ready", "ack"}
<1>1. CASE CallRaises(w) \/ ModelFails(w) \/ SetCallingModel(w)
  <2>1. /\ pc[w] # "idle" /\ UNCHANGED <<msg, tool, parent, inbox, processed, dead, analysis, wants, turn>>
        /\ status' = "waiting_tool" => status = "waiting_tool"
    BY <1>1 DEF CallRaises, ModelFails, SetCallingModel, UpdateStatus
  <2>2. \E stage \in quiet : pc' = [pc EXCEPT ![w] = stage]
    BY <1>1 DEF CallRaises, ModelFails, SetCallingModel, UpdateStatus, Goto, Stages
  <2>3. QED BY <2>1, <2>2, WakeMove
<1>2. CASE GetSession(w)
  <2>1. pc[w] # "idle" /\ UNCHANGED <<msg, tool, parent, inbox, processed, dead, analysis, wants, turn, status>>
    BY <1>2 DEF GetSession
  <2>2. CASE status \in Terminal \/ (status = "waiting_tool" /\ Key(w) = Start)
    <3>1. pc' = [pc EXCEPT ![w] = "ack"]
      BY <1>2, <2>2 DEF GetSession, Goto
    <3>2. analysis' = "running" => Kids(Key(w)) # {}
      BY <1>0, <2>1, <2>2, OpenSession DEF Closed, Rooted
    <3>3. QED BY <2>1, <3>1, <3>2, WakeMove DEF Stages
  <2>3. CASE ~(status \in Terminal \/ (status = "waiting_tool" /\ Key(w) = Start))
    <3>1. pc' = [pc EXCEPT ![w] = "lookup"]
      BY <1>2, <2>3 DEF GetSession, Goto
    <3>2. QED BY <2>1, <3>1, WakeMove DEF Stages
  <2>4. QED BY <2>2, <2>3
<1>3. CASE TurnForTrigger(w)
  <2>1. pc[w] # "idle" /\ UNCHANGED <<msg, tool, parent, inbox, processed, dead, analysis, wants, turn, status>>
    BY <1>3 DEF TurnForTrigger
  <2>2. CASE turn[Key(w)] = "completed"
    <3>1. pc' = [pc EXCEPT ![w] = "ack"]
      BY <1>3, <2>2 DEF TurnForTrigger, Goto
    <3>2. analysis' = "running" => Kids(Key(w)) # {}
      BY <1>0, <2>1, <2>2 DEF Running
    <3>3. QED BY <2>1, <3>1, <3>2, WakeMove DEF Stages
  <2>3. CASE turn[Key(w)] # "completed"
    <3>1. \E stage \in {"limits", "recover"} : pc' = [pc EXCEPT ![w] = stage]
      BY <1>3, <2>3 DEF TurnForTrigger, Goto
    <3>2. QED BY <2>1, <3>1, WakeMove DEF Stages
  <2>4. QED BY <2>2, <2>3
<1>4. CASE RecoverTurn(w)
  <2>1. pc[w] # "idle" /\ UNCHANGED <<msg, tool, parent, inbox, processed, dead, analysis, turn, status>>
    BY <1>4 DEF RecoverTurn
  <2>2. \A v \in Workers : v # w => wants'[v] = wants[v]
    BY <1>0, <1>4 DEF RecoverTurn
  <2>3. CASE Pending(Key(w)) # {}
    <3>1. pc' = [pc EXCEPT ![w] = "reissue"]
      BY <1>4, <2>3 DEF RecoverTurn, Goto
    <3>2. Kids(Key(w)) # {}
      BY <2>3 DEF Pending, Kids
    <3>3. QED BY <2>1, <2>2, <3>1, <3>2, WakeMove DEF Stages
  <2>4. CASE Pending(Key(w)) = {}
    <3>1. \E stage \in {"model", "fail_turn"} : pc' = [pc EXCEPT ![w] = stage]
      BY <1>4, <2>4 DEF RecoverTurn, Goto
    <3>2. QED BY <2>1, <2>2, <3>1, WakeMove DEF Stages
  <2>5. QED BY <2>3, <2>4
<1>5. CASE Reissue(w)
  <2>1. /\ pc[w] = "reissue" /\ UNCHANGED <<msg, tool, parent, inbox, processed, dead, analysis, turn, status>>
        /\ pc' = [pc EXCEPT ![w] = "waiting"] /\ \A v \in Workers : v # w => wants'[v] = wants[v]
    BY <1>0, <1>5 DEF Reissue, Goto
  <2>2. Kids(Key(w)) # {}
    BY <1>0, <2>1 DEF Rooted
  <2>3. QED BY <2>1, <2>2, WakeMove DEF Stages
<1>6. CASE CheckLimits(w)
  <2>1. pc[w] # "idle" /\ UNCHANGED <<msg, tool, parent, inbox, processed, dead, analysis, wants, turn, status>>
    BY <1>6 DEF CheckLimits
  <2>2. CASE pc' = [pc EXCEPT ![w] = "ready"] /\ Key(w) # Start
    BY <2>1, <2>2, WakeMove DEF Stages
  <2>3. CASE \E stage \in {"fail", "calling"} : pc' = [pc EXCEPT ![w] = stage]
    BY <2>1, <2>3, WakeMove DEF Stages
  <2>4. QED BY <1>6, <2>2, <2>3 DEF CheckLimits, Goto
<1>7. CASE ReadyToolOutputs(w)
  <2>1. pc[w] = "ready" /\ UNCHANGED <<msg, tool, parent, inbox, processed, dead, analysis, wants, turn, status>>
    BY <1>7 DEF ReadyToolOutputs
  <2>2. Key(w) \in Calls
    BY <1>0, <2>1 DEF Rooted, Triggers
  <2>3. \E stage \in {"ack", "calling"} :
          /\ pc' = [pc EXCEPT ![w] = stage]
          /\ stage = "ack" => tool[Key(w)] = "cancelled" \/ Pending(parent[Key(w)]) # {}
    BY <1>7 DEF ReadyToolOutputs, Goto
  <2>4. analysis' = "running" => tool[Key(w)] # "cancelled"
    BY <1>0, <2>1, <2>2 DEF Running
  <2>5. QED BY <2>1, <2>2, <2>3, <2>4, WakeMove DEF Stages
<1>8. CASE SetWaitingTool(w)
  <2>1. /\ pc[w] = "waiting" /\ UNCHANGED <<msg, tool, parent, inbox, processed, dead, analysis, wants, turn>>
        /\ pc' = [pc EXCEPT ![w] = "ack"]
    BY <1>8 DEF SetWaitingTool, UpdateStatus, Goto
  <2>2. Kids(Key(w)) # {}
    BY <1>0, <2>1 DEF Rooted
  <2>3. QED BY <2>1, <2>2, WakeMove DEF Stages
<1>9. CASE StartTurn(w) \/ FailTurn(w)
  <2>1. pc[w] # "idle" /\ UNCHANGED <<msg, tool, parent, inbox, processed, dead, analysis, wants, status>>
    BY <1>9 DEF StartTurn, FailTurn
  <2>2. \A k \in Triggers : turn'[k] = "completed" => turn[k] = "completed"
    BY <1>0, <1>9 DEF StartTurn, FailTurn
  <2>3. \E stage \in quiet : pc' = [pc EXCEPT ![w] = stage]
    BY <1>9 DEF StartTurn, FailTurn, Goto, Stages
  <2>4. QED BY <2>1, <2>2, <2>3, WakeMove
<1>10. CASE ModelResponds(w)
  <2>1. pc[w] # "idle" /\ UNCHANGED <<msg, tool, parent, inbox, processed, dead, analysis, turn, status>>
    BY <1>10 DEF ModelResponds
  <2>2. CASE status \in Closed
    <3>1. pc' = [pc EXCEPT ![w] = "ack"] /\ wants' = wants /\ analysis # "running"
      BY <1>0, <1>10, <2>2, OpenSession DEF ModelResponds, Goto
    <3>2. QED BY <2>1, <3>1, WakeMove DEF Stages
  <2>3. CASE pc' = [pc EXCEPT ![w] = "answer"] /\ wants' = wants
    BY <2>1, <2>3, WakeMove DEF Stages
  <2>4. ASSUME NEW batch \in SUBSET Unused, Cardinality(batch) \in 1 .. MaxBatch,
               wants' = [wants EXCEPT ![w] = batch], pc' = [pc EXCEPT ![w] = "count"]
        PROVE  Requests' /\ Fresh' /\ Rooted' /\ Running' /\ Driven'
    <3>1. wants'[w] = batch /\ \A v \in Workers : v # w => wants'[v] = wants[v]
      BY <1>0, <2>4
    <3>2. batch # {}
      BY <2>4, FS_EmptySet
    <3>3. \A c \in batch : tool[c] = "none" /\ \A v \in Workers : c \notin wants[v]
      BY DEF Unused
    <3>4. QED BY <2>1, <2>4, <3>1, <3>2, <3>3, WakeMove DEF Stages
  <2>5. QED BY <1>10, <2>2, <2>3, <2>4 DEF ModelResponds, Goto
<1>11. CASE CountToolCalls(w)
  <2>1. pc[w] = "count" /\ UNCHANGED <<msg, tool, parent, inbox, processed, dead, analysis, wants, turn, status>>
    BY <1>11 DEF CountToolCalls
  <2>2. \E stage \in {"tools", "fail"} : pc' = [pc EXCEPT ![w] = stage]
    BY <1>11 DEF CountToolCalls, Goto
  <2>3. /\ wants[w] # {} /\ \A c \in wants[w] : tool[c] = "none"
        /\ \A v \in Workers : v # w /\ pc[v] \in {"count", "tools"} => wants[v] \cap wants[w] = {}
    BY <1>0, <2>1 DEF Requests
  <2>4. QED BY <2>1, <2>2, <2>3, WakeMove DEF Stages
<1>12. CASE CompleteWithAnswer(w)
  <2>1. /\ pc[w] # "idle" /\ UNCHANGED <<msg, tool, parent, inbox, processed, dead, wants>>
        /\ pc' = [pc EXCEPT ![w] = "ack"]
    BY <1>12 DEF CompleteWithAnswer, Goto
  <2>2. analysis' # "running" /\ (status' = "waiting_tool" => status = "waiting_tool")
    BY <1>0, <1>12, OpenSession DEF CompleteWithAnswer
  <2>3. CASE Continuable
    <3>1. \A v \in Workers : pc'[v] = IF v = w THEN "ack" ELSE pc[v]
      BY <1>0, <2>1
    <3>2. (\A k : Kids(k)' = Kids(k) /\ Pending(k)' = Pending(k)) /\ \A v \in Workers : Key(v)' = Key(v)
      BY <2>1, SamePending DEF Key
    <3>3. Requests'
      BY <1>0, <2>1, <3>1 DEF Requests
    <3>4. Fresh'
      BY <1>0, <2>1, <3>1, <3>2 DEF Fresh
    <3>5. Rooted'
      BY <1>0, <2>1, <2>2, <3>1, <3>2 DEF Rooted
    <3>6. QED BY <2>2, <3>3, <3>4, <3>5 DEF Running, Driven
  <2>4. CASE ~Continuable
    <3>1. UNCHANGED <<turn, status, analysis>>
      BY <1>12, <2>4 DEF CompleteWithAnswer
    <3>2. QED BY <2>1, <2>2, <3>1, WakeMove DEF Stages
  <2>5. QED BY <2>3, <2>4
<1>13. CASE FailAnalysis(w)
  <2>1. /\ pc[w] # "idle" /\ UNCHANGED <<msg, tool, parent, inbox, processed, dead, wants, turn>>
        /\ \E stage \in {"ack", "report"} : pc' = [pc EXCEPT ![w] = stage]
        /\ analysis' # "running" /\ (status' = "waiting_tool" => status = "waiting_tool")
    BY <1>13 DEF FailAnalysis, Goto, Closed, Terminal
  <2>2. QED BY <2>1, WakeMove DEF Stages
<1>14. CASE ReportFailure(w)
  <2>1. /\ pc[w] = "report" /\ UNCHANGED <<msg, tool, parent, inbox, processed, dead, wants, turn, status, analysis>>
        /\ pc' = [pc EXCEPT ![w] = "ack"]
    BY <1>14 DEF ReportFailure, Goto
  <2>2. analysis # "running"
    BY <1>0, <2>1, OpenSession
  <2>3. QED BY <2>1, <2>2, WakeMove DEF Stages
<1>15. CASE CompleteWithToolCalls(w) /\ ~Continuable
  <2>1. /\ pc[w] # "idle" /\ UNCHANGED <<msg, tool, parent, inbox, processed, dead, turn, status, analysis>>
        /\ pc' = [pc EXCEPT ![w] = "requeue"] /\ \A v \in Workers : v # w => wants'[v] = wants[v]
    BY <1>0, <1>15 DEF CompleteWithToolCalls, Goto
  <2>2. QED BY <2>1, WakeMove DEF Stages
<1>16. QED BY <1>1, <1>2, <1>3, <1>4, <1>5, <1>6, <1>7, <1>8, <1>9, <1>10, <1>11, <1>12, <1>13, <1>14, <1>15 DEF RunTurn

\* A worker takes an event.
LEMMA WakeTake ==
  ASSUME WakeInv, NEW w \in Workers, Take(w)
  PROVE  Requests' /\ Fresh' /\ Rooted' /\ Running' /\ Driven'
<1>0. /\ TypeOK /\ Requests /\ Fresh /\ Rooted /\ Running /\ Driven
      /\ pc \in [Workers -> Stages] /\ msg \in [Workers -> Events]
  BY DEF WakeInv, IInv, TypeOK
<1>1. UNCHANGED <<tool, parent, inbox, processed, dead, analysis, wants, turn, status>>
  BY DEF Take
<1>2. PICK m \in inbox : msg' = [msg EXCEPT ![w] = m]
  BY DEF Take
<1>3. \A v \in Workers : /\ pc'[v] = IF v = w THEN "session" ELSE pc[v]
                         /\ msg'[v] = IF v = w THEN m ELSE msg[v]
  BY <1>0, <1>2 DEF Take, Goto
<1>4. (\A k : Kids(k)' = Kids(k) /\ Pending(k)' = Pending(k)) /\ \A v \in Workers : v # w => Key(v)' = Key(v)
  BY <1>1, <1>3, SamePending DEF Key
<1>5. Requests'
  BY <1>0, <1>1, <1>3 DEF Requests
<1>6. Fresh'
  <2>1. Key(w)' = m.key
    BY <1>3 DEF Key
  <2>2. QED BY <1>0, <1>1, <1>2, <1>3, <1>4, <2>1 DEF Fresh
<1>7. Rooted'
  BY <1>0, <1>1, <1>3, <1>4 DEF Rooted
<1>8. Running'
  BY <1>0, <1>1, <1>4 DEF Running
<1>9. \A k : Good(k) => Good(k)'
  BY <1>1, <1>3, GoodKept
<1>10. Driven'
  BY <1>0, <1>1, <1>9, DrivenKept
<1>11. QED BY <1>5, <1>6, <1>7, <1>8, <1>10

\* A worker leaves its event.
LEMMA WakeLeave ==
  ASSUME WakeInv, NEW w \in Workers, pc[w] # "idle", Leave(w),
         UNCHANGED <<tool, parent, analysis, turn, status>>, dead \subseteq dead',
         \A m \in inbox' : m \in inbox \/ m.key = Key(w),
         \A e \in processed' : e \in processed \/ e.key = Key(w),
         \A k : Good(k) => OnItsWay(k)' \/ dead' # {}
  PROVE  Requests' /\ Fresh' /\ Rooted' /\ Running' /\ Driven'
<1>0. /\ TypeOK /\ Requests /\ Fresh /\ Rooted /\ Running /\ Driven
      /\ pc \in [Workers -> Stages] /\ msg \in [Workers -> Events] /\ wants \in [Workers -> SUBSET Calls]
  BY DEF WakeInv, IInv, TypeOK
<1>1. \A v \in Workers : /\ pc'[v] = IF v = w THEN "idle" ELSE pc[v]
                         /\ v # w => msg'[v] = msg[v] /\ wants'[v] = wants[v]
  BY <1>0 DEF Leave
<1>2. (\A k : Kids(k)' = Kids(k) /\ Pending(k)' = Pending(k)) /\ \A v \in Workers : v # w => Key(v)' = Key(v)
  BY <1>1, SamePending DEF Key
<1>3. Requests'
  BY <1>0, <1>1 DEF Requests
<1>4. Fresh'
  BY <1>0, <1>1, <1>2 DEF Fresh
<1>5. Rooted'
  BY <1>0, <1>1, <1>2 DEF Rooted
<1>6. Running'
  BY <1>0, <1>2 DEF Running
<1>7. \A k : Good(k) => Good(k)' \/ dead' # {}
  BY <1>1, <1>2 DEF Good
<1>8. Driven'
  BY <1>0, <1>7, DrivenKept
<1>9. QED BY <1>3, <1>4, <1>5, <1>6, <1>8

\* The ways to leave an event.
LEMMA WakeDelivery ==
  ASSUME WakeInv, NEW w \in Workers, Acknowledge(w) \/ Requeue(w) \/ WorkerDies(w)
  PROVE  Requests' /\ Fresh' /\ Rooted' /\ Running' /\ Driven'
<1>0. TypeOK /\ inbox \in SUBSET Events
  BY DEF WakeInv, IInv, TypeOK
<1>1. CASE Acknowledge(w)
  <2>1. /\ pc[w] = "ack" /\ Leave(w) /\ UNCHANGED <<tool, parent, analysis, turn, status, dead>>
        /\ inbox' \subseteq inbox /\ \A m \in inbox : m \notin inbox' => m = msg[w]
        /\ \A e \in processed' : e \in processed \/ e = Id(msg[w])
    BY <1>1 DEF Acknowledge
  <2>2. Id(msg[w]).key = Key(w)
    BY DEF Id, Key
  <2>3. ASSUME NEW k, Good(k)
        PROVE  OnItsWay(k)'
    <3>1. PICK m \in inbox : m.key = k /\ Id(m) \notin processed
      BY <2>3 DEF Good, OnItsWay
    <3>2. Key(w) # k
      BY <2>1, <2>3 DEF Good
    <3>3. m \in inbox' /\ Id(m) # Id(msg[w])
      BY <2>1, <3>1, <3>2 DEF Id, Key
    <3>4. QED BY <2>1, <3>1, <3>3 DEF OnItsWay
  <2>4. \A e \in processed' : e \in processed \/ e.key = Key(w)
    BY <2>1, <2>2
  <2>5. QED BY <2>1, <2>3, <2>4, WakeLeave
<1>2. CASE Requeue(w)
  <2> DEFINE again == Event(msg[w].key, msg[w].copy, msg[w].att + 1)
  <2>1. /\ pc[w] # "idle" /\ Leave(w) /\ UNCHANGED <<tool, parent, analysis, turn, status, processed>>
        /\ dead \subseteq dead'
        /\ \A m \in inbox' : m \in inbox \/ m = again
        /\ dead' # {} \/ (again \in inbox' /\ \A m \in inbox : m \notin inbox' => m = msg[w])
    BY <1>2 DEF Requeue
  <2>2. again.key = Key(w) /\ Id(again) = Id(msg[w])
    BY DEF Event, Id, Key
  <2> HIDE DEF again
  <2>3. ASSUME NEW k, Good(k), dead' = {}
        PROVE  OnItsWay(k)'
    <3>1. PICK m \in inbox : m.key = k /\ Id(m) \notin processed
      BY <2>3 DEF Good, OnItsWay
    <3>2. CASE m \in inbox'
      BY <2>1, <3>1, <3>2 DEF OnItsWay
    <3>3. CASE m = msg[w]
      BY <2>1, <2>2, <2>3, <3>1, <3>3 DEF OnItsWay, Key
    <3>4. QED BY <2>1, <2>3, <3>2, <3>3
  <2>4. \A m \in inbox' : m \in inbox \/ m.key = Key(w)
    BY <2>1, <2>2
  <2>5. QED BY <2>1, <2>3, <2>4, WakeLeave
<1>3. CASE WorkerDies(w)
  <2>1. /\ pc[w] # "idle" /\ Leave(w)
        /\ UNCHANGED <<tool, parent, analysis, turn, status, dead, inbox, processed>>
    BY <1>3 DEF WorkerDies
  <2>2. \A k : Good(k) => OnItsWay(k)'
    BY <2>1 DEF Good, OnItsWay
  <2>3. QED BY <2>1, <2>2, WakeLeave
<1>4. QED BY <1>1, <1>2, <1>3

\* A turn is completed with calls: they are the last ones, unless the calls of
\* another turn are, which then stay the last ones.
LEMMA WakeCommit ==
  ASSUME WakeInv, NEW w \in Workers, CompleteWithToolCalls(w), Continuable
  PROVE  Requests' /\ Fresh' /\ Rooted' /\ Running' /\ Driven'
<1> DEFINE K == Key(w)
           W == wants[w]
<1>0. /\ TypeOK /\ Requests /\ Fresh /\ Rooted /\ Running /\ Driven
      /\ pc \in [Workers -> Stages] /\ wants \in [Workers -> SUBSET Calls] /\ turn \in [Triggers -> TurnStatus]
      /\ K \in Triggers
  BY MessageType DEF WakeInv, IInv, TypeOK
<1>1. /\ pc[w] = "tools" /\ UNCHANGED <<msg, processed, dead, analysis, status>>
      /\ pc' = [pc EXCEPT ![w] = "waiting"] /\ wants' = [wants EXCEPT ![w] = {}]
      /\ turn' = [turn EXCEPT ![K] = "completed"]
      /\ parent' = [c \in Calls |-> IF c \in W THEN K ELSE parent[c]]
  BY DEF CompleteWithToolCalls, TurnCompleted, Goto
<1>2. PICK reused \in SUBSET W :
        /\ tool' = [c \in Calls |-> IF c \in reused THEN "completed" ELSE IF c \in W THEN "queued" ELSE tool[c]]
        /\ inbox' = inbox \cup {Event(c, 1, 1) : c \in reused}
  BY DEF CompleteWithToolCalls
<1>3. W # {} /\ W \subseteq Calls /\ \A c \in W : tool[c] = "none"
  BY <1>0, <1>1 DEF Requests
<1>4. /\ \A v \in Workers : pc'[v] = IF v = w THEN "waiting" ELSE pc[v]
      /\ \A v \in Workers : v # w => wants'[v] = wants[v]
      /\ K' = K /\ \A v \in Workers : Key(v)' = Key(v)
  BY <1>0, <1>1 DEF Key
<1>5. /\ K \notin W /\ \A c \in W : Kids(c) = {}
      /\ K \in Calls => tool[K] # "none"
  BY <1>0, <1>1, <1>3 DEF Fresh, Rooted
<1> HIDE DEF K, W
<1>6. \A k : Kids(k)' = IF k = K THEN Kids(k) \cup W ELSE Kids(k)
  <2>1. \A c \in Calls : /\ c \in W => tool'[c] # "none" /\ parent'[c] = K
                         /\ c \notin W => tool'[c] = tool[c] /\ parent'[c] = parent[c]
    BY <1>1, <1>2
  <2>2. QED BY <1>3, <2>1 DEF Kids
<1>7. \A k : Pending(k) \subseteq Pending(k)'
  BY <1>1, <1>2, <1>3 DEF Pending
<1>8. \A k : Good(k) => Good(k)'
  BY <1>1, <1>2, <1>4, GoodKept
<1>9. Pending(K)' # {} \/ \E c \in Kids(K)' : Good(c)'
  <2>1. CASE reused = {}
    BY <1>1, <1>2, <1>3, <1>4, <2>1 DEF Pending
  <2>2. ASSUME NEW c \in reused
        PROVE  c \in Kids(K)' /\ Good(c)'
    <3>1. c \in Calls /\ tool[c] = "none" /\ c \in Kids(K)'
      BY <1>2, <1>3, <1>4, <1>6
    <3>2. Event(c, 1, 1) \in inbox' /\ Event(c, 1, 1).key = c /\ Id(Event(c, 1, 1)).key = c
      BY <1>2 DEF Event, Id
    <3>3. OnItsWay(c)'
      BY <1>0, <1>1, <3>1, <3>2 DEF Fresh, OnItsWay
    <3>4. \A v \in Workers : pc'[v] = "ack" => Key(v)' # c
      BY <1>0, <1>4, <3>1 DEF Fresh
    <3>5. QED BY <3>1, <3>3, <3>4 DEF Good
  <2>3. QED BY <2>1, <2>2
<1>10. Requests'
  <2>1. \A v \in Workers : v # w /\ pc[v] \in {"count", "tools"} => wants[v] \subseteq Calls /\ wants[v] \cap W = {}
    BY <1>0, <1>1 DEF Requests, W
  <2>2. \A c \in Calls : c \notin W => tool'[c] = tool[c]
    BY <1>2
  <2>3. QED BY <1>0, <1>4, <2>1, <2>2 DEF Requests
<1>11. Fresh'
  <2>1. \A m \in inbox' : m \in inbox \/ m.key \in reused
    BY <1>2 DEF Event
  <2>2. \A c \in Calls : tool'[c] \in {"none", "queued"} => tool[c] \in {"none", "queued"} /\ c \notin reused
    BY <1>2, <1>3
  <2>3. QED BY <1>0, <1>1, <1>4, <2>1, <2>2 DEF Fresh
<1>12. Rooted'
  <2>1. Kids(Start)' # {}
    BY <1>0, <1>3, <1>5, <1>6 DEF Rooted, Triggers
  <2>2. \A c \in Calls : Kids(c)' # {} => tool'[c] # "none"
    BY <1>0, <1>2, <1>5, <1>6 DEF Rooted
  <2>3. \A v \in Workers : pc'[v] \in {"reissue", "waiting"} => Kids(Key(v))' # {}
    BY <1>0, <1>3, <1>4, <1>6 DEF Rooted, K
  <2>4. \A v \in Workers : pc'[v] = "ready" => Key(v)' # Start
    BY <1>0, <1>4 DEF Rooted
  <2>5. QED BY <2>1, <2>2, <2>3, <2>4 DEF Rooted
<1>13. Running'
  <2>1. \A k \in Triggers : turn'[k] = "completed" => turn[k] = "completed" \/ k = K
    BY <1>0, <1>1
  <2>2. \A c \in Calls : tool'[c] = "cancelled" => tool[c] = "cancelled"
    BY <1>2
  <2>3. QED BY <1>0, <1>1, <1>3, <1>6, <2>1, <2>2 DEF Running
<1>14. Driven'
  <2>1. CASE Kids(K) = {}
    <3>1. Last(K)'
      BY <1>3, <1>4, <1>5, <1>6, <2>1 DEF Last
    <3>2. QED BY <1>0, <1>4, <1>9, <3>1 DEF Driven
  <2>2. CASE Kids(K) # {}
    <3>1. SUFFICES ASSUME analysis = "running", dead = {}
                   PROVE  \E k \in Triggers : Last(k)' /\ (Pending(k)' # {} \/ \E c \in Kids(k)' : Good(c)')
      BY <1>1 DEF Driven
    <3>2. Kids(Start) # {}
      BY <1>0, <2>2 DEF Rooted, Kids
    <3>3. PICK k \in Triggers : Last(k) /\ (Pending(k) # {} \/ \E c \in Kids(k) : Good(c))
      BY <1>0, <3>1, <3>2 DEF Driven
    <3>4. Last(k)'
      BY <1>5, <1>6, <2>2, <3>3 DEF Last
    <3>5. Pending(k)' # {} \/ \E c \in Kids(k)' : Good(c)'
      BY <1>6, <1>7, <1>8, <3>3
    <3>6. QED BY <3>4, <3>5
  <2>3. QED BY <2>1, <2>2
<1>15. QED BY <1>10, <1>11, <1>12, <1>13, <1>14

\* A call finishes: its event is on its way.
LEMMA WakeFinish ==
  ASSUME WakeInv, NEW c \in Calls, ToolFinishes(c)
  PROVE  Requests' /\ Fresh' /\ Rooted' /\ Running' /\ Driven'
<1> DEFINE new == Event(c, published[c] + 1, 1)
<1>0. /\ TypeOK /\ Requests /\ Fresh /\ Rooted /\ Running /\ Driven
      /\ tool \in [Calls -> {"none", "queued"} \cup Terminal] /\ wants \in [Workers -> SUBSET Calls]
  BY DEF WakeInv, IInv, TypeOK
<1>1. /\ tool[c] = "queued" /\ UNCHANGED <<parent, processed, dead, analysis, status, turn, pc, msg, wants>>
      /\ inbox' = inbox \cup {new}
  BY DEF ToolFinishes, Publish
<1>2. PICK outcome \in {"completed", "failed"} : tool' = [tool EXCEPT ![c] = outcome]
  BY DEF ToolFinishes
<1>3. \A d \in Calls : tool'[d] = IF d = c THEN outcome ELSE tool[d]
  BY <1>0, <1>2
<1>4. new.key = c /\ Id(new).key = c
  BY DEF Event, Id
<1> HIDE DEF new
<1>5. \A d \in Calls : tool'[d] # "none" <=> tool[d] # "none"
  BY <1>1, <1>3
<1>6. \A k : Kids(k)' = Kids(k)
  BY <1>1, <1>5, SameKids
<1>7. \A v \in Workers : Key(v)' = Key(v)
  BY <1>1 DEF Key
<1>8. Requests'
  BY <1>0, <1>1, <1>3 DEF Requests
<1>9. Fresh'
  BY <1>0, <1>1, <1>3, <1>4, <1>7 DEF Fresh
<1>10. Rooted'
  BY <1>0, <1>1, <1>5, <1>6, <1>7 DEF Rooted
<1>11. Running'
  BY <1>0, <1>1, <1>3, <1>6 DEF Running
<1>12. \A k : Good(k) => Good(k)'
  BY <1>1, GoodKept
<1>13. Good(c)'
  <2>1. OnItsWay(c)'
    BY <1>0, <1>1, <1>4 DEF Fresh, OnItsWay
  <2>2. \A v \in Workers : pc'[v] = "ack" => Key(v)' # c
    BY <1>0, <1>1, <1>7 DEF Fresh
  <2>3. QED BY <2>1, <2>2 DEF Good
<1>14. \A k : Pending(k) # {} => Pending(k)' # {} \/ c \in Kids(k)
  BY <1>1, <1>3 DEF Pending, Kids
<1>15. Driven'
  <2>1. SUFFICES ASSUME analysis = "running", dead = {}
                 PROVE  \E k \in Triggers : Last(k)' /\ (Pending(k)' # {} \/ \E d \in Kids(k)' : Good(d)')
    BY <1>1 DEF Driven
  <2>2. Kids(Start) # {}
    BY <1>0, <1>1 DEF Rooted
  <2>3. PICK k \in Triggers : Last(k) /\ (Pending(k) # {} \/ \E d \in Kids(k) : Good(d))
    BY <1>0, <2>1, <2>2 DEF Driven
  <2>4. Last(k)'
    BY <1>6, <2>3 DEF Last
  <2>5. QED BY <1>6, <1>12, <1>13, <1>14, <2>3, <2>4
<1>16. QED BY <1>8, <1>9, <1>10, <1>11, <1>15

\* The analysis is cancelled.
LEMMA WakeCancel ==
  ASSUME WakeInv, Cancel \/ HandleCancelRequested
  PROVE  Requests' /\ Fresh' /\ Rooted' /\ Running' /\ Driven'
<1>0. /\ Requests /\ Fresh /\ Rooted
      /\ tool \in [Calls -> {"none", "queued"} \cup Terminal] /\ wants \in [Workers -> SUBSET Calls]
  BY DEF WakeInv, IInv, TypeOK
<1>1. /\ UNCHANGED <<parent, inbox, processed, pc, msg, wants>> /\ analysis' # "running" /\ status' # "waiting_tool"
      /\ tool' = [c \in Calls |-> IF tool[c] = "queued" THEN "cancelled" ELSE tool[c]]
  BY DEF Cancel, HandleCancelRequested, Terminal
<1>2. \A c \in Calls : tool'[c] = IF tool[c] = "queued" THEN "cancelled" ELSE tool[c]
  BY <1>1
<1>3. \A k : Kids(k)' = Kids(k)
  BY <1>1, <1>2, SameKids
<1>4. \A v \in Workers : Key(v)' = Key(v)
  BY <1>1 DEF Key
<1>5. Requests'
  BY <1>0, <1>1, <1>2 DEF Requests
<1>6. Fresh'
  BY <1>0, <1>1, <1>2, <1>4 DEF Fresh
<1>7. Rooted'
  BY <1>0, <1>1, <1>2, <1>3, <1>4 DEF Rooted
<1>8. QED BY <1>1, <1>5, <1>6, <1>7 DEF Running, Driven

\* Steps that only change which events there are: those of finished calls are
\* published again, and those of processed events go.
LEMMA WakeQueue ==
  ASSUME WakeInv, UNCHANGED <<tool, parent, processed, dead, analysis, status, turn, pc, msg, wants>>,
         \A m \in inbox' : m \in inbox \/ (m.key \in Calls /\ tool[m.key] \in Terminal),
         \A m \in inbox : m \in inbox' \/ Id(m) \in processed
  PROVE  Requests' /\ Fresh' /\ Rooted' /\ Running' /\ Driven'
<1>0. TypeOK /\ Requests /\ Fresh /\ Rooted /\ Running /\ Driven
  BY DEF WakeInv, IInv
<1>1. (\A k : Kids(k)' = Kids(k) /\ Pending(k)' = Pending(k)) /\ \A v \in Workers : Key(v)' = Key(v)
  BY SamePending DEF Key
<1>2. Fresh'
  BY <1>0, <1>1 DEF Fresh, Terminal
<1>3. \A k : Good(k) => Good(k)'
  BY <1>1 DEF Good, OnItsWay
<1>4. Driven'
  BY <1>0, <1>3, DrivenKept
<1>5. QED BY <1>0, <1>1, <1>2, <1>4 DEF Requests, Rooted, Running

LEMMA WakeStep == WakeInv /\ [Next]_vars => WakeInv'
<1> SUFFICES ASSUME WakeInv, [Next]_vars
             PROVE  WakeInv'
  OBVIOUS
<1>0. IInv' /\ TypeOK
  BY InvariantStep DEF WakeInv, IInv
<1> SUFFICES Requests' /\ Fresh' /\ Rooted' /\ Running' /\ Driven'
  BY <1>0 DEF WakeInv
<1>1. ASSUME NEW w \in Workers, Take(w) \/ Handle(w) \/ CallRaises(w) \/ WorkerDies(w)
      PROVE  Requests' /\ Fresh' /\ Rooted' /\ Running' /\ Driven'
  <2>1. CASE Take(w)
    BY <2>1, WakeTake
  <2>2. CASE Acknowledge(w) \/ Requeue(w) \/ WorkerDies(w)
    BY <2>2, WakeDelivery
  <2>3. CASE CompleteWithToolCalls(w)
    BY <2>3, WakeCommit, WakeHandler
  <2>4. CASE RunTurn(w) \/ CallRaises(w)
    BY <2>4, WakeHandler
  <2>5. CASE \/ ModelResponds(w) \/ ModelFails(w) \/ CountToolCalls(w)
             \/ CompleteWithAnswer(w) \/ FailTurn(w) \/ FailAnalysis(w) \/ ReportFailure(w)
    BY <2>5, WakeHandler
  <2>6. QED BY <1>1, <2>1, <2>2, <2>3, <2>4, <2>5 DEF Handle, RunModelTurn
<1>2. ASSUME NEW c \in Calls, Republish(c)
      PROVE  Requests' /\ Fresh' /\ Rooted' /\ Running' /\ Driven'
  <2>1. /\ UNCHANGED <<tool, parent, processed, dead, analysis, status, turn, pc, msg, wants>>
        /\ tool[c] \in Terminal /\ inbox' = inbox \cup {Event(c, published[c] + 1, 1)}
    BY <1>2 DEF Republish, Publish
  <2>2. Event(c, published[c] + 1, 1).key = c
    BY DEF Event
  <2>3. \A m \in inbox' : m \in inbox \/ (m.key \in Calls /\ tool[m.key] \in Terminal)
    BY <2>1, <2>2
  <2>4. QED BY <2>1, <2>3, WakeQueue
<1>3. CASE (\E c \in Calls : ToolRequestLost(c)) \/ UNCHANGED vars
  <2>1. UNCHANGED <<tool, parent, inbox, processed, dead, analysis, status, turn, pc, msg, wants>>
    BY <1>3 DEF ToolRequestLost, vars
  <2>2. QED BY <2>1, WakeQueue
<1>4. CASE Skip
  <2>1. UNCHANGED <<tool, parent, processed, dead, analysis, status, turn, pc, msg, wants>>
    BY <1>4 DEF Skip
  <2>2. PICK m \in inbox : Id(m) \in processed /\ inbox' = inbox \ {m}
    BY <1>4 DEF Skip
  <2>3. \A e \in inbox' : e \in inbox
    BY <2>2
  <2>4. \A e \in inbox : e \in inbox' \/ Id(e) \in processed
    BY <2>2
  <2>5. QED BY <2>1, <2>3, <2>4, WakeQueue
<1>5. ASSUME NEW c \in Calls, ToolFinishes(c)
      PROVE  Requests' /\ Fresh' /\ Rooted' /\ Running' /\ Driven'
  BY <1>5, WakeFinish
<1>6. CASE Cancel \/ HandleCancelRequested
  BY <1>6, WakeCancel
<1>7. QED BY <1>1, <1>2, <1>3, <1>4, <1>5, <1>6 DEF Next

LEMMA WakeInit == Init => WakeInv
<1> SUFFICES ASSUME Init
             PROVE  WakeInv
  OBVIOUS
<1>1. \A k : Kids(k) = {}
  BY DEF Init, Kids
<1>2. \A c \in Calls : c # Start
  OBVIOUS
<1>3. Requests
  BY DEF Init, Requests
<1>4. Event(Start, 1, 1).key = Start
  BY DEF Event
<1>5. Fresh
  BY <1>2, <1>4 DEF Init, Fresh
<1>6. Rooted
  BY <1>1 DEF Init, Rooted
<1>7. Running
  BY DEF Init, Running
<1>8. Good(Start)
  BY <1>4 DEF Init, Good, OnItsWay
<1>9. QED BY <1>1, <1>3, <1>5, <1>6, <1>7, <1>8, InvariantInit DEF WakeInv, Driven

\* No wakeup is lost: while the analysis runs, an event that starts a turn is on
\* its way or a tool call runs, unless an event was dead-lettered, whatever workers
\* overlap, die or see of each other's calls (_ready_tool_outputs, _run_turn).
THEOREM WakeupNotLost == Spec => []NeverStuck
<1>1. Init => WakeInv
  BY WakeInit
<1>2. WakeInv /\ [Next]_vars => WakeInv'
  BY WakeStep
<1>3. WakeInv => NeverStuck
  <2> SUFFICES ASSUME WakeInv, analysis = "running", dead = {}
               PROVE  (\E k \in Triggers : OnItsWay(k)) \/ \E c \in Calls : tool[c] = "queued"
    BY DEF NeverStuck
  <2>1. \/ Good(Start)
        \/ \E k \in Triggers : Pending(k) # {} \/ \E c \in Kids(k) : Good(c)
    BY DEF WakeInv, Driven
  <2>2. Kids(Start) \subseteq Calls /\ \A k : Kids(k) \subseteq Calls
    BY DEF Kids
  <2>3. QED BY <2>1, <2>2 DEF Good, Pending, Triggers
<1>4. QED BY <1>1, <1>2, <1>3, PTL DEF Spec
=============================================================================
