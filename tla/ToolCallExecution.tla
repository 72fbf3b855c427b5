-------------------------- MODULE ToolCallExecution --------------------------
(***************************************************************************)
(* The execution worker: ToolCallRequested events, each for one row of     *)
(* tool_calls, handled by ExecutionCommandHandler under two leases.        *)
(*                                                                         *)
(* The outer lease is the event claim of EventConsumerRunner, the inner    *)
(* one the claim columns of the tool call.  Each has its own heartbeat and *)
(* its own expiry, they are released on different paths, and the attempts  *)
(* of the event are spent whenever the inner one cannot be taken.          *)
(*                                                                         *)
(* A claim token is drawn per handler invocation and is represented by the *)
(* worker while that invocation lasts; a claim that outlives it belongs to *)
(* NoWorker.  Kafka is reduced to the set of messages not yet committed.   *)
(***************************************************************************)
EXTENDS Naturals, FiniteSets, Sequences

CONSTANTS
  Calls,        \* tool calls of one agent, each with its ToolCallRequested
  Workers,      \* execution workers
  NoWorker,     \* no running invocation owns the claim
  MaxAttempts,  \* deliveries of an event before it is dead-lettered
  MaxFaults,    \* bound: deaths, shutdowns, failing database calls
  MaxStalls     \* bound: a claim expires although its owner renews it

ASSUME ExecutionAssumption ==
  /\ Calls # {}
  /\ NoWorker \notin Workers
  /\ MaxAttempts \in Nat \ {0}
  /\ MaxFaults \in Nat /\ MaxStalls \in Nat

VARIABLES
  analysis,   \* "running", or "cancelled" for cancelling and cancelled
  tool,       \* tool_calls row: status, claim_owner, state of the claim
  lease,      \* event_processing_claims row of the event
  messages,   \* attempts of the event whose message is not yet committed
  processed,  \* events with a processed_events row
  dead,       \* events published to deepdive.dlq
  pc, call, attempt,   \* each worker: its stage and the message it handles
  outcome,    \* status its tool result was classified as
  hb,         \* heartbeat task of its tool claim: "off", "on", "failed"
  announced,  \* calls with a ToolCallCompleted/Failed/Denied event in the outbox
  results,    \* context items written by finalize_tool_call for each call
  raised,     \* history: calls whose executor or finalisation raised
  faults, stalls

workerVars == <<pc, call, attempt, outcome, hb>>
sinkVars   == <<announced, results, raised>>
bounds     == <<faults, stalls>>
vars == <<analysis, tool, lease, messages, processed, dead, workerVars, sinkVars, bounds>>

TerminalTool == {"completed", "failed", "denied", "cancelled"}
Free == [owner |-> NoWorker, state |-> "free"]
Unclaimed(status) == [status |-> status, owner |-> NoWorker, state |-> "free"]
SomeCall == CHOOSE c \in Calls : TRUE

Init ==
  /\ analysis = "running"
  /\ tool = [c \in Calls |-> Unclaimed("queued")]
  /\ lease = [c \in Calls |-> Free]
  /\ messages = [c \in Calls |-> {1}]
  /\ processed = {}
  /\ dead = {}
  /\ pc = [w \in Workers |-> "idle"]
  /\ call = [w \in Workers |-> SomeCall]
  /\ attempt = [w \in Workers |-> 0]
  /\ outcome = [w \in Workers |-> "none"]
  /\ hb = [w \in Workers |-> "off"]
  /\ announced = {}
  /\ results = [c \in Calls |-> <<>>]
  /\ raised = {}
  /\ faults = 0
  /\ stalls = 0

-----------------------------------------------------------------------------
(* EventConsumerRunner, as far as the execution worker sees it             *)

Goto(w, stage) == pc' = [pc EXCEPT ![w] = stage]

\* The invocation of w is over; the worker takes its next message.
Leave(w) ==
  /\ pc' = [pc EXCEPT ![w] = "idle"]
  /\ call' = [call EXCEPT ![w] = SomeCall]
  /\ attempt' = [attempt EXCEPT ![w] = 0]
  /\ outcome' = [outcome EXCEPT ![w] = "none"]
  /\ hb' = [hb EXCEPT ![w] = "off"]

\* Variant: an expired event claim is not taken over.
DeliverOnlyFree(w, c, a) ==
  /\ pc[w] = "idle"
  /\ a \in messages[c]
  /\ c \notin processed
  /\ lease[c].state = "free"
  /\ lease' = [lease EXCEPT ![c] = [owner |-> w, state |-> "live"]]
  /\ call' = [call EXCEPT ![w] = c]
  /\ attempt' = [attempt EXCEPT ![w] = a]
  /\ Goto(w, "claim")
  /\ UNCHANGED <<analysis, tool, messages, processed, dead, outcome, hb, sinkVars, bounds>>

\* A message is handled by the worker that takes the event claim.
Deliver(w, c, a) ==
  /\ pc[w] = "idle"
  /\ a \in messages[c]
  /\ c \notin processed
  /\ lease[c].state # "live"
  /\ lease' = [lease EXCEPT ![c] = [owner |-> w, state |-> "live"]]
  /\ call' = [call EXCEPT ![w] = c]
  /\ attempt' = [attempt EXCEPT ![w] = a]
  /\ Goto(w, "claim")
  /\ UNCHANGED <<analysis, tool, messages, processed, dead, outcome, hb, sinkVars, bounds>>

\* A message of a processed event is skipped and committed.
Skip(c, a) ==
  /\ a \in messages[c]
  /\ c \in processed
  /\ messages' = [messages EXCEPT ![c] = @ \ {a}]
  /\ UNCHANGED <<analysis, tool, lease, processed, dead, workerVars, sinkVars, bounds>>

ReleasedLease(w) ==
  [c \in Calls |-> IF lease[c].owner = w THEN Free ELSE lease[c]]

\* The handler returned: mark_processed needs the event claim, else it raises and
\* the worker ends without committing the message.
MarkProcessed(w) ==
  LET c == call[w] IN
  /\ pc[w] = "mark"
  /\ IF lease[c].owner = w \/ c \in processed
       THEN /\ processed' = processed \cup {c}
            /\ messages' = [messages EXCEPT ![c] = @ \ {attempt[w]}]
            /\ lease' = ReleasedLease(w)
       ELSE UNCHANGED <<processed, messages, lease>>
  /\ Leave(w)
  /\ UNCHANGED <<analysis, tool, dead, sinkVars, bounds>>

\* The handler raised: the next attempt is published at once, or the event is
\* dead-lettered; the event claim is released and the message committed.
Requeue(w) ==
  LET c == call[w] IN
  /\ pc[w] = "requeue"
  /\ IF attempt[w] < MaxAttempts
       THEN /\ messages' = [messages EXCEPT ![c] = (@ \ {attempt[w]}) \cup {attempt[w] + 1}]
            /\ UNCHANGED dead
       ELSE /\ messages' = [messages EXCEPT ![c] = @ \ {attempt[w]}]
            /\ dead' = dead \cup {c}
  /\ lease' = ReleasedLease(w)
  /\ Leave(w)
  /\ UNCHANGED <<analysis, tool, processed, sinkVars, bounds>>

-----------------------------------------------------------------------------
(* ExecutionCommandHandler                                                 *)

OwnsTool(w) == tool[call[w]].owner = w

\* The invocation ends without releasing: nobody knows its token any more.
OrphanedTool(w) ==
  [c \in Calls |-> IF tool[c].owner = w
                     THEN [status |-> tool[c].status, owner |-> NoWorker, state |-> tool[c].state]
                     ELSE tool[c]]

\* release_tool_call_claim: a running call of w goes back to queued.
ReleasedTool(w) ==
  [c \in Calls |-> IF tool[c].owner = w /\ tool[c].status = "running"
                     THEN Unclaimed("queued")
                     ELSE OrphanedTool(w)[c]]

\* Variant: a running call is claimed before its claim expires.
ClaimToolCallRunning(w) ==
  LET t == tool[call[w]] IN
  /\ pc[w] = "claim"
  /\ IF t.status = "queued" \/ t.status = "running"
       THEN /\ tool' = [tool EXCEPT ![call[w]] =
                          [status |-> "running", owner |-> w, state |-> "live"]]
            /\ Goto(w, "check")
       ELSE Goto(w, "republish") /\ UNCHANGED tool
  /\ UNCHANGED <<analysis, lease, messages, processed, dead, call, attempt, outcome,
                 hb, sinkVars, bounds>>

\* claim_queued_tool_call
ClaimToolCall(w) ==
  LET t == tool[call[w]] IN
  /\ pc[w] = "claim"
  /\ IF t.status = "queued" \/ (t.status = "running" /\ t.state = "expired")
       THEN /\ tool' = [tool EXCEPT ![call[w]] =
                          [status |-> "running", owner |-> w, state |-> "live"]]
            /\ Goto(w, "check")
       ELSE Goto(w, "republish") /\ UNCHANGED tool
  /\ UNCHANGED <<analysis, lease, messages, processed, dead, call, attempt, outcome,
                 hb, sinkVars, bounds>>

\* Variant: a call that is still running is not an error.
RepublishAny(w) ==
  LET c == call[w] IN
  /\ pc[w] = "republish"
  /\ IF tool[c].status \in TerminalTool
       THEN announced' = announced \cup {c} /\ Goto(w, "mark")
       ELSE Goto(w, "mark") /\ UNCHANGED announced
  /\ UNCHANGED <<analysis, tool, lease, messages, processed, dead, call, attempt,
                 outcome, hb, results, raised, bounds>>

\* _republish_terminal_tool_call; a call that is still running is a RuntimeError.
Republish(w) ==
  LET c == call[w] IN
  /\ pc[w] = "republish"
  /\ IF tool[c].status \in TerminalTool
       THEN announced' = announced \cup {c} /\ Goto(w, "mark")
       ELSE Goto(w, "requeue") /\ UNCHANGED announced
  /\ UNCHANGED <<analysis, tool, lease, messages, processed, dead, call, attempt,
                 outcome, hb, results, raised, bounds>>

\* _analysis_status: a cancelled analysis ends the call, otherwise it executes
\* with a heartbeat on its claim.
CheckAnalysis(w) ==
  /\ pc[w] = "check"
  /\ IF analysis = "cancelled"
       THEN /\ outcome' = [outcome EXCEPT ![w] = "cancelled"]
            /\ Goto(w, "finalize")
            /\ UNCHANGED hb
       ELSE /\ hb' = [hb EXCEPT ![w] = "on"]
            /\ Goto(w, "execute")
            /\ UNCHANGED outcome
  /\ UNCHANGED <<analysis, tool, lease, messages, processed, dead, call, attempt,
                 sinkVars, bounds>>

\* The tool returns and its result is classified.  A failed heartbeat raises in
\* the finally clause instead, which leaves the claim in place.
ExecuteReturns(w) ==
  /\ pc[w] = "execute"
  /\ IF hb[w] = "failed"
       THEN Goto(w, "requeue") /\ tool' = OrphanedTool(w) /\ UNCHANGED outcome
       ELSE /\ \E o \in {"completed", "failed", "denied"} :
                 outcome' = [outcome EXCEPT ![w] = o]
            /\ Goto(w, "finalize")
            /\ UNCHANGED tool
  /\ hb' = [hb EXCEPT ![w] = "off"]
  /\ UNCHANGED <<analysis, lease, messages, processed, dead, call, attempt, sinkVars, bounds>>

\* The executor raises: the claim is released, then the heartbeat stopped.
ExecuteRaises(w) ==
  /\ pc[w] = "execute"
  /\ tool' = ReleasedTool(w)
  /\ hb' = [hb EXCEPT ![w] = "off"]
  /\ Goto(w, "requeue")
  /\ raised' = raised \cup {call[w]}
  /\ UNCHANGED <<analysis, lease, messages, processed, dead, call, attempt, outcome,
                 announced, results, bounds>>

\* Variant: the claim owner is not compared.
FinalizeUnowned(w) ==
  LET c == call[w] IN
  /\ pc[w] = "finalize"
  /\ IF tool[c].status # "cancelled"
       THEN /\ tool' = [tool EXCEPT ![c] = Unclaimed(outcome[w])]
            /\ results' = [results EXCEPT ![c] = Append(@, outcome[w])]
            /\ announced' = announced \cup {c}
       ELSE tool' = OrphanedTool(w) /\ UNCHANGED <<results, announced>>
  /\ Goto(w, "mark")
  /\ UNCHANGED <<analysis, lease, messages, processed, dead, call, attempt, outcome,
                 hb, raised, bounds>>

\* finalize_tool_call: result, context item and outbox event in one transaction,
\* unless the call was cancelled or its claim lost; the caller ignores which.
Finalize(w) ==
  LET c == call[w] IN
  /\ pc[w] = "finalize"
  /\ IF tool[c].status # "cancelled" /\ OwnsTool(w)
       THEN /\ tool' = [tool EXCEPT ![c] = Unclaimed(outcome[w])]
            /\ results' = [results EXCEPT ![c] = Append(@, outcome[w])]
            /\ announced' = announced \cup {c}
       ELSE tool' = OrphanedTool(w) /\ UNCHANGED <<results, announced>>
  /\ Goto(w, "mark")
  /\ UNCHANGED <<analysis, lease, messages, processed, dead, call, attempt, outcome,
                 hb, raised, bounds>>

\* The transaction fails: the claim is released and the exception raised.
FinalizeFails(w) ==
  /\ pc[w] = "finalize"
  /\ faults < MaxFaults
  /\ faults' = faults + 1
  /\ tool' = ReleasedTool(w)
  /\ Goto(w, "requeue")
  /\ raised' = raised \cup {call[w]}
  /\ UNCHANGED <<analysis, lease, messages, processed, dead, call, attempt, outcome,
                 hb, announced, results, stalls>>

-----------------------------------------------------------------------------
(* Time, heartbeats, cancellation and failing workers                      *)

\* An invocation renews the tool claim of c (or needs no renewal yet).
RenewsTool(c) ==
  LET w == tool[c].owner IN
  w \in Workers /\ (pc[w] = "execute" => hb[w] = "on")

ToolClaimExpires(c) ==
  /\ tool[c].status = "running"
  /\ tool[c].state = "live"
  /\ IF RenewsTool(c)
       THEN stalls < MaxStalls /\ stalls' = stalls + 1
       ELSE UNCHANGED stalls
  /\ tool' = [tool EXCEPT ![c].state = "expired"]
  /\ UNCHANGED <<analysis, lease, messages, processed, dead, workerVars, sinkVars, faults>>

LeaseExpires(c) ==
  /\ lease[c].state = "live"
  /\ IF lease[c].owner \in Workers
       THEN stalls < MaxStalls /\ stalls' = stalls + 1
       ELSE UNCHANGED stalls
  /\ lease' = [lease EXCEPT ![c].state = "expired"]
  /\ UNCHANGED <<analysis, tool, messages, processed, dead, workerVars, sinkVars, faults>>

\* renew_tool_call_claim: only a running call of the same owner.
RenewToolClaim(w) ==
  LET t == tool[call[w]] IN
  /\ pc[w] = "execute"
  /\ hb[w] = "on"
  /\ IF t.status = "running" /\ t.owner = w
       THEN /\ t.state = "expired"
            /\ tool' = [tool EXCEPT ![call[w]].state = "live"]
            /\ UNCHANGED hb
       ELSE hb' = [hb EXCEPT ![w] = "off"] /\ UNCHANGED tool
  /\ UNCHANGED <<analysis, lease, messages, processed, dead, pc, call, attempt, outcome,
                 sinkVars, bounds>>

\* renew_processing_claim
RenewLease(w) ==
  /\ pc[w] # "idle"
  /\ lease[call[w]] = [owner |-> w, state |-> "expired"]
  /\ lease' = [lease EXCEPT ![call[w]].state = "live"]
  /\ UNCHANGED <<analysis, tool, messages, processed, dead, workerVars, sinkVars, bounds>>

\* A renewal of the tool claim raises: its task ends with the exception.
HeartbeatFails(w) ==
  /\ pc[w] = "execute"
  /\ hb[w] = "on"
  /\ faults < MaxFaults
  /\ faults' = faults + 1
  /\ hb' = [hb EXCEPT ![w] = "failed"]
  /\ UNCHANGED <<analysis, tool, lease, messages, processed, dead, pc, call, attempt,
                 outcome, sinkVars, stalls>>

\* Cancelling the analysis cancels its unfinished calls, but clears no claim owner.
CancelAnalysis ==
  /\ analysis = "running"
  /\ analysis' = "cancelled"
  /\ tool' = [c \in Calls |-> IF tool[c].status \in TerminalTool THEN tool[c]
                ELSE [status |-> "cancelled", owner |-> tool[c].owner, state |-> "free"]]
  /\ UNCHANGED <<lease, messages, processed, dead, workerVars, sinkVars, bounds>>

\* The process dies: both claims stay until they expire.
WorkerDies(w) ==
  /\ pc[w] # "idle"
  /\ faults < MaxFaults
  /\ faults' = faults + 1
  /\ lease' = [c \in Calls |-> IF lease[c].owner = w
                 THEN [owner |-> NoWorker, state |-> lease[c].state] ELSE lease[c]]
  /\ tool' = OrphanedTool(w)
  /\ Leave(w)
  /\ UNCHANGED <<analysis, messages, processed, dead, sinkVars, stalls>>

\* The worker is shut down while the handler runs: CancelledError is no Exception,
\* so the event claim is released and the tool claim is not.
WorkerStopped(w) ==
  /\ pc[w] \in {"claim", "republish", "check", "execute", "finalize"}
  /\ faults < MaxFaults
  /\ faults' = faults + 1
  /\ lease' = ReleasedLease(w)
  /\ tool' = OrphanedTool(w)
  /\ Leave(w)
  /\ UNCHANGED <<analysis, messages, processed, dead, sinkVars, stalls>>

-----------------------------------------------------------------------------
Handle(w) ==
  \/ ClaimToolCall(w) \/ Republish(w) \/ CheckAnalysis(w)
  \/ ExecuteReturns(w) \/ ExecuteRaises(w) \/ Finalize(w)
  \/ MarkProcessed(w) \/ Requeue(w)

Failure(w) ==
  HeartbeatFails(w) \/ FinalizeFails(w) \/ WorkerDies(w) \/ WorkerStopped(w)

Consume(c) ==
  \E a \in messages[c] : Skip(c, a) \/ \E w \in Workers : Deliver(w, c, a)

Next ==
  \/ \E w \in Workers : Handle(w) \/ RenewToolClaim(w) \/ RenewLease(w) \/ Failure(w)
  \/ \E c \in Calls : Consume(c) \/ ToolClaimExpires(c) \/ LeaseExpires(c)
  \/ CancelAnalysis

\* Workers are restarted and keep consuming, a tool call ends (its commands have
\* timeouts), and time passes for the claims nobody renews.
Fairness ==
  /\ \A w \in Workers : WF_vars(Handle(w)) /\ WF_vars(RenewToolClaim(w)) /\ WF_vars(RenewLease(w))
  /\ \A c \in Calls :
       /\ WF_vars(Consume(c))
       /\ WF_vars(~RenewsTool(c) /\ ToolClaimExpires(c))
       /\ WF_vars(lease[c].owner \notin Workers /\ LeaseExpires(c))

Spec == Init /\ [][Next]_vars
FairSpec == Spec /\ Fairness

-----------------------------------------------------------------------------
(* Properties                                                              *)

Stages == {"idle", "claim", "republish", "check", "execute", "finalize", "mark", "requeue"}

TypeOK ==
  /\ analysis \in {"running", "cancelled"}
  /\ tool \in [Calls -> [status : {"queued", "running"} \cup TerminalTool,
                         owner : Workers \cup {NoWorker},
                         state : {"free", "live", "expired"}]]
  /\ lease \in [Calls -> [owner : Workers \cup {NoWorker}, state : {"free", "live", "expired"}]]
  /\ messages \in [Calls -> SUBSET (1..MaxAttempts)]
  /\ processed \in SUBSET Calls /\ dead \in SUBSET Calls
  /\ announced \in SUBSET Calls /\ raised \in SUBSET Calls
  /\ pc \in [Workers -> Stages]
  /\ call \in [Workers -> Calls]
  /\ attempt \in [Workers -> 0..MaxAttempts]
  /\ outcome \in [Workers -> {"none"} \cup TerminalTool]
  /\ hb \in [Workers -> {"off", "on", "failed"}]
  /\ results \in [Calls -> Seq(TerminalTool)]
  /\ faults \in Nat /\ stalls \in Nat

\* A tool call has at most one recorded result and it is the one in its row: a
\* worker whose claim was taken over, or whose call was cancelled meanwhile,
\* records nothing (_update_terminal_tool_call).
OneResult ==
  \A c \in Calls :
    /\ Len(results[c]) <= 1
    /\ results[c] # <<>> => tool[c].status = results[c][1]
    /\ tool[c].status \in {"completed", "failed", "denied"} => results[c] # <<>>

\* The event is acknowledged only when the call is finished, and unless it was
\* cancelled the agent has been told, although the handler ignores whether
\* finalize_tool_call recorded anything.  One stalled lease is tolerated; if both
\* stall, the workers can hold one lease each.
AcknowledgedMeansFinished ==
  stalls <= 1 => \A c \in processed :
    tool[c].status \in TerminalTool /\ (c \in announced \/ tool[c].status = "cancelled")

\* A call is executed by two workers only in two situations.  Two leases have stalled
\* under living workers; or one has, and the heartbeat task of one of the two workers
\* failed: its executor goes on without it, so that its tool claim expires with no
\* stall.  Each lease alone excludes a second execution otherwise, and failing
\* heartbeats alone, however many, do no harm.
ExclusiveExecution ==
  \A v, w \in Workers :
    pc[v] = "execute" /\ pc[w] = "execute" /\ call[v] = call[w] /\ v # w
      => stalls > 1 \/ (stalls = 1 /\ "failed" \in {hb[v], hb[w]})

\* A recorded or cancelled outcome is final: no retry, release or late result of
\* another worker changes the status of a finished call.
FinishedIsFinal ==
  [][\A c \in Calls : tool[c].status \in TerminalTool => tool'[c].status = tool[c].status]_vars

\* Every call finishes or its event ends in the dead letter queue, and that only
\* because its tool raised, a worker failed or a lease stalled: the two leases do
\* not starve each other, and claims left behind by dead or stopped workers block a
\* call only until they expire.  (As in AcknowledgedMeansFinished, at most one
\* lease stalls under a living worker.)
HasCause(c) == c \in raised \/ faults > 0 \/ stalls > 0
CallSettles ==
  \A c \in Calls :
    <>(tool[c].status \in TerminalTool \/ (c \in dead /\ HasCause(c)) \/ stalls > 1)

-----------------------------------------------------------------------------
(* Parts of the inductive invariant of ToolCallExecutionProofs             *)

\* A claim that an invocation still owns is on a running or a cancelled call.
OwnedIsRunning ==
  \A c \in Calls : tool[c].owner \in Workers => tool[c].status \in {"running", "cancelled"}

\* A worker that finalises has classified its result.
OutcomeKnown == \A w \in Workers : pc[w] = "finalize" => outcome[w] \in TerminalTool

=============================================================================
