---------------------------- MODULE WorkflowEngine ----------------------------
(***************************************************************************)
(* One call of WorkflowEngine.execute: the execute() body, the runner it   *)
(* races against the global timer (runWorkflow and runNodeWithRetries),    *)
(* the action-handler calls the runner starts, the event listeners, and    *)
(* the InMemoryPersistenceAdapter the execution is saved to.               *)
(*                                                                         *)
(* A step is what the code does between two awaits.  Promise.race abandons *)
(* its loser without stopping it, so a runner goes on after the global     *)
(* timeout and a handler call goes on after its node's timeout.            *)
(*                                                                         *)
(* Abstracted: the workflow context, wall-clock times and durations (a     *)
(* timer fires at any moment it is armed), node types (a node is a set of  *)
(* next ids it may choose between; a trigger, a condition or an end        *)
(* answers without an await, so a timer of its own never wins), which      *)
(* listener throws, and the codes of errors: EXECUTION_ERROR stands for    *)
(* every code but that of the node timer.                                  *)
(***************************************************************************)
EXTENDS Naturals, Sequences, FiniteSets

CONSTANTS
  Nodes,           (* keys of definition.nodes                                *)
  Ids,             (* node ids that references may name, dangling ones too    *)
  NoNode,          (* undefined: no next node                                 *)
  StartId,         (* options.resumeFromNodeId ?? definition.entryNodeId      *)
  Edges,           (* Edges[n]: the next ids node n may choose                *)
  OnError,         (* OnError[n]: onErrorNodeId, or NoNode                    *)
  MaxAttempts,     (* MaxAttempts[n]: retryPolicy?.maxAttempts ?? 1           *)
  AwaitingNodes,   (* action, loop and parallel nodes: executing them awaits  *)
  TimedNodes,      (* those of them with a timeout                            *)
  HasTimeout,      (* options.timeoutMs ?? settings.timeoutMs is set          *)
  ListenersThrow,  (* an event listener may throw synchronously               *)
  Purges,          (* purgeHistory may be called with a date after the start  *)
  MaxHistory       (* bound: node records before the model stops a cycle      *)

ASSUME EngineAssumption ==
  /\ Nodes \subseteq Ids
  /\ NoNode \notin Ids
  /\ StartId \in Ids
  /\ Edges \in [Nodes -> SUBSET (Ids \cup {NoNode})]
  /\ OnError \in [Nodes -> Ids \cup {NoNode}]
  /\ MaxAttempts \in [Nodes -> Nat]
  /\ AwaitingNodes \subseteq Nodes
  /\ TimedNodes \subseteq AwaitingNodes
  /\ HasTimeout \in BOOLEAN
  /\ ListenersThrow \in BOOLEAN
  /\ Purges \in BOOLEAN
  /\ MaxHistory \in Nat \ {0}

VARIABLES
  status,          (* execution.status; "none" before execute()               *)
  current,         (* execution.currentNodeId                                 *)
  history,         (* execution.nodeHistory                                   *)
  stored,          (* the adapter's entry for this execution, or NoEntry      *)
  pc,              (* the await execute() is at                               *)
  rpc,             (* the await the runner is at                              *)
  attempt,         (* runNodeWithRetries: attempt                             *)
  lastError,       (* runNodeWithRetries: code of lastError, or "none"        *)
  record,          (* runNodeWithRetries: the record it is about to return    *)
  inflight         (* handler calls started and not settled                   *)

execVars   == <<status, current, history>>
nodeVars   == <<attempt, lastError, record>>
vars == <<status, current, history, stored, pc, rpc, attempt, lastError,
          record, inflight>>

Statuses == {"none", "running", "succeeded", "failed", "timed_out"}
Terminal == {"succeeded", "failed", "timed_out"}

ErrorCodes == {"EXECUTION_ERROR", "NODE_TIMEOUT"}

Records == [node : Nodes, status : {"succeeded", "failed", "timed_out"},
            attempt : Nat, next : Ids \cup {NoNode}]

NoRecord == [node |-> NoNode, status |-> "pending", attempt |-> 0,
             next |-> NoNode]

(***************************************************************************)
(* InMemoryPersistenceAdapter.  saveExecution copies the execution one     *)
(* level deep: the entry's nodeHistory IS the execution's array until      *)
(* appendNodeRecord gives the entry an array of its own.                   *)
(***************************************************************************)
NoEntry == [status |-> "none", shared |-> FALSE, own |-> <<>>]

Saved(s) == [status |-> s, shared |-> TRUE, own |-> <<>>]

\* The nodeHistory that getExecution returns when execution.nodeHistory is h.
StoredHistory(e, h) == IF e.shared THEN h ELSE e.own

\* Mutant: appends to the entry's own array even while it is shared.
Appended_ForgetsShared(e, h, r) ==
  IF e = NoEntry THEN e
  ELSE [e EXCEPT !.own = Append(e.own, r), !.shared = FALSE]

\* appendNodeRecord(id, r), called after r was pushed and the array is h.
Appended(e, h, r) ==
  IF e = NoEntry THEN e
  ELSE [e EXCEPT !.own = Append(StoredHistory(e, h), r), !.shared = FALSE]

(***************************************************************************)
(* The runner.                                                             *)
(***************************************************************************)
Visit == Len(history) + 1

\* The handler call the runner is waiting for.
LiveCall == [visit |-> Visit, node |-> current, attempt |-> attempt]

Calls == [visit : Nat, node : Nodes, attempt : Nat]

\* The top of runWorkflow's loop with currentNodeId = id: leave the loop,
\* throw on an unknown node, or start the node's first attempt.
EnterNode(id) ==
  \/ /\ id = NoNode
     /\ rpc' = "done"
     /\ UNCHANGED <<current, nodeVars>>
  \/ /\ id \in Ids \ Nodes
     /\ rpc' = "threw"
     /\ UNCHANGED <<current, nodeVars>>
  \/ /\ id \in Nodes
     /\ MaxAttempts[id] > 0
     /\ current' = id
     /\ attempt' = 1
     /\ lastError' = "none"
     /\ record' = NoRecord
     /\ rpc' = "starting"
  \/ /\ id \in Nodes
     /\ MaxAttempts[id] = 0
     /\ current' = id
     /\ attempt' = 0
     /\ lastError' = "none"
     /\ record' = [node |-> id, status |-> "failed", attempt |-> 0,
                   next |-> NoNode]
     /\ rpc' = "settled"

\* The status of a failed attempt's record once it is returned: an
\* onErrorNodeId rewrites "timed_out" to "failed".
FailedStatus(n, code) ==
  IF code = "NODE_TIMEOUT" /\ OnError[n] = NoNode THEN "timed_out" ELSE "failed"

\* The catch block of an attempt that failed with this code, when the policy
\* allows max attempts and the next one is numbered next.
Catch(code, max, next) ==
  /\ lastError' = code
  /\ \/ /\ attempt < max
        /\ attempt' = next
        /\ rpc' = "retrying"
        /\ UNCHANGED record
     \/ /\ attempt >= max
        /\ record' = [node |-> current, status |-> FailedStatus(current, code),
                      attempt |-> attempt, next |-> NoNode]
        /\ rpc' = "failing"
        /\ UNCHANGED attempt

\* Mutant: one attempt too many.
AttemptFailed_OneMore(code) == Catch(code, MaxAttempts[current] + 1, attempt + 1)

AttemptFailed(code) == Catch(code, MaxAttempts[current], attempt + 1)

\* A listener threw out of runNodeWithRetries: the runner rejects.
RunnerThrows == rpc' = "threw" /\ UNCHANGED nodeVars

\* emit(node.retrying), then the backoff sleep.
Backoff ==
  /\ rpc = "retrying"
  /\ \/ rpc' = "starting" /\ UNCHANGED nodeVars
     \/ ListenersThrow /\ RunnerThrows
  /\ UNCHANGED <<execVars, stored, pc, inflight>>

\* emit(node.started), then executeNode: the handler call is in flight.
StartAttempt ==
  /\ rpc = "starting"
  /\ \/ /\ rpc' = "executing"
        /\ inflight' = inflight \cup {LiveCall}
        /\ UNCHANGED nodeVars
     \/ ListenersThrow /\ RunnerThrows /\ UNCHANGED inflight
  /\ UNCHANGED <<execVars, stored, pc>>

AttemptSucceeds ==
  /\ rpc = "executing"
  /\ \E id \in Edges[current] :
       record' = [node |-> current, status |-> "succeeded",
                  attempt |-> attempt, next |-> id]
  /\ inflight' = inflight \ {LiveCall}
  /\ rpc' = "completing"
  /\ UNCHANGED <<execVars, stored, pc, attempt, lastError>>

HandlerRejects ==
  /\ rpc = "executing"
  /\ inflight' = inflight \ {LiveCall}
  /\ AttemptFailed("EXECUTION_ERROR")
  /\ UNCHANGED <<execVars, stored, pc>>

\* Mutant: every node gets a timer.
NodeTimeout_Any ==
  /\ rpc = "executing"
  /\ AttemptFailed("NODE_TIMEOUT")
  /\ UNCHANGED <<execVars, stored, pc, inflight>>

\* The node's timer wins the race; the handler call goes on in the background.
NodeTimeout ==
  /\ rpc = "executing"
  /\ current \in TimedNodes
  /\ AttemptFailed("NODE_TIMEOUT")
  /\ UNCHANGED <<execVars, stored, pc, inflight>>

\* A call nobody waits for any more settles.
LateAnswer ==
  /\ \E c \in inflight :
       /\ ~ (rpc = "executing" /\ c = LiveCall)
       /\ inflight' = inflight \ {c}
  /\ UNCHANGED <<execVars, stored, pc, rpc, nodeVars>>

\* emit(node.completed) is inside the attempt's try block: a listener that
\* throws makes the attempt fail after its handler succeeded.
EmitNodeCompleted ==
  /\ rpc = "completing"
  /\ \/ rpc' = "settled" /\ UNCHANGED nodeVars
     \/ ListenersThrow /\ AttemptFailed("EXECUTION_ERROR")
  /\ UNCHANGED <<execVars, stored, pc, inflight>>

EmitNodeFailed ==
  /\ rpc = "failing"
  /\ \/ rpc' = "settled" /\ UNCHANGED nodeVars
     \/ ListenersThrow /\ RunnerThrows
  /\ UNCHANGED <<execVars, stored, pc, inflight>>

\* nodeHistory.push(record) and persistNodeRecord, with no await between.
RecordNode ==
  /\ rpc = "settled"
  /\ history' = Append(history, record)
  /\ stored' = Appended(stored, history', record)
  /\ rpc' = "recorded"
  /\ UNCHANGED <<status, current, pc, nodeVars, inflight>>

\* Mutant: a failed node is routed on instead of ending the run.
Advance_IgnoresFailure ==
  /\ rpc = "recorded"
  /\ Len(history) < MaxHistory \/ record.next \notin Nodes
  /\ EnterNode(record.next)
  /\ UNCHANGED <<status, history, stored, pc, inflight>>

\* After the record is stored: throw if the node failed, else go to the node
\* that resolveNextNode reads from the record.
Advance ==
  /\ rpc = "recorded"
  /\ \/ /\ record.status # "succeeded"
        /\ rpc' = "threw"
        /\ UNCHANGED <<current, nodeVars>>
     \/ /\ record.status = "succeeded"
        /\ Len(history) < MaxHistory \/ record.next \notin Nodes
        /\ EnterNode(record.next)
  /\ UNCHANGED <<status, history, stored, pc, inflight>>

(***************************************************************************)
(* execute().                                                              *)
(***************************************************************************)
\* The race between the runner and the global timer is still open.
Racing == pc = "racing" /\ rpc \notin {"done", "threw"}

\* Object.assign(execution, patch) and persistExecution.
Settle(s) == status' = s /\ stored' = Saved(s)

Execute ==
  /\ pc = "idle"
  /\ Settle("running")
  /\ pc' = "starting"
  /\ UNCHANGED <<current, history, rpc, nodeVars, inflight>>

\* emit(execution.started) is outside the try block: a listener that throws
\* rejects execute() itself and nothing runs.
EmitExecutionStarted ==
  /\ pc = "starting"
  /\ \/ /\ pc' = "racing"
        /\ EnterNode(StartId)
     \/ /\ ListenersThrow
        /\ pc' = "rejected"
        /\ UNCHANGED <<current, rpc, nodeVars>>
  /\ UNCHANGED <<status, history, stored, inflight>>

\* Mutant: the timer is not part of the race and fires after the run ended.
ExecutionTimeout_NoRace ==
  /\ pc \in {"racing", "emitCompleted"}
  /\ HasTimeout
  /\ Settle("timed_out")
  /\ pc' = "emitFailed"
  /\ UNCHANGED <<current, history, rpc, nodeVars, inflight>>


ExecutionTimeout ==
  /\ Racing
  /\ HasTimeout
  /\ Settle("timed_out")
  /\ pc' = "emitFailed"
  /\ UNCHANGED <<current, history, rpc, nodeVars, inflight>>

RunSucceeds ==
  /\ pc = "racing" /\ rpc = "done"
  /\ Settle("succeeded")
  /\ pc' = "emitCompleted"
  /\ UNCHANGED <<current, history, rpc, nodeVars, inflight>>

RunFails ==
  /\ pc = "racing" /\ rpc = "threw"
  /\ Settle("failed")
  /\ pc' = "emitFailed"
  /\ UNCHANGED <<current, history, rpc, nodeVars, inflight>>

\* emit(execution.completed) is inside the try block: a listener that throws
\* turns the saved success into a saved failure.
EmitExecutionCompleted ==
  /\ pc = "emitCompleted"
  /\ \/ pc' = "returned" /\ UNCHANGED <<status, stored>>
     \/ ListenersThrow /\ Settle("failed") /\ pc' = "emitFailed"
  /\ UNCHANGED <<current, history, rpc, nodeVars, inflight>>

EmitExecutionFailed ==
  /\ pc = "emitFailed"
  /\ \/ pc' = "returned"
     \/ ListenersThrow /\ pc' = "rejected"
  /\ UNCHANGED <<execVars, stored, rpc, nodeVars, inflight>>

\* purgeHistory selects by start date only, so a run in progress goes too.
PurgeHistory ==
  /\ Purges
  /\ stored # NoEntry
  /\ stored' = NoEntry
  /\ UNCHANGED <<execVars, pc, rpc, nodeVars, inflight>>

-----------------------------------------------------------------------------
Init ==
  /\ status = "none" /\ current = NoNode /\ history = <<>>
  /\ stored = NoEntry
  /\ pc = "idle" /\ rpc = "off"
  /\ attempt = 0 /\ lastError = "none" /\ record = NoRecord
  /\ inflight = {}

Runner ==
  \/ Backoff \/ StartAttempt \/ EmitNodeCompleted \/ EmitNodeFailed
  \/ RecordNode \/ Advance

Handler == AttemptSucceeds \/ HandlerRejects

Executor ==
  \/ Execute \/ EmitExecutionStarted \/ RunSucceeds \/ RunFails
  \/ EmitExecutionCompleted \/ EmitExecutionFailed

Next ==
  \/ Runner \/ Handler \/ NodeTimeout \/ LateAnswer
  \/ Executor \/ ExecutionTimeout \/ PurgeHistory

Spec == Init /\ [][Next]_vars

(***************************************************************************)
(* Fairness: the event loop runs every continuation that is ready, a node  *)
(* that does not await included, and fires every armed timer.  Nothing     *)
(* makes an action handler settle, nor a listener: emit awaits what its    *)
(* listeners return, so that a step which emits first may never come.      *)
(***************************************************************************)
FairSpec ==
  /\ Spec
  /\ WF_vars(RecordNode \/ Advance)
  /\ WF_vars(Execute \/ RunSucceeds \/ RunFails)
  /\ WF_vars(NodeTimeout) /\ WF_vars(ExecutionTimeout)
  /\ WF_vars(Handler /\ current \notin AwaitingNodes)

-----------------------------------------------------------------------------
(***************************************************************************)
(* Properties.                                                             *)
(***************************************************************************)
Run == INSTANCE WorkflowRun WITH walk <- history

RunnerPcs == {"off", "retrying", "starting", "executing", "completing",
              "failing", "settled", "recorded", "done", "threw"}

\* The runner is inside runNodeWithRetries.
InNode == rpc \in {"retrying", "starting", "executing", "completing",
                   "failing", "settled"}

\* Every variable keeps its type; the statuses are those the code assigns.
TypeOK ==
  /\ status \in Statuses
  /\ current \in Nodes \cup {NoNode}
  /\ history \in Seq(Records)
  /\ stored \in [status : Statuses, shared : BOOLEAN, own : Seq(Records)]
  /\ pc \in {"idle", "starting", "racing", "emitCompleted", "emitFailed",
             "returned", "rejected"}
  /\ rpc \in RunnerPcs
  /\ attempt \in Nat
  /\ lastError \in ErrorCodes \cup {"none"}
  /\ record \in Records \cup {NoRecord}
  /\ inflight \subseteq Calls

\* nodeHistory is a walk of the graph: it starts at the start node, each
\* record is for the node the previous one chose, only the last one may have
\* failed, and no record counts more attempts than the node's retry policy.
\* Holds for the abandoned runner of a timed-out execution too.
HistoryIsWalk ==
  \A i \in 1..Len(history) :
    /\ history[i].attempt <= MaxAttempts[history[i].node]
    /\ history[i].status = "succeeded" =>
         history[i].next \in Edges[history[i].node]
    /\ IF i = 1 THEN history[i].node = StartId
       ELSE /\ history[i - 1].status = "succeeded"
            /\ history[i].node = history[i - 1].next

\* The status the caller is given is what the walk says: "succeeded" only at
\* the end of a walk whose every node succeeded, "failed" only if a node
\* failed, a reference dangles or a listener threw, "timed_out" only if the
\* run has a timeout.
StatusIsJustified ==
  /\ status = "succeeded" => /\ ~ Run!Stuck(history)
                             /\ Run!Position(history) = NoNode
  /\ status = "failed" => Run!Stuck(history) \/ ListenersThrow
  /\ status = "timed_out" => HasTimeout

\* Only the global timeout leaves a runner behind: once an execution is
\* "succeeded" or "failed", nothing of it starts another node or attempt.
OnlyTimeoutAbandonsRunner ==
  status \in {"succeeded", "failed"} => rpc \in {"done", "threw"}

\* Two handler calls in flight at once are the work of a node timer: calls
\* of nodes without a timeout never overlap, retries and the abandoned
\* runner of a timed-out execution included.
UntimedCallsNeverOverlap ==
  \A c, d \in inflight :
    c.node \notin TimedNodes /\ d.node \notin TimedNodes => c = d

\* A handler is never called more often per visit than the retry policy
\* allows, and the call about to start is not one already running.
AttemptsAreBounded ==
  /\ \A c \in inflight : c.attempt \in 1..MaxAttempts[c.node]
  /\ rpc = "starting" => LiveCall \notin inflight

\* What a timer abandons stays within bounds, whichever timer it is and
\* however long its handler takes: no runner but one that was timed out goes
\* on, no call overlaps another unless a node timer gave it up, and no
\* attempt is made twice or past the policy (both Promise.race in execute
\* and in runNodeWithRetries leave the loser at work).
AbandonedWorkIsBounded ==
  OnlyTimeoutAbandonsRunner /\ UntimedCallsNeverOverlap /\ AttemptsAreBounded

\* own is h with one record stored twice.
DuplicatesOne(own, h) ==
  /\ Len(own) = Len(h) + 1
  /\ \E k \in 1..Len(h) :
       /\ \A i \in 1..k : own[i] = h[i]
       /\ \A i \in k..Len(h) : own[i + 1] = h[i]

\* What getExecution returns: the execution's present status, and a history
\* that has every record in order, with at most one of them twice.  A purge
\* in the middle of a run loses it only until the final save.
StoreFollowsExecution ==
  stored # NoEntry =>
    /\ stored.status = status
    /\ stored.shared \/ DuplicatesOne(stored.own, history)

\* Retries, timers, listeners and the store implement the walk of
\* WorkflowRun: terminal statuses are final (but for a listener that fails a
\* succeeded run), and the history only ever grows along edges.
RefinesRun == Run!Spec

\* The listeners of an execution's last event settle.
LastListenersSettle ==
  WF_vars(EmitExecutionCompleted) /\ WF_vars(EmitExecutionFailed)

=============================================================================
