------------------------- MODULE WorkflowEngineProofs -------------------------
(***************************************************************************)
(* Safety of the workflows, for every value of their constants.            *)
(*                                                                         *)
(* First WorkflowEngine, for every workflow, retry policy and set of       *)
(* timers: the inductive invariant IInv, the properties it implies, and    *)
(* the step simulation behind RefinesRun.  Then WorkflowDefinitions, for   *)
(* every set of texts and of ids to build from: DefinitionsInv, what       *)
(* validation promises of an execution, what the templates do, and that    *)
(* executions go down a well-founded order and end.                        *)
(***************************************************************************)
EXTENDS WorkflowEngine, WorkflowDefinitions,
        FiniteSetTheorems, SequenceTheorems, WellFoundedInduction, TLAPS

Pos == Run!Position(history)
IsStuck == Run!Stuck(history)

\* What the runner's place says of its node, its record and the history.
RunnerInv ==
  /\ rpc = "off" => history = <<>> /\ inflight = {}
  /\ InNode => /\ current \in Nodes
               /\ current = Pos
               /\ ~ IsStuck
               /\ attempt <= MaxAttempts[current]
  /\ InNode /\ rpc # "settled" => attempt >= 1
  /\ rpc \in {"completing", "failing", "settled"} =>
       /\ record \in Run!Outcomes(current)
       /\ record.attempt <= MaxAttempts[current]
  /\ rpc = "recorded" => /\ history # <<>>
                         /\ record = history[Len(history)]
  /\ rpc = "done" => ~ IsStuck /\ Pos = NoNode
  /\ rpc = "threw" => IsStuck \/ ListenersThrow

\* What the place of execute() says of the status and of the runner.
ExecuteInv ==
  /\ pc \in {"idle", "starting"} => rpc = "off"
  /\ pc = "idle" <=> status = "none"
  /\ pc \in {"starting", "racing"} => status = "running"
  /\ pc = "emitCompleted" => status = "succeeded"
  /\ pc = "emitFailed" => status \in {"failed", "timed_out"}
  /\ rpc # "off" => status # "none"
  /\ status = "succeeded" => rpc = "done"
  /\ status = "failed" => /\ rpc \in {"done", "threw"}
                          /\ rpc = "done" => ListenersThrow
  /\ status = "timed_out" => HasTimeout

\* A call in flight is the one the runner waits for, or a timer abandoned it.
CallOK(c) ==
  /\ c.attempt \in 1..MaxAttempts[c.node]
  /\ c.visit <= Visit
  /\ rpc = "recorded" => c.visit < Visit
  /\ (rpc = "executing" /\ c = LiveCall) \/ c.node \in TimedNodes
  /\ InNode /\ c.visit = Visit => c.attempt <= attempt
  /\ rpc \in {"starting", "retrying"} /\ c.visit = Visit =>
       c.attempt < attempt

CallInv == \A c \in inflight : CallOK(c)

IInv ==
  /\ TypeOK
  /\ HistoryIsWalk
  /\ RunnerInv
  /\ ExecuteInv
  /\ StoreFollowsExecution
  /\ CallInv

-----------------------------------------------------------------------------
LEMMA InitInv == Init => IInv
BY EngineAssumption
   DEF Init, IInv, TypeOK, HistoryIsWalk, RunnerInv, ExecuteInv,
       StoreFollowsExecution, CallInv, NoEntry, NoRecord, Statuses, RunnerPcs,
       InNode, ErrorCodes

(***************************************************************************)
(* The two operators several actions are built from.                       *)
(***************************************************************************)
LEMMA EnterNodeType ==
  ASSUME TypeOK, NEW id \in Ids \cup {NoNode}, EnterNode(id)
  PROVE  /\ current' \in Nodes \cup {NoNode}
         /\ rpc' \in RunnerPcs
         /\ attempt' \in Nat
         /\ lastError' \in ErrorCodes \cup {"none"}
         /\ record' \in Records \cup {NoRecord}
BY EngineAssumption
   DEF TypeOK, EnterNode, nodeVars, RunnerPcs, Records

LEMMA AttemptFailedType ==
  ASSUME TypeOK, current \in Nodes, NEW code \in ErrorCodes,
         AttemptFailed(code)
  PROVE  /\ rpc' \in {"retrying", "failing"}
         /\ attempt' \in Nat
         /\ lastError' \in ErrorCodes \cup {"none"}
         /\ record' \in Records \cup {NoRecord}
BY EngineAssumption
   DEF TypeOK, AttemptFailed, Catch, FailedStatus, Records

LEMMA SavedType ==
  ASSUME NEW s \in Statuses
  PROVE  Saved(s) \in [status : Statuses, shared : BOOLEAN, own : Seq(Records)]
<1>1. <<>> \in Seq(Records)
  OBVIOUS
<1> QED BY <1>1 DEF Saved

\* A record that is about to be stored, or just was, is one of nodeHistory.
LEMMA RecordIsRecord ==
  ASSUME TypeOK, RunnerInv,
         rpc \in {"completing", "failing", "settled", "recorded"}
  PROVE  record \in Records
<1>1. CASE rpc = "recorded"
  BY <1>1 DEF TypeOK, RunnerInv
<1>2. CASE rpc # "recorded"
  <2>1. current \in Nodes /\ record \in Run!Outcomes(current)
    BY <1>2 DEF RunnerInv, InNode
  <2>2. Edges[current] \subseteq Ids \cup {NoNode}
    BY <2>1, EngineAssumption
  <2>3. MaxAttempts[current] \in Nat
    BY <2>1, EngineAssumption
  <2> QED BY <2>1, <2>2, <2>3 DEF Run!Outcomes, Records
<1> QED BY <1>1, <1>2

LEMMA TypeStep == IInv /\ [Next]_vars => TypeOK'
<1> SUFFICES ASSUME IInv, [Next]_vars PROVE TypeOK'
  OBVIOUS
<1> USE EngineAssumption DEF IInv, execVars, nodeVars
<1>1. CASE Runner
  <2>1. CASE Backoff
    BY <2>1 DEF TypeOK, Backoff, RunnerThrows, RunnerPcs
  <2>2. CASE StartAttempt
    BY <2>2 DEF TypeOK, StartAttempt, RunnerThrows, RunnerPcs, LiveCall, Calls,
                RunnerInv, InNode, Visit
  <2>3. CASE EmitNodeCompleted
    BY <2>3, AttemptFailedType
       DEF TypeOK, EmitNodeCompleted, RunnerPcs, RunnerInv, InNode, ErrorCodes
  <2>4. CASE EmitNodeFailed
    BY <2>4 DEF TypeOK, EmitNodeFailed, RunnerThrows, RunnerPcs
  <2>5. CASE RecordNode
    <3>1. record \in Records
      BY <2>5, RecordIsRecord DEF RecordNode
    <3>2. history' \in Seq(Records)
      BY <2>5, <3>1 DEF RecordNode, TypeOK
    <3>3. stored' \in [status : Statuses, shared : BOOLEAN, own : Seq(Records)]
      <4>1. StoredHistory(stored, history') \in Seq(Records)
        BY <3>2 DEF StoredHistory, TypeOK
      <4>2. Append(StoredHistory(stored, history'), record) \in Seq(Records)
        BY <4>1, <3>1
      <4> QED BY <2>5, <4>2 DEF RecordNode, Appended, TypeOK
    <3> QED BY <2>5, <3>2, <3>3 DEF TypeOK, RecordNode, RunnerPcs
  <2>6. CASE Advance
    <3>1. record.next \in Ids \cup {NoNode}
      BY <2>6, RecordIsRecord DEF Advance, Records
    <3> QED BY <2>6, <3>1, EnterNodeType DEF TypeOK, Advance, RunnerPcs
  <2> QED BY <1>1, <2>1, <2>2, <2>3, <2>4, <2>5, <2>6 DEF Runner
<1>2. CASE AttemptSucceeds
  BY <1>2 DEF TypeOK, AttemptSucceeds, RunnerPcs, RunnerInv, InNode, Records
<1>3. CASE HandlerRejects
  BY <1>3, AttemptFailedType
     DEF TypeOK, HandlerRejects, RunnerPcs, RunnerInv, InNode, ErrorCodes
<1>4. CASE NodeTimeout
  BY <1>4, AttemptFailedType
     DEF TypeOK, NodeTimeout, RunnerPcs, RunnerInv, InNode, ErrorCodes
<1>5. CASE LateAnswer
  BY <1>5 DEF TypeOK, LateAnswer
<1>6. CASE EmitExecutionStarted
  BY <1>6, EnterNodeType DEF TypeOK, EmitExecutionStarted
<1>7. CASE Execute \/ RunSucceeds \/ RunFails \/ EmitExecutionCompleted
           \/ EmitExecutionFailed
  <2>1. status' \in Statuses /\ pc' \in {"idle", "starting", "racing",
                "emitCompleted", "emitFailed", "returned", "rejected"}
    BY <1>7 DEF TypeOK, Execute, RunSucceeds, RunFails, EmitExecutionCompleted,
                EmitExecutionFailed, Settle, Statuses
  <2>2. stored' = stored \/ \E s \in Statuses : stored' = Saved(s)
    BY <1>7 DEF Execute, RunSucceeds, RunFails, EmitExecutionCompleted,
                EmitExecutionFailed, Settle, Statuses
  <2>3. stored' \in [status : Statuses, shared : BOOLEAN, own : Seq(Records)]
    BY <2>2, SavedType DEF TypeOK
  <2> QED
    BY <1>7, <2>1, <2>3
       DEF TypeOK, Execute, RunSucceeds, RunFails, EmitExecutionCompleted,
           EmitExecutionFailed, Settle
<1>8. CASE ExecutionTimeout
  BY <1>8 DEF TypeOK, ExecutionTimeout, Settle, Saved, Statuses
<1>9. CASE PurgeHistory
  BY <1>9 DEF TypeOK, PurgeHistory, NoEntry, Statuses
<1>10. CASE UNCHANGED vars
  BY <1>10 DEF TypeOK, vars
<1> QED
  BY <1>1, <1>2, <1>3, <1>4, <1>5, <1>6, <1>7, <1>8, <1>9, <1>10
     DEF Next, Handler, Executor

(***************************************************************************)
(* History.  Only RecordNode changes it, and only at the walk's position.  *)
(***************************************************************************)
LEMMA AppendPosition ==
  ASSUME NEW h \in Seq(Records), NEW r \in Records
  PROVE  /\ Run!Position(Append(h, r)) = r.next
         /\ Run!Stuck(Append(h, r)) <=>
              r.next \in Ids \ Nodes \/ r.status # "succeeded"
         /\ Append(h, r) # <<>>
         /\ Append(h, r)[Len(Append(h, r))] = r
<1>1. /\ Len(Append(h, r)) = Len(h) + 1
      /\ Append(h, r)[Len(h) + 1] = r
      /\ Append(h, r) # <<>>
  OBVIOUS
<1> QED BY <1>1 DEF Run!Position, Run!Stuck, Run!LastOf

\* What the record that RecordNode is about to push looks like.
LEMMA SettledRecord ==
  ASSUME IInv, RecordNode
  PROVE  /\ record \in Records
         /\ record.node = Pos
         /\ record.attempt <= MaxAttempts[record.node]
         /\ record.status = "succeeded" => record.next \in Edges[record.node]
         /\ record.status # "succeeded" => record.next = NoNode
         /\ ~ IsStuck
         /\ record \in Run!Outcomes(Pos)
<1>1. record \in Records
  BY RecordIsRecord DEF IInv, RecordNode
<1>2. /\ record \in Run!Outcomes(current)
      /\ current = Pos
      /\ ~ IsStuck
      /\ record.attempt <= MaxAttempts[current]
  BY DEF IInv, RecordNode, RunnerInv, InNode
<1> QED BY <1>1, <1>2 DEF Run!Outcomes

LEMMA HistoryStep == IInv /\ [Next]_vars => HistoryIsWalk'
<1> SUFFICES ASSUME IInv, [Next]_vars PROVE HistoryIsWalk'
  OBVIOUS
<1>1. CASE RecordNode
  <2> DEFINE n == Len(history)
  <2>1. /\ history \in Seq(Records)
        /\ history' = Append(history, record)
        /\ record \in Records
    BY <1>1, SettledRecord DEF IInv, TypeOK, RecordNode
  <2>2. /\ n \in Nat
        /\ Len(history') = n + 1
        /\ history'[n + 1] = record
        /\ \A i \in 1..n : history'[i] = history[i]
    BY <2>1
  <2>3. ASSUME n # 0
        PROVE  /\ history[n].status = "succeeded"
               /\ history[n].next = record.node
    <3>1. history # <<>>
      BY <2>1, <2>3
    <3> QED
      BY <1>1, <3>1, SettledRecord DEF Pos, IsStuck, Run!Position, Run!Stuck, Run!LastOf
  <2>4. ASSUME n = 0
        PROVE  record.node = StartId
    <3>1. history = <<>>
      BY <2>1, <2>4
    <3> QED BY <1>1, <3>1, SettledRecord DEF Pos, Run!Position
  <2>5. /\ record.attempt <= MaxAttempts[record.node]
        /\ record.status = "succeeded" => record.next \in Edges[record.node]
    BY <1>1, SettledRecord
  <2>6. ASSUME NEW i \in 1..n
        PROVE  /\ history'[i].attempt <= MaxAttempts[history'[i].node]
               /\ history'[i].status = "succeeded" =>
                    history'[i].next \in Edges[history'[i].node]
               /\ IF i = 1 THEN history'[i].node = StartId
                  ELSE /\ history'[i - 1].status = "succeeded"
                       /\ history'[i].node = history'[i - 1].next
    <3>1. i # 1 => i - 1 \in 1..n
      BY <2>2
    <3>2. HistoryIsWalk
      BY DEF IInv
    <3> QED BY <2>2, <3>1, <3>2 DEF HistoryIsWalk
  <2> QED BY <2>2, <2>3, <2>4, <2>5, <2>6 DEF HistoryIsWalk
<1>2. CASE ~ RecordNode
  <2>1. history' = history
    BY <1>2 DEF Next, Runner, Handler, Executor, Backoff, StartAttempt,
         EmitNodeCompleted, EmitNodeFailed, Advance, AttemptSucceeds,
         HandlerRejects, NodeTimeout, LateAnswer, Execute,
         EmitExecutionStarted, RunSucceeds, RunFails, EmitExecutionCompleted,
         EmitExecutionFailed, ExecutionTimeout, PurgeHistory, vars, execVars
  <2> QED BY <2>1 DEF IInv, HistoryIsWalk
<1> QED BY <1>1, <1>2

-----------------------------------------------------------------------------
(***************************************************************************)
(* The runner.                                                             *)
(***************************************************************************)
\* The runner goes to the node its walk is at, and knows it.
LEMMA EnterNodeRunner ==
  ASSUME TypeOK, EnterNode(Pos), UNCHANGED <<history, inflight>>,
         history # <<>> => history[Len(history)].status = "succeeded"
  PROVE  RunnerInv'
<1>1. Pos' = Pos /\ IsStuck' = IsStuck
  BY DEF Pos, IsStuck
<1>2. IsStuck <=> Pos \in Ids \ Nodes
  BY DEF Pos, IsStuck, Run!Stuck, Run!LastOf
<1>3. NoNode \notin Ids /\ Nodes \subseteq Ids /\ MaxAttempts \in [Nodes -> Nat]
  BY EngineAssumption
<1>4. CASE Pos = NoNode \/ Pos \in Ids \ Nodes
  BY <1>1, <1>2, <1>3, <1>4, EngineAssumption
     DEF EnterNode, RunnerInv, InNode
<1>5. CASE Pos \in Nodes /\ MaxAttempts[Pos] > 0
  BY <1>1, <1>2, <1>3, <1>5 DEF EnterNode, RunnerInv, InNode
<1>6. CASE Pos \in Nodes /\ MaxAttempts[Pos] = 0
  <2>1. /\ current' = Pos /\ attempt' = 0 /\ rpc' = "settled"
        /\ record' = [node |-> Pos, status |-> "failed", attempt |-> 0,
                      next |-> NoNode]
    BY <1>3, <1>6 DEF EnterNode
  <2>2. record' \in Run!Outcomes(Pos)
    BY <2>1, <1>3, <1>6 DEF Run!Outcomes
  <2> QED BY <2>1, <2>2, <1>1, <1>2, <1>3, <1>6 DEF RunnerInv, InNode
<1> QED BY <1>3, <1>4, <1>5, <1>6 DEF EnterNode

\* A failed attempt is followed by the next one, or by the node's record.
LEMMA AttemptFailedRunner ==
  ASSUME TypeOK, RunnerInv, rpc \in {"executing", "completing"},
         NEW code \in ErrorCodes, AttemptFailed(code),
         UNCHANGED <<current, history>>
  PROVE  RunnerInv'
<1>1. Pos' = Pos /\ IsStuck' = IsStuck
  BY DEF Pos, IsStuck
<1>2. /\ current \in Nodes /\ current = Pos /\ ~ IsStuck
      /\ attempt \in Nat /\ attempt >= 1 /\ attempt <= MaxAttempts[current]
      /\ MaxAttempts[current] \in Nat
  BY EngineAssumption DEF TypeOK, RunnerInv, InNode
<1>3. CASE attempt < MaxAttempts[current]
  BY <1>1, <1>2, <1>3 DEF AttemptFailed, Catch, RunnerInv, InNode
<1>4. CASE attempt = MaxAttempts[current]
  <2>1. /\ rpc' = "failing" /\ attempt' = attempt
        /\ record' = [node |-> current, status |-> FailedStatus(current, code),
                      attempt |-> attempt, next |-> NoNode]
    BY <1>2, <1>4 DEF AttemptFailed, Catch
  <2>2. record' \in Run!Outcomes(current)
    BY <2>1, <1>2 DEF Run!Outcomes, FailedStatus
  <2> QED BY <1>1, <1>2, <2>1, <2>2 DEF RunnerInv, InNode
<1> QED BY <1>2, <1>3, <1>4

LEMMA RunnerStep == IInv /\ [Next]_vars => RunnerInv'
<1> SUFFICES ASSUME IInv, [Next]_vars PROVE RunnerInv'
  OBVIOUS
<1> USE DEF IInv, execVars, nodeVars
<1>1. history' = history => Pos' = Pos /\ IsStuck' = IsStuck
  BY DEF Pos, IsStuck
<1>2. CASE Backoff
  BY <1>1, <1>2 DEF RunnerInv, Backoff, RunnerThrows, InNode
<1>3. CASE StartAttempt
  BY <1>1, <1>3 DEF RunnerInv, StartAttempt, RunnerThrows, InNode
<1>4. CASE AttemptSucceeds
  <2>1. /\ current \in Nodes /\ attempt \in Nat /\ attempt >= 1
        /\ attempt <= MaxAttempts[current] /\ MaxAttempts[current] \in Nat
    BY <1>4, EngineAssumption DEF AttemptSucceeds, RunnerInv, InNode, TypeOK
  <2>2. record' \in Run!Outcomes(current) /\ record'.attempt = attempt
    BY <1>4, <2>1 DEF AttemptSucceeds, Run!Outcomes
  <2> QED BY <1>1, <1>4, <2>1, <2>2 DEF RunnerInv, AttemptSucceeds, InNode
<1>5. CASE HandlerRejects
  BY <1>5, AttemptFailedRunner DEF HandlerRejects, ErrorCodes
<1>6. CASE NodeTimeout
  BY <1>6, AttemptFailedRunner DEF NodeTimeout, ErrorCodes
<1>7. CASE LateAnswer
  BY <1>1, <1>7 DEF RunnerInv, LateAnswer, InNode
<1>8. CASE EmitNodeCompleted
  <2>1. CASE rpc' = "settled" /\ UNCHANGED nodeVars
    BY <1>1, <1>8, <2>1 DEF RunnerInv, EmitNodeCompleted, InNode
  <2>2. CASE AttemptFailed("EXECUTION_ERROR")
    BY <1>8, <2>2, AttemptFailedRunner DEF EmitNodeCompleted, ErrorCodes
  <2> QED BY <1>8, <2>1, <2>2 DEF EmitNodeCompleted
<1>9. CASE EmitNodeFailed
  BY <1>1, <1>9 DEF RunnerInv, EmitNodeFailed, RunnerThrows, InNode
<1>10. CASE RecordNode
  <2>1. history \in Seq(Records) /\ record \in Records
    BY <1>10, SettledRecord DEF TypeOK
  <2>2. history' # <<>> /\ record = history'[Len(history')]
    BY <1>10, <2>1, AppendPosition DEF RecordNode
  <2> QED BY <1>10, <2>2 DEF RecordNode, RunnerInv, InNode
<1>11. CASE Advance
  <2>1. /\ history # <<>> /\ record = history[Len(history)]
        /\ record.next = Pos
        /\ record.next \in Ids \cup {NoNode}
    BY <1>11, RecordIsRecord
       DEF Advance, RunnerInv, Pos, Run!Position, Run!LastOf, Records
  <2>2. CASE record.status # "succeeded"
    <3>1. IsStuck
      BY <2>1, <2>2 DEF IsStuck, Run!Stuck, Run!LastOf
    <3> QED BY <1>1, <1>11, <2>2, <3>1 DEF Advance, RunnerInv, InNode
  <2>3. CASE record.status = "succeeded"
    BY <1>11, <2>1, <2>3, EnterNodeRunner DEF Advance
  <2> QED BY <2>2, <2>3
<1>12. CASE EmitExecutionStarted
  <2>1. rpc = "off" /\ history = <<>> /\ inflight = {}
    BY <1>12 DEF EmitExecutionStarted, ExecuteInv, RunnerInv
  <2>2. Pos = StartId
    BY <2>1 DEF Pos, Run!Position
  <2>3. CASE EnterNode(StartId)
    BY <1>12, <2>1, <2>2, <2>3, EnterNodeRunner DEF EmitExecutionStarted
  <2>4. CASE UNCHANGED <<current, rpc, nodeVars>>
    BY <1>1, <1>12, <2>1, <2>4 DEF EmitExecutionStarted, RunnerInv, InNode
  <2> QED BY <1>12, <2>3, <2>4 DEF EmitExecutionStarted
<1>13. CASE Execute \/ RunSucceeds \/ RunFails \/ EmitExecutionCompleted
            \/ EmitExecutionFailed \/ ExecutionTimeout \/ PurgeHistory
            \/ UNCHANGED vars
  <2>1. UNCHANGED <<current, history, rpc, nodeVars, inflight>>
    BY <1>13 DEF Execute, RunSucceeds, RunFails, EmitExecutionCompleted,
         EmitExecutionFailed, ExecutionTimeout, PurgeHistory, vars
  <2> QED BY <1>1, <2>1 DEF RunnerInv, InNode
<1> QED
  BY <1>2, <1>3, <1>4, <1>5, <1>6, <1>7, <1>8, <1>9, <1>10, <1>11, <1>12,
     <1>13
     DEF Next, Runner, Handler, Executor

-----------------------------------------------------------------------------
(***************************************************************************)
(* execute(), the store and the calls in flight.                           *)
(***************************************************************************)
LEMMA ExecuteStep == IInv /\ [Next]_vars => ExecuteInv'
<1> SUFFICES ASSUME IInv, [Next]_vars PROVE ExecuteInv'
  OBVIOUS
<1> USE DEF IInv, ExecuteInv, execVars, nodeVars
<1>1. CASE Runner
  <2>1. /\ rpc \notin {"off", "done", "threw"}
        /\ rpc' # "off"
        /\ UNCHANGED <<status, pc>>
    BY <1>1
       DEF Runner, Backoff, StartAttempt, RunnerThrows, EmitNodeCompleted,
           AttemptFailed, Catch, EmitNodeFailed, RecordNode, Advance, EnterNode
  <2> QED BY <2>1
<1>2. CASE Handler \/ NodeTimeout
  <2>1. /\ rpc = "executing"
        /\ rpc' # "off"
        /\ UNCHANGED <<status, pc>>
    BY <1>2 DEF Handler, AttemptSucceeds, HandlerRejects, NodeTimeout,
                AttemptFailed, Catch
  <2> QED BY <2>1
<1>3. CASE EmitExecutionStarted
  BY <1>3 DEF EmitExecutionStarted, EnterNode
<1>4. CASE Execute
  BY <1>4 DEF Execute, Settle
<1>5. CASE RunSucceeds \/ RunFails
  BY <1>5 DEF RunSucceeds, RunFails, Settle
<1>6. CASE EmitExecutionCompleted \/ EmitExecutionFailed
  BY <1>6 DEF EmitExecutionCompleted, EmitExecutionFailed, Settle
<1>7. CASE ExecutionTimeout
  BY <1>7 DEF ExecutionTimeout, Racing, Settle
<1>8. CASE LateAnswer \/ PurgeHistory \/ UNCHANGED vars
  BY <1>8 DEF LateAnswer, PurgeHistory, vars
<1> QED
  BY <1>1, <1>2, <1>3, <1>4, <1>5, <1>6, <1>7, <1>8 DEF Next, Executor

\* A record pushed to the shared array and appended again is there twice.
LEMMA AppendToShared ==
  ASSUME NEW h \in Seq(Records), NEW r \in Records
  PROVE  DuplicatesOne(Append(Append(h, r), r), Append(h, r))
<1> DEFINE n == Len(h)
<1>1. /\ n \in Nat
      /\ Len(Append(h, r)) = n + 1
      /\ Len(Append(Append(h, r), r)) = n + 2
      /\ Append(h, r)[n + 1] = r
      /\ Append(Append(h, r), r)[n + 2] = r
      /\ \A i \in 1..(n + 1) : Append(Append(h, r), r)[i] = Append(h, r)[i]
  OBVIOUS
<1>2. n + 1 \in 1..Len(Append(h, r))
  BY <1>1
<1>3. \A i \in (n + 1)..Len(Append(h, r)) : i = n + 1 /\ i + 1 = n + 2
  BY <1>1
<1> QED BY <1>1, <1>2, <1>3 DEF DuplicatesOne

\* What it takes to show that one record is there twice.
LEMMA DuplicatesAt ==
  ASSUME NEW b, NEW a, NEW p \in 1..Len(a),
         Len(b) = Len(a) + 1,
         \A i \in 1..p : b[i] = a[i],
         \A i \in p..Len(a) : b[i + 1] = a[i]
  PROVE  DuplicatesOne(b, a)
BY DEF DuplicatesOne

\* Once the entry has its own array, both grow by the same record.
LEMMA AppendToOwn ==
  ASSUME NEW h \in Seq(Records), NEW own \in Seq(Records), NEW r \in Records,
         DuplicatesOne(own, h),
         NEW hr, hr = Append(h, r), NEW ownr, ownr = Append(own, r)
  PROVE  DuplicatesOne(ownr, hr)
<1> DEFINE n == Len(h)
<1>1. n \in Nat /\ Len(own) = n + 1
  BY DEF DuplicatesOne
<1>2. /\ Len(hr) = n + 1
      /\ hr[n + 1] = r
      /\ \A i \in 1..n : hr[i] = h[i]
  OBVIOUS
<1>3. /\ Len(ownr) = Len(own) + 1
      /\ ownr[Len(own) + 1] = r
      /\ \A i \in 1..Len(own) : ownr[i] = own[i]
  OBVIOUS
<1>4. PICK k \in 1..n : /\ \A i \in 1..k : own[i] = h[i]
                       /\ \A i \in k..n : own[i + 1] = h[i]
  BY DEF DuplicatesOne
<1> HIDE DEF n
<1>5. ASSUME NEW i \in 1..k
      PROVE  ownr[i] = hr[i]
  <2>1. i \in 1..n /\ i \in 1..(n + 1)
    BY <1>1
  <2> QED BY <1>1, <1>2, <1>3, <1>4, <2>1
<1>6. ASSUME NEW i \in k..(n + 1)
      PROVE  ownr[i + 1] = hr[i]
  <2>1. CASE i = n + 1
    BY <1>1, <1>2, <1>3, <2>1
  <2>2. CASE i # n + 1
    <3>1. i \in k..n /\ i \in 1..n /\ i + 1 \in 1..(n + 1)
      BY <1>1, <2>2
    <3> QED BY <1>1, <1>2, <1>3, <1>4, <3>1
  <2> QED BY <2>1, <2>2
<1>7. k \in 1..(n + 1)
  BY <1>1
<1>8. Len(ownr) = Len(hr) + 1
  BY <1>1, <1>2, <1>3
<1>9. k \in 1..Len(hr) /\ \A i \in k..Len(hr) : ownr[i + 1] = hr[i]
  BY <1>2, <1>6, <1>7
<1>10. \A i \in 1..k : ownr[i] = hr[i]
  BY <1>5
<1> QED BY ZenonT(30), <1>8, <1>9, <1>10, DuplicatesAt

LEMMA StoreStep == IInv /\ [Next]_vars => StoreFollowsExecution'
<1> SUFFICES ASSUME IInv, [Next]_vars PROVE StoreFollowsExecution'
  OBVIOUS
<1> USE DEF IInv, StoreFollowsExecution, execVars
<1>1. CASE RecordNode
  <2>1. /\ history \in Seq(Records) /\ record \in Records
        /\ stored.own \in Seq(Records) /\ stored.shared \in BOOLEAN
        /\ history' = Append(history, record) /\ status' = status
        /\ stored' = Appended(stored, history', record)
    BY <1>1, SettledRecord DEF TypeOK, RecordNode
  <2>2. CASE stored = NoEntry
    BY <2>1, <2>2 DEF Appended
  <2>3. CASE stored # NoEntry /\ stored.shared
    <3>1. /\ stored'.own = Append(history', record)
          /\ stored'.status = stored.status
      BY <2>1, <2>3 DEF Appended, StoredHistory, TypeOK
    <3> QED BY <2>1, <2>3, <3>1, AppendToShared
  <2>4. CASE stored # NoEntry /\ ~ stored.shared
    <3>1. /\ stored'.own = Append(stored.own, record)
          /\ stored'.status = stored.status
      BY <2>1, <2>4 DEF Appended, StoredHistory, TypeOK
    <3>2. DuplicatesOne(stored.own, history)
      BY <2>4
    <3>3. DuplicatesOne(stored'.own, history')
      BY <2>1, <3>1, <3>2, AppendToOwn
    <3> QED BY <2>1, <2>4, <3>1, <3>3
  <2> QED BY <2>2, <2>3, <2>4
<1>2. CASE Execute \/ RunSucceeds \/ RunFails \/ ExecutionTimeout
  BY <1>2 DEF Execute, RunSucceeds, RunFails, ExecutionTimeout, Settle, Saved
<1>3. CASE EmitExecutionCompleted
  BY <1>3 DEF EmitExecutionCompleted, Settle, Saved
<1>4. CASE PurgeHistory
  BY <1>4 DEF PurgeHistory
<1>5. CASE \/ Backoff \/ StartAttempt \/ EmitNodeCompleted \/ EmitNodeFailed
           \/ Advance \/ Handler \/ NodeTimeout \/ LateAnswer
           \/ EmitExecutionStarted \/ EmitExecutionFailed \/ UNCHANGED vars
  <2>1. UNCHANGED <<status, history, stored>>
    BY <1>5 DEF Backoff, StartAttempt, EmitNodeCompleted, EmitNodeFailed,
         Advance, Handler, AttemptSucceeds, HandlerRejects, NodeTimeout,
         LateAnswer, EmitExecutionStarted, EmitExecutionFailed, vars
  <2> QED BY <2>1
<1> QED BY <1>1, <1>2, <1>3, <1>4, <1>5 DEF Next, Runner, Executor

LEMMA CallStep == IInv /\ [Next]_vars => CallInv'
<1> SUFFICES ASSUME IInv, [Next]_vars, NEW c \in inflight'
             PROVE  CallOK(c)'
  BY DEF CallInv
<1> USE DEF IInv, execVars, nodeVars
<1>1. /\ attempt \in Nat /\ Visit \in Nat /\ inflight \subseteq Calls
      /\ MaxAttempts \in [Nodes -> Nat]
  BY EngineAssumption DEF TypeOK, Visit
<1>2. c \in inflight => CallOK(c) /\ c \in Calls
  BY <1>1 DEF CallInv
<1>3. history' = history => Visit' = Visit
  BY DEF Visit
<1>4. history' = history /\ current' = current /\ attempt' = attempt =>
        LiveCall' = LiveCall
  BY DEF LiveCall, Visit
<1>5. CASE Backoff
  BY <1>2, <1>3, <1>4, <1>5 DEF Backoff, RunnerThrows, CallOK, InNode
<1>6. CASE StartAttempt
  <2>1. /\ current \in Nodes /\ attempt \in 1..MaxAttempts[current]
    BY <1>1, <1>6 DEF StartAttempt, RunnerInv, InNode
  <2>2. UNCHANGED <<history, current, attempt>>
    BY <1>6 DEF StartAttempt, RunnerThrows
  <2>3. CASE c \in inflight
    BY <1>2, <1>3, <1>4, <1>6, <2>2, <2>3
       DEF StartAttempt, RunnerThrows, CallOK, InNode
  <2>4. CASE c \notin inflight
    <3>1. c = LiveCall /\ rpc' = "executing"
      BY <1>6, <2>4 DEF StartAttempt
    <3>2. c.visit = Visit /\ c.attempt = attempt /\ c.node = current
      BY <3>1 DEF LiveCall
    <3> QED BY <1>1, <1>3, <1>4, <2>1, <2>2, <3>1, <3>2 DEF CallOK
  <2> QED BY <2>3, <2>4
<1>7. CASE AttemptSucceeds
  BY <1>2, <1>3, <1>7 DEF AttemptSucceeds, CallOK, InNode
<1>8. CASE HandlerRejects
  <2>1. c \in inflight /\ c # LiveCall
    BY <1>8 DEF HandlerRejects
  <2>2. /\ \/ rpc' = "failing" /\ attempt' = attempt
           \/ rpc' = "retrying" /\ attempt' = attempt + 1
        /\ Visit' = Visit /\ rpc = "executing"
    BY <1>3, <1>8 DEF HandlerRejects, AttemptFailed, Catch
  <2> QED BY <1>1, <1>2, <2>1, <2>2 DEF CallOK, InNode, Calls, LiveCall
<1>9. CASE NodeTimeout
  <2>1. c \in inflight /\ (c = LiveCall => c.node \in TimedNodes)
    BY <1>9 DEF NodeTimeout, LiveCall
  <2>2. /\ \/ rpc' = "failing" /\ attempt' = attempt
           \/ rpc' = "retrying" /\ attempt' = attempt + 1
        /\ Visit' = Visit /\ rpc = "executing"
    BY <1>3, <1>9 DEF NodeTimeout, AttemptFailed, Catch
  <2> QED BY <1>1, <1>2, <2>1, <2>2 DEF CallOK, InNode, Calls
<1>10. CASE LateAnswer
  BY <1>2, <1>3, <1>4, <1>10 DEF LateAnswer, CallOK, InNode
<1>11. CASE EmitNodeCompleted
  <2>1. /\ \/ rpc' \in {"settled", "failing"} /\ attempt' = attempt
           \/ rpc' = "retrying" /\ attempt' = attempt + 1
        /\ Visit' = Visit /\ rpc = "completing" /\ c \in inflight
    BY <1>3, <1>11 DEF EmitNodeCompleted, AttemptFailed, Catch
  <2> QED BY <1>1, <1>2, <2>1 DEF CallOK, InNode, Calls
<1>12. CASE EmitNodeFailed
  BY <1>2, <1>3, <1>4, <1>12 DEF EmitNodeFailed, RunnerThrows, CallOK, InNode
<1>13. CASE RecordNode
  <2>1. Visit' = Visit + 1
    <3>1. history' = Append(history, record) /\ history \in Seq(Records)
          /\ record \in Records
      BY <1>13, SettledRecord DEF RecordNode, TypeOK
    <3> QED BY <3>1 DEF Visit
  <2>2. c \in inflight /\ rpc = "settled" /\ rpc' = "recorded"
    BY <1>13 DEF RecordNode
  <2> QED BY <1>1, <1>2, <2>1, <2>2 DEF CallOK, InNode, Calls
<1>14. CASE Advance
  <2>1. /\ c \in inflight /\ rpc = "recorded" /\ Visit' = Visit
        /\ rpc' \in {"threw", "done", "starting", "settled"}
    BY <1>3, <1>14 DEF Advance, EnterNode
  <2> QED BY <1>1, <1>2, <2>1 DEF CallOK, Calls
<1>15. CASE EmitExecutionStarted
  BY <1>15 DEF EmitExecutionStarted, ExecuteInv, RunnerInv
<1>16. CASE Execute \/ RunSucceeds \/ RunFails \/ EmitExecutionCompleted
            \/ EmitExecutionFailed \/ ExecutionTimeout \/ PurgeHistory
            \/ UNCHANGED vars
  <2>1. UNCHANGED <<current, history, rpc, nodeVars, inflight>>
    BY <1>16 DEF Execute, RunSucceeds, RunFails, EmitExecutionCompleted,
         EmitExecutionFailed, ExecutionTimeout, PurgeHistory, vars
  <2> QED BY <1>2, <1>3, <1>4, <2>1 DEF CallOK, InNode
<1> QED
  BY <1>5, <1>6, <1>7, <1>8, <1>9, <1>10, <1>11, <1>12, <1>13, <1>14, <1>15,
     <1>16
     DEF Next, Runner, Handler, Executor

-----------------------------------------------------------------------------
(***************************************************************************)
(* Theorems.                                                               *)
(***************************************************************************)
\* The inductive invariant holds in every reachable state.
THEOREM Invariance == Spec => []IInv
<1>1. IInv /\ [Next]_vars => IInv'
  BY TypeStep, HistoryStep, RunnerStep, ExecuteStep, StoreStep, CallStep
     DEF IInv
<1> QED BY InitInv, <1>1, PTL DEF Spec

\* The type invariant of one execution, for every workflow.
THEOREM TypeCorrect == Spec => []TypeOK
<1>1. IInv => TypeOK
  BY DEF IInv
<1> QED BY Invariance, <1>1, PTL

\* nodeHistory is a walk of the graph with bounded attempts, abandoned
\* runners of timed-out executions included.
THEOREM HistoryCorrect == Spec => []HistoryIsWalk
<1>1. IInv => HistoryIsWalk
  BY DEF IInv
<1> QED BY Invariance, <1>1, PTL

\* A status handed to the caller is what the walk says.
THEOREM StatusCorrect == Spec => []StatusIsJustified
<1>1. IInv => StatusIsJustified
  BY DEF IInv, ExecuteInv, RunnerInv, StatusIsJustified, Pos, IsStuck
<1> QED BY Invariance, <1>1, PTL

\* Nothing of a succeeded or failed execution is still running nodes.
THEOREM RunnerCorrect == Spec => []OnlyTimeoutAbandonsRunner
<1>1. IInv => OnlyTimeoutAbandonsRunner
  BY DEF IInv, ExecuteInv, OnlyTimeoutAbandonsRunner
<1> QED BY Invariance, <1>1, PTL

\* Overlapping handler calls are the work of node timers only.
THEOREM CallsCorrect == Spec => []UntimedCallsNeverOverlap
<1>1. IInv => UntimedCallsNeverOverlap
  BY DEF IInv, CallInv, CallOK, UntimedCallsNeverOverlap
<1> QED BY Invariance, <1>1, PTL

\* A handler is called at most as often as its policy allows, and never
\* twice for one attempt.
THEOREM AttemptsCorrect == Spec => []AttemptsAreBounded
<1>1. IInv => AttemptsAreBounded
  <2> SUFFICES ASSUME IInv PROVE AttemptsAreBounded
    OBVIOUS
  <2>1. ASSUME rpc = "starting", LiveCall \in inflight
        PROVE  FALSE
    <3>1. CallOK(LiveCall) /\ attempt \in Nat
      BY <2>1 DEF IInv, CallInv, TypeOK
    <3>2. LiveCall.visit = Visit /\ LiveCall.attempt = attempt
      BY DEF LiveCall
    <3> QED BY <2>1, <3>1, <3>2 DEF CallOK
  <2> QED BY <2>1 DEF IInv, CallInv, CallOK, AttemptsAreBounded
<1> QED BY Invariance, <1>1, PTL

\* What the timers leave at work stays within bounds.
THEOREM AbandonedWorkCorrect == Spec => []AbandonedWorkIsBounded
<1>1. OnlyTimeoutAbandonsRunner /\ UntimedCallsNeverOverlap
        /\ AttemptsAreBounded => AbandonedWorkIsBounded
  BY DEF AbandonedWorkIsBounded
<1> QED BY RunnerCorrect, CallsCorrect, AttemptsCorrect, <1>1, PTL

\* The stored entry has the present status and the whole history.
THEOREM StoreCorrect == Spec => []StoreFollowsExecution
<1>1. IInv => StoreFollowsExecution
  BY DEF IInv
<1> QED BY Invariance, <1>1, PTL

\* Every step of the engine is a step of the walk, or leaves it alone.
LEMMA StepSimulation == IInv /\ [Next]_vars => [Run!Next]_(Run!vars)
<1> SUFFICES ASSUME IInv, [Next]_vars
             PROVE  Run!Next \/ UNCHANGED <<status, history>>
  BY DEF Run!vars
<1> USE DEF IInv, execVars
<1>1. CASE RecordNode
  <2>1. status \in {"running", "timed_out"}
    <3>1. rpc = "settled" /\ status \in Statuses
      BY <1>1 DEF RecordNode, TypeOK
    <3> QED BY <3>1 DEF ExecuteInv, Statuses
  <2>2. Pos \in Nodes
    BY <1>1 DEF RecordNode, RunnerInv, InNode
  <2>3. history' = Append(history, record) /\ status' = status
    BY <1>1 DEF RecordNode
  <2>4. Run!Visit
    BY <1>1, <2>1, <2>2, <2>3, SettledRecord DEF Run!Visit, Pos, IsStuck
  <2> QED BY <2>4 DEF Run!Next
<1>2. CASE Execute
  BY <1>2 DEF Execute, Settle, ExecuteInv, Run!Next, Run!Start
<1>3. CASE RunSucceeds
  BY <1>3 DEF RunSucceeds, Settle, ExecuteInv, RunnerInv, Pos, IsStuck,
              Run!Next, Run!Succeed
<1>4. CASE RunFails
  BY <1>4 DEF RunFails, Settle, ExecuteInv, RunnerInv, IsStuck,
              Run!Next, Run!Fail
<1>5. CASE EmitExecutionCompleted
  BY <1>5 DEF EmitExecutionCompleted, Settle, ExecuteInv, Run!Next, Run!Fail
<1>6. CASE ExecutionTimeout
  BY <1>6 DEF ExecutionTimeout, Racing, Settle, ExecuteInv, Run!Next,
              Run!TimeOut
<1>7. CASE \/ Backoff \/ StartAttempt \/ EmitNodeCompleted \/ EmitNodeFailed
           \/ Advance \/ Handler \/ NodeTimeout \/ LateAnswer \/ PurgeHistory
           \/ EmitExecutionStarted \/ EmitExecutionFailed \/ UNCHANGED vars
  BY <1>7 DEF Backoff, StartAttempt, EmitNodeCompleted, EmitNodeFailed,
       Advance, Handler, AttemptSucceeds, HandlerRejects, NodeTimeout,
       LateAnswer, EmitExecutionStarted, EmitExecutionFailed, PurgeHistory,
       vars
<1> QED BY <1>1, <1>2, <1>3, <1>4, <1>5, <1>6, <1>7 DEF Next, Runner, Executor

\* The engine implements the walk of WorkflowRun.
THEOREM Refinement == Spec => RefinesRun
<1>1. Init => Run!Init
  BY DEF Init, Run!Init
<1> QED
  BY <1>1, Invariance, StepSimulation, PTL DEF Spec, RefinesRun, Run!Spec

-----------------------------------------------------------------------------
(***************************************************************************)
(* Definitions and where their execution goes.                             *)
(***************************************************************************)
Frames(A) == [at : A, visited : SUBSET A, back : BOOLEAN, left : Int]

\* A definition has finitely many nodes.
WellFormed(d) == IsFiniteSet(NodeIds(d))

\* Where an execution of d may be: at what the validator reaches, or at nothing.
Known(d) == IF Exists(d, d.entry) THEN Reachable(d) \cup {NoRef} ELSE {d.entry}

\* Nothing runs before there is a definition; the threads of an execution are
\* where the validator may go, and at nodes there are if it was asked.
DefinitionsInv ==
  /\ WellFormed(draft) /\ WellFormed(built) /\ checked \in BOOLEAN
  /\ Building => frames = <<>> /\ ran = {} /\ outcome = "none"
  /\ frames \in Seq(Frames(Known(built)))
  /\ Running => frames # <<>>
  /\ ran \subseteq Reachable(built)
  /\ checked => /\ Accepted(built) /\ outcome # "missing"
                /\ frames \in Seq(Frames(NodeIds(built) \ {NoRef}))

\* A set that is written out is finite, and nodes written as rows have the
\* ids of the rows.
LEMMA FourteenAreFinite ==
  ASSUME NEW a, NEW b, NEW c, NEW d, NEW e, NEW f, NEW g,
         NEW h, NEW i, NEW j, NEW k, NEW l, NEW m, NEW n
  PROVE  IsFiniteSet({a, b, c, d, e, f, g, h, i, j, k, l, m, n})
<1> DEFINE T == {a, b, c, d, e, f, g, h, i, j, k, l, m, n}
           s == <<a, b, c, d, e, f, g, h, i, j, k, l, m, n>>
<1>1. s \in [1..14 -> T]
  OBVIOUS
<1>2. \A t \in T : \E x \in 1..14 : s[x] = t
  OBVIOUS
<1>3. s \in Surjection(1..14, T)
  BY <1>1, <1>2 DEF Surjection
<1>4. 1 \in Int /\ 14 \in Int
  OBVIOUS
<1>5. IsFiniteSet(1..14)
  BY ONLY <1>4, FS_Interval
<1> QED BY <1>3, <1>5, FS_Surjection

LEMMA ByKeyFacts ==
  ASSUME NEW rows, IsFiniteSet(rows)
  PROVE  IsFiniteSet(DOMAIN ByKey(rows))
<1> DEFINE T == {r[1] : r \in rows}
           f == [r \in rows |-> r[1]]
<1>1. DOMAIN ByKey(rows) = T
  BY DEF ByKey
<1>2. f \in Surjection(rows, T)
  BY DEF Surjection
<1> QED BY <1>1, <1>2, FS_Surjection

LEMMA FourteenRows ==
  ASSUME NEW a, NEW b, NEW c, NEW d, NEW e, NEW f, NEW g,
         NEW h, NEW i, NEW j, NEW k, NEW l, NEW m, NEW n
  PROVE  IsFiniteSet(DOMAIN ByKey({a, b, c, d, e, f, g, h, i, j, k, l, m, n}))
BY FourteenAreFinite, ByKeyFacts

LEMMA TwelveRows ==
  ASSUME NEW a, NEW b, NEW c, NEW d, NEW e, NEW f,
         NEW g, NEW h, NEW i, NEW j, NEW k, NEW l
  PROVE  IsFiniteSet(DOMAIN ByKey({a, b, c, d, e, f, g, h, i, j, k, l}))
<1>1. {a, b, c, d, e, f, g, h, i, j, k, l}
        = {a, b, c, d, e, f, g, h, i, j, k, l, a, a}
  OBVIOUS
<1> QED BY <1>1, FourteenRows

LEMMA ElevenRows ==
  ASSUME NEW a, NEW b, NEW c, NEW d, NEW e, NEW f,
         NEW g, NEW h, NEW i, NEW j, NEW k
  PROVE  IsFiniteSet(DOMAIN ByKey({a, b, c, d, e, f, g, h, i, j, k}))
<1>1. {a, b, c, d, e, f, g, h, i, j, k}
        = {a, b, c, d, e, f, g, h, i, j, k, a, a, a}
  OBVIOUS
<1> QED BY <1>1, FourteenRows

LEMMA TenRows ==
  ASSUME NEW a, NEW b, NEW c, NEW d, NEW e,
         NEW f, NEW g, NEW h, NEW i, NEW j
  PROVE  IsFiniteSet(DOMAIN ByKey({a, b, c, d, e, f, g, h, i, j}))
<1>1. {a, b, c, d, e, f, g, h, i, j}
        = {a, b, c, d, e, f, g, h, i, j, a, a, a, a}
  OBVIOUS
<1> QED BY <1>1, FourteenRows

\* The definitions the package ships are as those that are built or parsed.
LEMMA TemplatesFacts ==
  ASSUME NEW d \in Templates
  PROVE  WellFormed(d)
<1>1. WellFormed(LeadNurture)
  BY ElevenRows DEF LeadNurture, Definition, WellFormed, NodeIds
<1>2. WellFormed(OrderFulfillment)
  BY FourteenRows DEF OrderFulfillment, Definition, WellFormed, NodeIds
<1>3. WellFormed(SupportEscalation)
  BY TwelveRows DEF SupportEscalation, Definition, WellFormed, NodeIds
<1>4. WellFormed(Onboarding)
  BY FourteenRows DEF Onboarding, Definition, WellFormed, NodeIds
<1>5. WellFormed(Reporting)
  BY ElevenRows DEF Reporting, Definition, WellFormed, NodeIds
<1>6. WellFormed(ChurnPrevention)
  BY TenRows DEF ChurnPrevention, Definition, WellFormed, NodeIds
<1> QED BY <1>1, <1>2, <1>3, <1>4, <1>5, <1>6 DEF Templates

-----------------------------------------------------------------------------
\* Numbers have a least one.
LEMMA LeastNumber ==
  ASSUME NEW T, T \subseteq Nat, T # {}
  PROVE  \E x \in T : \A y \in T : x <= y
<1>1. PICK x \in T : \A y \in T : ~ (<<y, x>> \in OpToRel(<, Nat))
  BY WFMin, NatLessThanWellFounded
<1>2. \A y \in T : ~ (y < x)
  BY <1>1 DEF OpToRel
<1> QED BY <1>2

\* What holds of 0, and of the next number if of one, holds up to any bound.
LEMMA UpTo ==
  ASSUME NEW N \in Nat, NEW S, 0 \in S, \A i \in 1..N : i - 1 \in S => i \in S
  PROVE  \A i \in 0..N : i \in S
<1> SUFFICES ASSUME NEW k \in 0..N, k \notin S
             PROVE  FALSE
  OBVIOUS
<1> DEFINE T == {i \in 0..N : i \notin S}
<1>0. T \subseteq Nat /\ T # {}
  OBVIOUS
<1>1. PICK x \in T : \A y \in T : x <= y
  BY <1>0, LeastNumber
<1>2. x \in 1..N /\ x - 1 \in 0..N
  BY <1>1
<1>3. x - 1 \in S
  BY <1>1, <1>2
<1> QED BY <1>1, <1>2, <1>3

\* The rounds of a queue: where it begins, and what each round adds.
LEMMA RoundsFacts ==
  ASSUME NEW d, WellFormed(d), NEW A, NEW succ
  PROVE  LET N == Cardinality(NodeIds(d))
             R == Rounds(d, A, succ)
         IN  /\ N \in Nat
             /\ R[0] = A
             /\ \A i \in 1..N :
                  R[i] = R[i - 1] \cup UNION {succ[n] : n \in R[i - 1] \cap NodeIds(d)}
<1> DEFINE N == Cardinality(NodeIds(d))
           From(S) == S \cup UNION {succ[n] : n \in S \cap NodeIds(d)}
           Is(f, i) == f[0] = A /\ \A j \in 1..i : f[j] = From(f[j - 1])
           S == {i \in 0..N : \E f : Is(f, i)}
<1>1. N \in Nat
  BY FS_CardinalityType DEF WellFormed
<1> HIDE DEF From
<1>2. 0 \in S
  <2>1. Is([j \in 0..N |-> A], 0)
    BY <1>1
  <2>2. 0 \in 0..N
    BY <1>1
  <2> HIDE DEF Is
  <2> QED BY <2>1, <2>2
<1>3. ASSUME NEW i \in 1..N, i - 1 \in S
      PROVE  i \in S
  <2>1. PICK f : Is(f, i - 1)
    BY <1>3
  <2> DEFINE g == [j \in 0..N |-> IF j = i THEN From(f[i - 1]) ELSE f[j]]
  <2>2. Is(g, i)
    <3>1. g[0] = f[0]
      BY <1>1
    <3>2. ASSUME NEW j \in 1..i
          PROVE  g[j] = From(g[j - 1])
      <4>1. j \in 0..N /\ j - 1 \in 0..N /\ j - 1 # i /\ (j # i => j \in 1..(i - 1))
        BY <1>1
      <4>2. g[j - 1] = f[j - 1]
        BY <4>1
      <4>3. CASE j = i
        BY <4>1, <4>2, <4>3
      <4>4. CASE j # i
        <5>1. g[j] = f[j] /\ f[j] = From(f[j - 1])
          BY <2>1, <4>1, <4>4
        <5> QED BY <4>2, <5>1
      <4> QED BY <4>3, <4>4
    <3> QED BY <2>1, <3>1, <3>2
  <2>3. i \in 0..N
    BY <1>1
  <2> HIDE DEF Is, g
  <2> QED BY <2>2, <2>3
<1>4. N \in S
  <2> HIDE DEF S
  <2> QED BY <1>1, <1>2, <1>3, UpTo
<1>5. PICK f : Is(f, N)
  BY <1>4
<1> DEFINE Rec(r) == [i \in 0..N |->
                        IF i = 0 THEN A
                        ELSE r[i - 1] \cup UNION {succ[n] : n \in r[i - 1] \cap NodeIds(d)}]
           h == [i \in 0..N |-> f[i]]
<1>6. h = Rec(h)
  <2>1. ASSUME NEW i \in 0..N
        PROVE  h[i] = Rec(h)[i]
    <3>1. CASE i = 0
      BY <1>1, <1>5, <3>1
    <3>2. CASE i # 0
      <4>1. i \in 1..N /\ i - 1 \in 0..N
        BY <1>1, <3>2
      <4>2. h[i] = From(f[i - 1]) /\ h[i - 1] = f[i - 1]
        BY <1>5, <4>1
      <4>3. Rec(h)[i] = h[i - 1] \cup UNION {succ[n] : n \in h[i - 1] \cap NodeIds(d)}
        BY <4>1
      <4> QED BY <4>2, <4>3 DEF From
    <3> QED BY <3>1, <3>2
  <2> QED BY <2>1
<1>7. Rounds(d, A, succ) = CHOOSE r : r = Rec(r)
  BY DEF Rounds
<1>8. Rounds(d, A, succ) = Rec(Rounds(d, A, succ))
  <2> HIDE DEF Rec, h
  <2> QED BY <1>6, <1>7
<1> DEFINE R == Rounds(d, A, succ)
<1>9. /\ R[0] = A
      /\ \A i \in 1..N :
           R[i] = R[i - 1] \cup UNION {succ[n] : n \in R[i - 1] \cap NodeIds(d)}
  <2>1. R = Rec(R)
    BY <1>8
  <2> HIDE DEF R
  <2>2. R[0] = A
    BY <1>1, <2>1
  <2>3. ASSUME NEW i \in 1..N
        PROVE  R[i] = R[i - 1] \cup UNION {succ[n] : n \in R[i - 1] \cap NodeIds(d)}
    <3>1. i \in 0..N /\ i # 0
      BY <1>1
    <3> QED BY <2>1, <3>1
  <2> QED BY <2>2, <2>3 DEF R
<1> QED BY <1>1, <1>9

\* Of an id that is no node nothing is reached, and of a node what it refers to.
LEMMA ClosedRounds ==
  ASSUME NEW d, NEW succ, NEW S, NEW T,
         T = S \cup UNION {succ[n] : n \in S \cap NodeIds(d)},
         T \cap NodeIds(d) = S \cap NodeIds(d)
  PROVE  \A n \in T \cap NodeIds(d) : succ[n] \subseteq T
OBVIOUS

\* After as many rounds as there are nodes the queue has had everything: each
\* round before it is done has had one more node.
LEMMA ClosureFacts ==
  ASSUME NEW d, WellFormed(d), NEW A, NEW succ
  PROVE  LET C == Closure(d, A, succ)
         IN  /\ A \subseteq C
             /\ \A n \in C \cap NodeIds(d) : succ[n] \subseteq C
<1> DEFINE N == Cardinality(NodeIds(d))
           R == Rounds(d, A, succ)
           Had(i) == R[i] \cap NodeIds(d)
           Done(i) == \A n \in Had(i) : succ[n] \subseteq R[i]
           S == {i \in 0..N : /\ A \subseteq R[i]
                              /\ Done(i) \/ Cardinality(Had(i)) >= i + 1}
<1>1. /\ N \in Nat /\ R[0] = A
      /\ \A i \in 1..N : R[i] = R[i - 1] \cup UNION {succ[n] : n \in Had(i - 1)}
  BY RoundsFacts
<1>2. IsFiniteSet(NodeIds(d))
  BY DEF WellFormed
<1> HIDE DEF N, R
<1>3. \A i : /\ IsFiniteSet(Had(i)) /\ Cardinality(Had(i)) \in Nat
  BY <1>2, FS_Subset, FS_CardinalityType
<1>4. 0 \in S
  <2>1. Done(0) \/ Cardinality(Had(0)) >= 0 + 1
    <3>1. Cardinality(Had(0)) = 0 => Had(0) = {}
      BY <1>3, FS_EmptySet
    <3>2. Had(0) = {} => Done(0)
      OBVIOUS
    <3>3. Cardinality(Had(0)) \in Nat
      BY <1>3
    <3> HIDE DEF Had, Done
    <3> QED BY <3>1, <3>2, <3>3
  <2>2. A \subseteq R[0] /\ 0 \in 0..N
    BY <1>1
  <2> HIDE DEF Had, Done
  <2> QED BY <2>1, <2>2
<1>5. ASSUME NEW i \in 1..N, i - 1 \in S
      PROVE  i \in S
  <2>1. R[i] = R[i - 1] \cup UNION {succ[n] : n \in Had(i - 1)}
    BY <1>1
  <2>2. A \subseteq R[i] /\ i \in 0..N
    BY <1>1, <1>5, <2>1
  <2>3. CASE Done(i - 1)
    <3>1. R[i] = R[i - 1]
      BY <2>1, <2>3
    <3>2. Done(i)
      BY <2>3, <3>1
    <3> HIDE DEF Had, Done
    <3> QED BY <2>2, <3>2
  <2>4. CASE Had(i) = Had(i - 1)
    <3>1. Done(i)
      BY <2>1, <2>4, ClosedRounds
    <3> HIDE DEF Had, Done
    <3> QED BY <2>2, <3>1
  <2>5. CASE ~ Done(i - 1) /\ Had(i) # Had(i - 1)
    <3>1. Had(i - 1) \subseteq Had(i)
      BY <2>1
    <3>2. Cardinality(Had(i - 1)) <= Cardinality(Had(i))
          /\ Cardinality(Had(i - 1)) # Cardinality(Had(i))
      BY <1>3, <2>5, <3>1, FS_Subset
    <3>3. Cardinality(Had(i - 1)) >= (i - 1) + 1
      BY <1>5, <2>5
    <3>4. Cardinality(Had(i)) \in Nat /\ Cardinality(Had(i - 1)) \in Nat
      BY <1>3
    <3> HIDE DEF Had, Done
    <3>5. Cardinality(Had(i)) >= i + 1
      BY <1>1, <3>2, <3>3, <3>4
    <3> QED BY <2>2, <3>5
  <2> QED BY <2>3, <2>4, <2>5
<1>6. N \in S
  <2> HIDE DEF S
  <2> QED BY <1>1, <1>4, <1>5, UpTo
<1>7. Cardinality(Had(N)) <= N
  BY <1>2, FS_Subset DEF N
<1>8. A \subseteq R[N] /\ Done(N)
  <2>1. Cardinality(Had(N)) \in Nat
    BY <1>3
  <2>2. ~ (Cardinality(Had(N)) >= N + 1)
    BY <1>1, <1>7, <2>1
  <2> QED BY <1>6, <2>2
<1>9. Closure(d, A, succ) = R[N]
  BY DEF Closure, R, N
<1> QED BY <1>8, <1>9

\* And it has had nothing else: what has those ids and their successors has all.
LEMMA ClosureLeast ==
  ASSUME NEW d, WellFormed(d), NEW A, NEW succ, NEW X, A \subseteq X,
         \A n \in X \cap NodeIds(d) : succ[n] \subseteq X
  PROVE  Closure(d, A, succ) \subseteq X
<1> DEFINE N == Cardinality(NodeIds(d))
           R == Rounds(d, A, succ)
           S == {i \in 0..N : R[i] \subseteq X}
<1>1. /\ N \in Nat /\ R[0] = A
      /\ \A i \in 1..N :
           R[i] = R[i - 1] \cup UNION {succ[n] : n \in R[i - 1] \cap NodeIds(d)}
  BY RoundsFacts
<1>2. Closure(d, A, succ) = R[N]
  BY DEF Closure
<1> HIDE DEF N, R
<1>3. 0 \in S
  BY <1>1
<1>4. ASSUME NEW i \in 1..N, i - 1 \in S
      PROVE  i \in S
  BY <1>1, <1>4
<1>5. N \in S
  <2> HIDE DEF S
  <2> QED BY <1>1, <1>3, <1>4, UpTo
<1> QED BY <1>2, <1>5

\* What the validator reaches.
LEMMA ReachableFacts ==
  ASSUME NEW d, WellFormed(d), Exists(d, d.entry)
  PROVE  /\ d.entry \in Reachable(d)
         /\ \A n \in Reachable(d) : Successors(d, n) \subseteq Reachable(d)
<1> DEFINE A == {d.entry}
           succ == Following(d)
<1> HIDE DEF A, succ
<1>1. Reachable(d) = Closure(d, A, succ)
  BY DEF Reachable, A, succ
<1>2. /\ A \subseteq Reachable(d)
      /\ \A n \in Reachable(d) \cap NodeIds(d) : succ[n] \subseteq Reachable(d)
  BY <1>1, ClosureFacts
<1>3. ASSUME NEW n \in Reachable(d)
      PROVE  Successors(d, n) \subseteq Reachable(d)
  <2>1. CASE n \in NodeIds(d)
    BY <1>2, <2>1 DEF Following, succ
  <2>2. CASE n \notin NodeIds(d)
    BY <2>2 DEF Successors
  <2> QED BY <2>1, <2>2
<1> QED BY <1>2, <1>3 DEF A

LEMMA KnownFacts ==
  ASSUME NEW d, WellFormed(d)
  PROVE  /\ d.entry \in Known(d)
         /\ \A n \in Known(d) : Exists(d, n) =>
              /\ n \in Reachable(d)
              /\ Successors(d, n) \subseteq Known(d) /\ NoRef \in Known(d)
<1>1. CASE Exists(d, d.entry)
  BY <1>1, ReachableFacts DEF Known, WellFormed, Exists
<1>2. CASE ~ Exists(d, d.entry)
  BY <1>2 DEF Known
<1> QED BY <1>1, <1>2

\* What a node that is asked for goes to, is looked up.
LEMMA AcceptedFacts ==
  ASSUME NEW d, Accepted(d)
  PROVE  /\ Exists(d, d.entry)
         /\ \A n \in NodeIds(d) :
              /\ NodeErrors(d.nodes[n]) = {}
              /\ \A r \in RefsChecked(d.nodes[n]) : Exists(d, r)
BY DEF Accepted, Errors, TopLevelErrors

-----------------------------------------------------------------------------
\* The frames stay among the ids the thread goes to.
LEMMA FrameFacts ==
  ASSUME NEW A, NEW n \in A
  PROVE  Frame(n) \in Frames(A) /\ Frame(n).at = n
<1>1. MaxIterations \in Int
  BY DefinitionsAssumption
<1> QED BY <1>1 DEF Frame, Frames

LEMMA TopFacts ==
  ASSUME NEW A, frames \in Seq(Frames(A)), frames # <<>>
  PROVE  /\ Len(frames) \in Nat \ {0} /\ Len(frames) \in DOMAIN frames
         /\ Top \in Frames(A) /\ Top.at \in A
<1>1. Len(frames) \in Nat \ {0} /\ Len(frames) \in DOMAIN frames
  OBVIOUS
<1>2. Top \in Frames(A)
  BY <1>1 DEF Top
<1> QED BY <1>1, <1>2 DEF Frames

LEMMA GoesToFacts ==
  ASSUME NEW A, frames \in Seq(Frames(A)), frames # <<>>,
         NEW id, id = NoRef \/ id \in A, GoesTo(id)
  PROVE  /\ frames' \in Seq(Frames(A)) /\ frames' # <<>>
         /\ outcome' \in {outcome, "done", "cycle"}
<1> DEFINE n == Len(frames)
<1>1. /\ n \in Nat \ {0} /\ n \in DOMAIN frames /\ DOMAIN frames = 1..n
      /\ Top \in Frames(A) /\ \A i \in 1..n : frames[i] \in Frames(A)
  BY TopFacts
<1>2. CASE UNCHANGED frames /\ outcome' \in {outcome, "done", "cycle"}
  BY <1>2
<1>3. CASE ~ TopLevel /\ frames' = Popped /\ UNCHANGED outcome
  <2> DEFINE rest == SubSeq(frames, 1, n - 1)
  <2>1. n - 1 \in Nat \ {0} /\ n - 1 <= n
    BY <1>1, <1>3 DEF TopLevel
  <2>2. rest \in Seq(Frames(A)) /\ Len(rest) = n - 1
    BY <1>1, <2>1
  <2> HIDE DEF rest
  <2>3. Len(rest) \in DOMAIN rest /\ rest[Len(rest)] \in Frames(A)
    BY <2>1, <2>2
  <2> DEFINE f == [rest[Len(rest)] EXCEPT !.back = TRUE]
  <2>4. f \in Frames(A)
    BY <2>3 DEF Frames
  <2>5. frames' = [rest EXCEPT ![Len(rest)] = f]
    BY <1>3 DEF Popped, rest
  <2> HIDE DEF f
  <2>6. frames' \in Seq(Frames(A)) /\ Len(frames') = n - 1
    BY <2>1, <2>2, <2>4, <2>5
  <2> QED BY <1>3, <2>1, <2>6
<1>4. ASSUME id # NoRef, UNCHANGED outcome,
             frames' = [frames EXCEPT ![Len(frames)] =
                          [Frame(id) EXCEPT !.visited = IF TopLevel THEN {id}
                                                        ELSE Top.visited \cup {id}]]
      PROVE  /\ frames' \in Seq(Frames(A)) /\ frames' # <<>>
             /\ outcome' \in {outcome, "done", "cycle"}
  <2> DEFINE f == [Frame(id) EXCEPT !.visited = IF TopLevel THEN {id}
                                                ELSE Top.visited \cup {id}]
  <2>1. id \in A /\ Frame(id) \in Frames(A)
    BY <1>4, FrameFacts
  <2>2. Top.visited \subseteq A
    BY <1>1 DEF Frames
  <2>3. f \in Frames(A)
    BY <2>1, <2>2 DEF Frames
  <2>4. frames' = [frames EXCEPT ![n] = f]
    BY <1>4
  <2> HIDE DEF f
  <2>5. frames' \in Seq(Frames(A)) /\ Len(frames') = n
    BY <1>1, <2>3, <2>4
  <2> QED BY <1>1, <1>4, <2>5
<1> QED BY <1>2, <1>3, <1>4 DEF GoesTo

LEMMA EnterFacts ==
  ASSUME NEW A, frames \in Seq(Frames(A)), frames # <<>>, NEW id \in A, Enter(id)
  PROVE  /\ frames' \in Seq(Frames(A)) /\ frames' # <<>> /\ outcome' = outcome
<1> DEFINE n == Len(frames)
           f == [Top EXCEPT !.left = @ - 1]
           s == [frames EXCEPT ![n] = f]
<1>1. /\ n \in Nat \ {0} /\ n \in DOMAIN frames /\ DOMAIN frames = 1..n
      /\ Top \in Frames(A)
  BY TopFacts
<1>2. f \in Frames(A)
  BY <1>1 DEF Frames
<1>3. frames' = Append(s, Frame(id)) /\ outcome' = outcome
  BY DEF Enter, Top
<1> HIDE DEF f
<1>4. s \in Seq(Frames(A)) /\ Len(s) = n
  BY <1>1, <1>2
<1>5. Frame(id) \in Frames(A)
  BY FrameFacts
<1> HIDE DEF s
<1>6. Append(s, Frame(id)) \in Seq(Frames(A)) /\ Append(s, Frame(id)) # <<>>
  BY <1>4, <1>5
<1> QED BY <1>3, <1>6

\* Where a node may send the thread: what the validator follows, which is
\* what it looks up.
LEMMA StepsTo ==
  ASSUME Route \/ End \/ Iterate \/ Fork \/ Leave
  PROVE  /\ Running /\ Exists(built, Top.at) /\ UNCHANGED <<draft, built, checked>>
         /\ ran' = ran \/ ran' = ran \cup {Top.at}
         /\ \E id : \/ /\ GoesTo(id)
                       /\ id = NoRef \/ id \in Successors(built, Top.at)
                       /\ id = NoRef \/ id \in RefsChecked(Node)
                    \/ /\ Enter(id)
                       /\ id = NoRef \/ id \in Successors(built, Top.at)
                       /\ id \in RefsChecked(Node)
<1> DEFINE x == Node
           G(id) == /\ GoesTo(id)
                    /\ id = NoRef \/ id \in Successors(built, Top.at)
                    /\ id = NoRef \/ id \in RefsChecked(Node)
           E(id) == /\ Enter(id)
                    /\ id = NoRef \/ id \in Successors(built, Top.at)
                    /\ id \in RefsChecked(Node)
<1>1. /\ Works /\ Running /\ Exists(built, Top.at) /\ UNCHANGED <<draft, built, checked>>
      /\ ran' = ran \/ ran' = ran \cup {Top.at}
  BY DEF Route, End, Iterate, Fork, Leave, Works, Enter, Executed
<1>2. Successors(built, Top.at)
        = Range(x.branches) \cup Required(x) \cup Optional({x.next, x.onError, x.default})
  BY <1>1 DEF Successors, Node, Exists
<1>3. x.type # "trigger" => "config" \notin x.lacks \/ x.type = "end"
  BY <1>1 DEF Works
<1>4. CASE Route
  <2>1. PICK id \in Chooses(x) : GoesTo(id)
    BY <1>4 DEF Route
  <2>2. x.type \in {"trigger", "action", "condition"}
    BY <1>4 DEF Route
  <2>3. id = NoRef \/ id \in Successors(built, Top.at)
    BY <1>2, <2>1, <2>2 DEF Chooses, Optional
  <2>4. id = NoRef \/ id \in RefsChecked(x)
    BY <1>3, <2>1, <2>2 DEF Chooses, RefsChecked, Optional
  <2> QED BY <1>1, <2>1, <2>3, <2>4
<1>5. CASE End
  BY <1>1, <1>5 DEF End
<1>6. CASE Iterate
  <2>1. Enter(x.body) /\ x.type = "loop"
    BY <1>6 DEF Iterate
  <2>2. x.body = NoRef \/ x.body \in Successors(built, Top.at)
    BY <1>2, <2>1 DEF Required
  <2>3. x.body \in RefsChecked(x)
    BY <2>1 DEF RefsChecked
  <2> QED BY <1>1, <2>1, <2>2, <2>3
<1>7. CASE Fork
  <2>1. PICK id \in Range(x.branches) : Enter(id)
    BY <1>7 DEF Fork
  <2>2. x.type = "parallel"
    BY <1>7 DEF Fork
  <2>3. id \in RefsChecked(x)
    BY <2>1, <2>2 DEF RefsChecked
  <2> QED BY <1>1, <1>2, <2>1, <2>3
<1>8. CASE Leave
  <2>1. GoesTo(x.next) /\ x.type \in {"loop", "parallel"}
    BY <1>8 DEF Leave, BranchesOver
  <2>2. x.next = NoRef \/ x.next \in Successors(built, Top.at)
    BY <1>2 DEF Optional
  <2>3. x.next = NoRef \/ x.next \in RefsChecked(x)
    BY <2>1 DEF RefsChecked, Optional
  <2> QED BY <1>1, <2>1, <2>2, <2>3
<1> QED BY <1>4, <1>5, <1>6, <1>7, <1>8

LEMMA DefinitionsInitial == DefinitionsInit => DefinitionsInv
<1> SUFFICES ASSUME DefinitionsInit
             PROVE  DefinitionsInv
  OBVIOUS
<1>1. /\ draft = NoDefinition /\ built = NoDefinition /\ checked = FALSE
      /\ frames = <<>> /\ ran = {} /\ outcome = "none"
  BY DEF DefinitionsInit
<1>2. WellFormed(NoDefinition)
  <2>1. NodeIds(NoDefinition) = {}
    BY DEF NodeIds, NoDefinition, Definition
  <2> QED BY <2>1, FS_EmptySet DEF WellFormed
<1>3. <<>> \in Seq(Frames(Known(built)))
  OBVIOUS
<1> QED BY <1>1, <1>2, <1>3 DEF DefinitionsInv, Running

\* The builder's steps, before there is a definition.
LEMMA AddedStep ==
  ASSUME DefinitionsInv, NEW n \in BuilderIds, NEW x, Added(n, x)
  PROVE  DefinitionsInv'
<1>1. /\ Building /\ UNCHANGED <<built, checked, frames, ran, outcome>>
      /\ NodeIds(draft') = NodeIds(draft) \cup {n}
  BY DEF Added, Definition, NodeIds
<1>2. WellFormed(draft)'
  <2>1. IsFiniteSet(NodeIds(draft) \cup {n})
    BY FS_AddElement DEF DefinitionsInv, WellFormed
  <2>2. NodeIds(draft)' = NodeIds(draft) \cup {n}
    BY <1>1 DEF NodeIds
  <2> QED BY <2>1, <2>2 DEF WellFormed
<1> QED BY <1>1, <1>2 DEF DefinitionsInv, Building, Running, WellFormed, NodeIds, Known,
     Reachable, Rounds, Accepted, Exists

LEMMA SetEntryStep ==
  ASSUME DefinitionsInv, SetEntry
  PROVE  DefinitionsInv'
<1>1. /\ Building /\ UNCHANGED <<built, checked, frames, ran, outcome>>
      /\ NodeIds(draft') = NodeIds(draft)
  BY DEF SetEntry, Definition, NodeIds
<1>2. WellFormed(draft)'
  BY <1>1 DEF DefinitionsInv, WellFormed, NodeIds
<1> QED BY <1>1, <1>2 DEF DefinitionsInv, Building, Running, WellFormed, NodeIds, Known

\* A definition is passed on, as it is.
LEMMA ReturnedStep ==
  ASSUME DefinitionsInv, Building, NEW d, WellFormed(d),
         NEW validate \in BOOLEAN, Returned(d, validate)
  PROVE  DefinitionsInv'
<1>1. /\ validate => Accepted(d)
      /\ built' = d /\ checked' = validate /\ draft' = NoDefinition
      /\ UNCHANGED <<frames, ran, outcome>>
  BY DEF Returned
<1>2. frames = <<>> /\ ran = {} /\ outcome = "none"
  BY DEF DefinitionsInv
<1>3. WellFormed(NoDefinition)
  <2>1. NodeIds(NoDefinition) = {}
    BY DEF NodeIds, NoDefinition, Definition
  <2> QED BY <2>1, FS_EmptySet DEF WellFormed
<1>4. WellFormed(draft)' /\ WellFormed(built)'
  BY <1>1, <1>3 DEF WellFormed, NodeIds
<1>5. checked' => Accepted(built)'
  BY <1>1
<1> QED BY <1>1, <1>2, <1>4, <1>5 DEF DefinitionsInv, Running

LEMMA BeginStep ==
  ASSUME DefinitionsInv, Begin
  PROVE  DefinitionsInv'
<1>1. /\ ~ Building /\ outcome = "none" /\ frames' = <<Frame(built.entry)>>
      /\ outcome' = "running" /\ UNCHANGED <<draft, built, checked, ran>>
  BY DEF Begin
<1>2. frames' \in Seq(Frames(Known(built))) /\ frames' # <<>>
  <2>1. Frame(built.entry) \in Frames(Known(built))
    BY KnownFacts, FrameFacts DEF DefinitionsInv
  <2> QED BY <1>1, <2>1
<1>3. checked => frames' \in Seq(Frames(NodeIds(built) \ {NoRef}))
  <2> SUFFICES ASSUME checked
               PROVE  frames' \in Seq(Frames(NodeIds(built) \ {NoRef}))
    OBVIOUS
  <2>0. built.entry \in NodeIds(built) \ {NoRef}
    BY AcceptedFacts DEF DefinitionsInv, Exists
  <2>1. Frame(built.entry) \in Frames(NodeIds(built) \ {NoRef})
    BY <2>0, FrameFacts
  <2> QED BY <1>1, <2>1
<1> QED BY <1>1, <1>2, <1>3 DEF DefinitionsInv, Building

\* The thread goes on, into a subgraph or out of it.
LEMMA StepsStep ==
  ASSUME DefinitionsInv, Route \/ End \/ Iterate \/ Fork \/ Leave
  PROVE  DefinitionsInv'
<1>1. /\ Running /\ Exists(built, Top.at) /\ UNCHANGED <<draft, built, checked>>
      /\ ran' = ran \/ ran' = ran \cup {Top.at}
  BY StepsTo
<1>2. PICK id : \/ /\ GoesTo(id)
                   /\ id = NoRef \/ id \in Successors(built, Top.at)
                   /\ id = NoRef \/ id \in RefsChecked(Node)
                \/ /\ Enter(id)
                   /\ id = NoRef \/ id \in Successors(built, Top.at)
                   /\ id \in RefsChecked(Node)
  BY StepsTo
<1>3. frames \in Seq(Frames(Known(built))) /\ frames # <<>> /\ WellFormed(built)
      /\ outcome = "running"
  BY <1>1 DEF DefinitionsInv, Running
<1>4. Top.at \in Known(built)
  BY <1>3, TopFacts
<1>5. /\ Top.at \in Reachable(built) /\ NoRef \in Known(built)
      /\ Successors(built, Top.at) \subseteq Known(built)
  BY <1>1, <1>3, <1>4, KnownFacts
<1>6. id \in Known(built)
  BY <1>2, <1>5
<1>7. /\ frames' \in Seq(Frames(Known(built))) /\ frames' # <<>>
      /\ outcome' \in {outcome, "done", "cycle"}
  <2>1. CASE GoesTo(id)
    BY <1>3, <1>6, <2>1, GoesToFacts
  <2>2. CASE Enter(id)
    BY <1>3, <1>6, <2>2, EnterFacts
  <2> QED BY <1>2, <2>1, <2>2
<1>8. checked => frames' \in Seq(Frames(NodeIds(built) \ {NoRef}))
  <2> SUFFICES ASSUME checked
               PROVE  frames' \in Seq(Frames(NodeIds(built) \ {NoRef}))
    OBVIOUS
  <2>1. Accepted(built) /\ frames \in Seq(Frames(NodeIds(built) \ {NoRef}))
    BY DEF DefinitionsInv
  <2>2. \A r \in RefsChecked(Node) : r \in NodeIds(built) \ {NoRef}
    BY <1>1, <2>1, AcceptedFacts DEF Node, Exists
  <2>3. CASE GoesTo(id) /\ (id = NoRef \/ id \in RefsChecked(Node))
    BY <1>3, <2>1, <2>2, <2>3, GoesToFacts
  <2>4. CASE Enter(id) /\ id \in RefsChecked(Node)
    BY <1>3, <2>1, <2>2, <2>4, EnterFacts
  <2> QED BY <1>2, <2>3, <2>4
<1>9. ran' \subseteq Reachable(built)
  BY <1>1, <1>5 DEF DefinitionsInv
<1>10. ~ Building
  BY <1>3 DEF DefinitionsInv
<1> QED BY <1>1, <1>3, <1>7, <1>8, <1>9, <1>10 DEF DefinitionsInv, Building, WellFormed, NodeIds

LEMMA RunNothingStep ==
  ASSUME DefinitionsInv, RunNothing
  PROVE  DefinitionsInv'
<1>1. /\ Running /\ Top.at = NoRef /\ GoesTo(NoRef)
      /\ UNCHANGED <<draft, built, checked, ran>>
  BY DEF RunNothing
<1>2. /\ frames \in Seq(Frames(Known(built))) /\ frames # <<>> /\ ~ Building
      /\ outcome = "running"
  BY <1>1 DEF DefinitionsInv, Running
<1>3. /\ frames' \in Seq(Frames(Known(built))) /\ frames' # <<>>
      /\ outcome' \in {outcome, "done", "cycle"}
  BY <1>1, <1>2, GoesToFacts
<1>4. ~ checked
  <2> SUFFICES ASSUME checked
               PROVE  Top.at \in NodeIds(built) \ {NoRef}
    BY <1>1, <1>2 DEF DefinitionsInv
  <2> QED BY <1>2, TopFacts DEF DefinitionsInv
<1> QED BY <1>1, <1>2, <1>3, <1>4 DEF DefinitionsInv, Building, WellFormed, NodeIds

LEMMA EndsStep ==
  ASSUME DefinitionsInv, Missing \/ Throws
  PROVE  DefinitionsInv'
<1>1. /\ Running /\ UNCHANGED <<draft, built, checked, frames, ran>>
      /\ outcome' \in {"missing", "thrown"}
      /\ outcome' = "missing" => Top.at \notin NodeIds(built)
  BY DEF Missing, Throws, Ends
<1>2. ~ Building /\ frames # <<>>
  BY <1>1 DEF DefinitionsInv, Running
<1>3. checked => outcome' # "missing"
  <2> SUFFICES ASSUME checked
               PROVE  Top.at \in NodeIds(built) \ {NoRef}
    BY <1>1
  <2> QED BY <1>2, TopFacts DEF DefinitionsInv
<1>4. (WellFormed(draft) /\ WellFormed(built))'
  BY <1>1 DEF DefinitionsInv, WellFormed, NodeIds
<1> QED BY <1>1, <1>2, <1>3, <1>4 DEF DefinitionsInv, Building, Running

LEMMA DefinitionsStep ==
  DefinitionsInv /\ [DefinitionsNext]_definitionVars => DefinitionsInv'
<1> SUFFICES ASSUME DefinitionsInv, [DefinitionsNext]_definitionVars
             PROVE  DefinitionsInv'
  OBVIOUS
<1>1. CASE AddTrigger \/ AddNode
  <2>1. PICK n \in BuilderIds : \E x \in NodesFor(n) : Added(n, x)
    BY <1>1 DEF AddTrigger, AddNode
  <2> QED BY <2>1, AddedStep
<1>2. CASE SetEntry
  BY <1>2, SetEntryStep
<1>3. CASE Build
  <2>1. PICK validate \in BOOLEAN : Building /\ Returned(draft, validate)
    BY <1>3 DEF Build
  <2>2. WellFormed(draft)
    BY DEF DefinitionsInv
  <2> QED BY <2>1, <2>2, ReturnedStep
<1>4. CASE FromJson
  <2>1. PICK d \in Parsed : Building /\ Returned(d, TRUE)
    BY <1>4 DEF FromJson
  <2>2. WellFormed(d)
    BY DefinitionsAssumption DEF WellFormed, NodeIds
  <2> QED BY <2>1, <2>2, ReturnedStep
<1>5. CASE FromTemplate
  <2>1. PICK d \in Templates : Building /\ Returned(d, FALSE)
    BY <1>5 DEF FromTemplate
  <2>2. WellFormed(d)
    BY TemplatesFacts
  <2> QED BY <2>1, <2>2, ReturnedStep
<1>6. CASE Begin
  BY <1>6, BeginStep
<1>7. CASE Missing \/ Throws
  BY <1>7, EndsStep
<1>8. CASE Route \/ End \/ Iterate \/ Fork \/ Leave
  BY <1>8, StepsStep
<1>9. CASE RunNothing
  BY <1>9, RunNothingStep
<1>10. CASE UNCHANGED definitionVars
  <2>1. UNCHANGED <<draft, built, checked, frames, ran, outcome>>
    BY <1>10 DEF definitionVars
  <2>2. (WellFormed(draft) /\ WellFormed(built))'
    BY <2>1 DEF DefinitionsInv, WellFormed, NodeIds
  <2> QED BY <2>1, <2>2 DEF DefinitionsInv, Building, Running
<1> QED BY <1>1, <1>2, <1>3, <1>4, <1>5, <1>6, <1>7, <1>8, <1>9, <1>10
   DEF DefinitionsNext, Runs

\* The inductive invariant of a definition and its execution.
THEOREM DefinitionsInvariance == DefinitionsSpec => []DefinitionsInv
BY DefinitionsInitial, DefinitionsStep, PTL DEF DefinitionsSpec

\* What the validator accepts has no reference that an execution finds missing,
\* whatever its conditions choose and in whichever subgraph.
THEOREM AcceptedCorrect == DefinitionsSpec => []AcceptedNeverDangles
<1>1. DefinitionsInv => AcceptedNeverDangles
  BY DEF DefinitionsInv, AcceptedNeverDangles
<1> QED BY <1>1, DefinitionsInvariance, PTL

\* A node that the validator's queue does not reach is executed in no
\* execution, of whatever definition.
THEOREM WarningsCorrect == DefinitionsSpec => []UnreachableNeverRuns
<1>1. DefinitionsInv => UnreachableNeverRuns
  BY DEF DefinitionsInv, UnreachableNeverRuns, UnreachableWarnings
<1> QED BY <1>1, DefinitionsInvariance, PTL

-----------------------------------------------------------------------------
(***************************************************************************)
(* The templates reach their end.  Their nodes are of three kinds: T those *)
(* of the top level, which end the execution or lead to each other; S and  *)
(* L those of the subgraphs, which have one node, or one of S and then one *)
(* of L.                                                                   *)
(***************************************************************************)
\* The nodes that the executor begins a subgraph of x at.
Begins(x) ==
  IF x.type = "loop" THEN {x.body}
  ELSE IF x.type = "parallel" THEN Range(x.branches) ELSE {}

\* The node x under the id k is of one of the kinds, and stays with it.
Fits(k, x, T, S, L) ==
  \/ /\ k \in T
     /\ x.type = "end" \/ Chooses(x) \subseteq T
     /\ Begins(x) \subseteq S \cup L
  \/ /\ k \in S \cup L
     /\ x.type = "action"
     /\ IF k \in L THEN x.next = NoRef ELSE x.next \in L

\* The nodes of d are these, and the entry is of the top level.
Shaped(d, T, S, L) ==
  /\ T \cup S \cup L \subseteq NodeIds(d)
  /\ T \cap (S \cup L) = {}
  /\ S \cap L = {}
  /\ d.entry \in T
  /\ NoRef \notin T
  /\ \A n \in NodeIds(d) : Fits(n, d.nodes[n], T, S, L)

\* What the nodes of the templates are.
LEMMA NodeFacts ==
  /\ EndNode.type = "end" /\ EndNode.body = NoRef /\ EndNode.branches = <<>>
  /\ \A n : TriggerNode(n).type = "trigger" /\ TriggerNode(n).next = n
  /\ \A n : Step(n).type = "action" /\ Step(n).next = n
  /\ \A b, n : LET x == ConditionNode(b, n)
              IN  x.type = "condition" /\ x.branches = b /\ x.default = n
  /\ \A b, n : LET x == LoopNode(b, n)
              IN  x.type = "loop" /\ x.body = b /\ x.next = n
  /\ \A b, n : LET x == ParallelNode(b, n)
              IN  x.type = "parallel" /\ x.branches = b /\ x.next = n
BY DEF EndNode, TriggerNode, Step, ActionNode, ConditionNode, LoopNode,
       ParallelNode

LEMMA RangeFacts ==
  /\ \A a : Range(<<a>>) = {a}
  /\ \A a, b : Range(<<a, b>>) = {a, b}
  /\ \A a, b, c, d : Range(<<a, b, c, d>>) = {a, b, c, d}
BY DEF Range

\* What a node of each type must refer to, to fit.
LEMMA FitsFacts ==
  ASSUME NEW T, NEW S, NEW L
  PROVE  /\ \A k \in T, n \in T : Fits(k, TriggerNode(n), T, S, L)
         /\ \A k \in T, n \in T : Fits(k, Step(n), T, S, L)
         /\ \A k \in L : Fits(k, Step(NoRef), T, S, L)
         /\ \A k \in S, n \in L : k \notin L => Fits(k, Step(n), T, S, L)
         /\ \A k \in T, a \in T, n \in T :
              Fits(k, ConditionNode(<<a>>, n), T, S, L)
         /\ \A k \in T, a \in T, b \in T, n \in T :
              Fits(k, ConditionNode(<<a, b>>, n), T, S, L)
         /\ \A k \in T, b \in S \cup L, n \in T : Fits(k, LoopNode(b, n), T, S, L)
         /\ \A k \in T, a \in L, b \in L, n \in T :
              Fits(k, ParallelNode(<<a, b>>, n), T, S, L)
         /\ \A k \in T, a \in L, b \in L, c \in L, d \in L, n \in T :
              Fits(k, ParallelNode(<<a, b, c, d>>, n), T, S, L)
         /\ \A k \in T : Fits(k, EndNode, T, S, L)
BY NodeFacts, RangeFacts DEF Fits, Begins, Chooses

\* A definition is of this shape if each of its rows fits.
LEMMA RowsShape ==
  ASSUME NEW rows, NEW e, NEW T, NEW S, NEW L,
         \A n \in T \cup S \cup L : \E row \in rows : row[1] = n,
         \A row \in rows : Fits(row[1], row[2], T, S, L),
         T \cap (S \cup L) = {}, S \cap L = {}, e \in T, NoRef \notin T
  PROVE  Shaped(Definition(e, ByKey(rows)), T, S, L)
<1> DEFINE d == Definition(e, ByKey(rows))
<1>1. NodeIds(d) = {row[1] : row \in rows} /\ d.entry = e
  BY DEF NodeIds, Definition, ByKey
<1>2. ASSUME NEW n \in NodeIds(d)
      PROVE  Fits(n, d.nodes[n], T, S, L)
  <2> DEFINE r == CHOOSE row \in rows : row[1] = n
  <2>1. r \in rows /\ r[1] = n
    BY <1>1
  <2>2. d.nodes[n] = r[2]
    BY <1>1 DEF Definition, ByKey
  <2> HIDE DEF d, r
  <2> QED BY <2>1, <2>2
<1> QED BY <1>1, <1>2 DEF Shaped

\* Each template has the shape.
LEMMA LeadNurtureFacts ==
  \E T, S, L : Shaped(LeadNurture, T, S, L)
<1> DEFINE a == "trigger_lead_created"
           b == "action_score_lead"
           c == "condition_score_route"
           d == "action_notify_sales"
           e == "action_send_hot_email"
           f == "action_send_warm_email"
           g == "action_send_cold_email"
           h == "action_wait_3_days"
           i == "action_send_followup"
           j == "action_update_lead_status"
           k == "end_success"
           T == {a, b, c, d, e, f, g, h, i, j, k}
           S == {}
           L == {}
           rows == {<<a, TriggerNode(b)>>, <<b, Step(c)>>,
                    <<c, ConditionNode(<<d, f>>, g)>>, <<d, Step(e)>>,
                    <<e, Step(j)>>, <<f, Step(h)>>, <<g, Step(h)>>,
                    <<h, Step(i)>>, <<i, Step(j)>>, <<j, Step(k)>>,
                    <<k, EndNode>>}
<1>1. /\ NoRef \notin T
      /\ T \cap (S \cup L) = {} /\ S \cap L = {}
  BY DEF NoRef
<1>2. LeadNurture = Definition(a, ByKey(rows))
  BY DEF LeadNurture
<1> HIDE DEF a, b, c, d, e, f, g, h, i, j, k
<1>3. \A id \in T \cup S \cup L : \E row \in rows : row[1] = id
  OBVIOUS
<1>4. /\ a \in T /\ b \in T /\ c \in T /\ d \in T /\ e \in T /\ f \in T
      /\ g \in T /\ h \in T /\ i \in T /\ j \in T /\ k \in T
  OBVIOUS
<1>5. \A row \in rows : Fits(row[1], row[2], T, S, L)
  <2> HIDE DEF T, S, L
  <2>1. /\ Fits(a, TriggerNode(b), T, S, L)
        /\ Fits(b, Step(c), T, S, L)
        /\ Fits(c, ConditionNode(<<d, f>>, g), T, S, L)
        /\ Fits(d, Step(e), T, S, L)
        /\ Fits(e, Step(j), T, S, L)
        /\ Fits(f, Step(h), T, S, L)
        /\ Fits(g, Step(h), T, S, L)
        /\ Fits(h, Step(i), T, S, L)
        /\ Fits(i, Step(j), T, S, L)
        /\ Fits(j, Step(k), T, S, L)
        /\ Fits(k, EndNode, T, S, L)
    BY <1>1, <1>4, FitsFacts
  <2> QED BY <2>1
<1>6. Shaped(Definition(a, ByKey(rows)), T, S, L)
  <2> HIDE DEF T, S, L, rows
  <2> QED BY <1>1, <1>3, <1>4, <1>5, RowsShape
<1> QED BY <1>2, <1>6

LEMMA OrderFulfillmentFacts ==
  \E T, S, L : Shaped(OrderFulfillment, T, S, L)
<1> DEFINE a == "trigger_order_created"
           b == "parallel_validate"
           c == "action_verify_payment"
           d == "action_check_inventory"
           e == "condition_validation_ok"
           f == "action_reserve_inventory"
           g == "action_create_shipment"
           h == "action_update_order_shipped"
           i == "action_notify_customer_shipped"
           j == "action_notify_payment_failed"
           k == "action_notify_out_of_stock"
           l == "end_fulfilled"
           m == "end_payment_failed"
           n == "end_backordered"
           T == {a, b, e, f, g, h, i, j, k, l, m, n}
           S == {}
           L == {c, d}
           rows == {<<a, TriggerNode(b)>>,
                    <<b, ParallelNode(<<c, d>>, e)>>, <<c, Step(NoRef)>>,
                    <<d, Step(NoRef)>>, <<e, ConditionNode(<<f, j>>, k)>>,
                    <<f, Step(g)>>, <<g, Step(h)>>, <<h, Step(i)>>,
                    <<i, Step(l)>>, <<j, Step(m)>>, <<k, Step(n)>>,
                    <<l, EndNode>>, <<m, EndNode>>, <<n, EndNode>>}
<1>1. /\ NoRef \notin T
      /\ T \cap (S \cup L) = {} /\ S \cap L = {}
  BY DEF NoRef
<1>2. OrderFulfillment = Definition(a, ByKey(rows))
  BY DEF OrderFulfillment
<1> HIDE DEF a, b, c, d, e, f, g, h, i, j, k, l, m, n
<1>3. \A id \in T \cup S \cup L : \E row \in rows : row[1] = id
  OBVIOUS
<1>4. /\ a \in T /\ b \in T /\ e \in T /\ f \in T /\ g \in T /\ h \in T
      /\ i \in T /\ j \in T /\ k \in T /\ l \in T /\ m \in T /\ n \in T
      /\ c \in L /\ d \in L
  OBVIOUS
<1>5. \A row \in rows : Fits(row[1], row[2], T, S, L)
  <2> HIDE DEF T, S, L
  <2>1. /\ Fits(a, TriggerNode(b), T, S, L)
        /\ Fits(b, ParallelNode(<<c, d>>, e), T, S, L)
        /\ Fits(c, Step(NoRef), T, S, L)
        /\ Fits(d, Step(NoRef), T, S, L)
        /\ Fits(e, ConditionNode(<<f, j>>, k), T, S, L)
        /\ Fits(f, Step(g), T, S, L)
        /\ Fits(g, Step(h), T, S, L)
        /\ Fits(h, Step(i), T, S, L)
        /\ Fits(i, Step(l), T, S, L)
        /\ Fits(j, Step(m), T, S, L)
        /\ Fits(k, Step(n), T, S, L)
        /\ Fits(l, EndNode, T, S, L)
        /\ Fits(m, EndNode, T, S, L)
        /\ Fits(n, EndNode, T, S, L)
    BY <1>1, <1>4, FitsFacts
  <2> QED BY <2>1
<1>6. Shaped(Definition(a, ByKey(rows)), T, S, L)
  <2> HIDE DEF T, S, L, rows
  <2> QED BY <1>1, <1>3, <1>4, <1>5, RowsShape
<1> QED BY <1>2, <1>6

LEMMA SupportEscalationFacts ==
  \E T, S, L : Shaped(SupportEscalation, T, S, L)
<1> DEFINE a == "trigger_ticket_created"
           b == "action_classify_ticket"
           c == "condition_priority_route"
           d == "action_escalate_immediately"
           e == "action_assign_senior_agent"
           f == "action_send_ai_reply"
           g == "action_wait_for_response"
           h == "condition_resolved"
           i == "action_escalate_to_human"
           j == "action_notify_agent_assigned"
           k == "end_resolved"
           l == "end_escalated"
           T == {a, b, c, d, e, f, g, h, i, j, k, l}
           S == {}
           L == {}
           rows == {<<a, TriggerNode(b)>>, <<b, Step(c)>>,
                    <<c, ConditionNode(<<d, f>>, f)>>, <<d, Step(e)>>,
                    <<e, Step(l)>>, <<f, Step(g)>>, <<g, Step(h)>>,
                    <<h, ConditionNode(<<k>>, i)>>, <<i, Step(j)>>,
                    <<j, Step(l)>>, <<k, EndNode>>, <<l, EndNode>>}
<1>1. /\ NoRef \notin T
      /\ T \cap (S \cup L) = {} /\ S \cap L = {}
  BY DEF NoRef
<1>2. SupportEscalation = Definition(a, ByKey(rows))
  BY DEF SupportEscalation
<1> HIDE DEF a, b, c, d, e, f, g, h, i, j, k, l
<1>3. \A id \in T \cup S \cup L : \E row \in rows : row[1] = id
  OBVIOUS
<1>4. /\ a \in T /\ b \in T /\ c \in T /\ d \in T /\ e \in T /\ f \in T
      /\ g \in T /\ h \in T /\ i \in T /\ j \in T /\ k \in T /\ l \in T
  OBVIOUS
<1>5. \A row \in rows : Fits(row[1], row[2], T, S, L)
  <2> HIDE DEF T, S, L
  <2>1. /\ Fits(a, TriggerNode(b), T, S, L)
        /\ Fits(b, Step(c), T, S, L)
        /\ Fits(c, ConditionNode(<<d, f>>, f), T, S, L)
        /\ Fits(d, Step(e), T, S, L)
        /\ Fits(e, Step(l), T, S, L)
        /\ Fits(f, Step(g), T, S, L)
        /\ Fits(g, Step(h), T, S, L)
        /\ Fits(h, ConditionNode(<<k>>, i), T, S, L)
        /\ Fits(i, Step(j), T, S, L)
        /\ Fits(j, Step(l), T, S, L)
        /\ Fits(k, EndNode, T, S, L)
        /\ Fits(l, EndNode, T, S, L)
    BY <1>1, <1>4, FitsFacts
  <2> QED BY <2>1
<1>6. Shaped(Definition(a, ByKey(rows)), T, S, L)
  <2> HIDE DEF T, S, L, rows
  <2> QED BY <1>1, <1>3, <1>4, <1>5, RowsShape
<1> QED BY <1>2, <1>6

LEMMA OnboardingFacts ==
  \E T, S, L : Shaped(Onboarding, T, S, L)
<1> DEFINE a == "trigger_customer_signed_up"
           b == "action_send_welcome_email"
           c == "action_create_onboarding_tasks"
           d == "loop_onboarding_steps"
           e == "action_send_day_email"
           f == "action_wait_1_day"
           g == "action_check_activation"
           h == "condition_activation_check"
           i == "action_mark_onboarded"
           j == "action_schedule_success_call"
           k == "action_send_encouragement"
           l == "end_success"
           m == "end_needs_support"
           n == "end_in_progress"
           T == {a, b, c, d, g, h, i, j, k, l, m, n}
           S == {e}
           L == {f}
           rows == {<<a, TriggerNode(b)>>, <<b, Step(c)>>, <<c, Step(d)>>,
                    <<d, LoopNode(e, g)>>, <<e, Step(f)>>,
                    <<f, Step(NoRef)>>, <<g, Step(h)>>,
                    <<h, ConditionNode(<<i, j>>, k)>>, <<i, Step(l)>>,
                    <<j, Step(m)>>, <<k, Step(n)>>, <<l, EndNode>>,
                    <<m, EndNode>>, <<n, EndNode>>}
<1>1. /\ NoRef \notin T
      /\ T \cap (S \cup L) = {} /\ S \cap L = {}
  BY DEF NoRef
<1>2. Onboarding = Definition(a, ByKey(rows))
  BY DEF Onboarding
<1> HIDE DEF a, b, c, d, e, f, g, h, i, j, k, l, m, n
<1>3. \A id \in T \cup S \cup L : \E row \in rows : row[1] = id
  OBVIOUS
<1>4. /\ a \in T /\ b \in T /\ c \in T /\ d \in T /\ g \in T /\ h \in T
      /\ i \in T /\ j \in T /\ k \in T /\ l \in T /\ m \in T /\ n \in T
      /\ e \in S /\ f \in L
  OBVIOUS
<1>5. \A row \in rows : Fits(row[1], row[2], T, S, L)
  <2> HIDE DEF T, S, L
  <2>1. /\ Fits(a, TriggerNode(b), T, S, L)
        /\ Fits(b, Step(c), T, S, L)
        /\ Fits(c, Step(d), T, S, L)
        /\ Fits(d, LoopNode(e, g), T, S, L)
        /\ Fits(e, Step(f), T, S, L)
        /\ Fits(f, Step(NoRef), T, S, L)
        /\ Fits(g, Step(h), T, S, L)
        /\ Fits(h, ConditionNode(<<i, j>>, k), T, S, L)
        /\ Fits(i, Step(l), T, S, L)
        /\ Fits(j, Step(m), T, S, L)
        /\ Fits(k, Step(n), T, S, L)
        /\ Fits(l, EndNode, T, S, L)
        /\ Fits(m, EndNode, T, S, L)
        /\ Fits(n, EndNode, T, S, L)
    BY <1>1, <1>4, FitsFacts
  <2> QED BY <2>1
<1>6. Shaped(Definition(a, ByKey(rows)), T, S, L)
  <2> HIDE DEF T, S, L, rows
  <2> QED BY <1>1, <1>3, <1>4, <1>5, RowsShape
<1> QED BY <1>2, <1>6

LEMMA ReportingFacts ==
  \E T, S, L : Shaped(Reporting, T, S, L)
<1> DEFINE a == "trigger_weekly_schedule"
           b == "parallel_collect_data"
           c == "action_fetch_revenue"
           d == "action_fetch_leads"
           e == "action_fetch_support"
           f == "action_fetch_ops"
           g == "action_generate_report"
           h == "action_store_report"
           i == "loop_distribute_report"
           j == "action_email_report"
           k == "end_success"
           T == {a, b, g, h, i, k}
           S == {}
           L == {c, d, e, f, j}
           rows == {<<a, TriggerNode(b)>>,
                    <<b, ParallelNode(<<c, d, e, f>>, g)>>,
                    <<c, Step(NoRef)>>, <<d, Step(NoRef)>>,
                    <<e, Step(NoRef)>>, <<f, Step(NoRef)>>, <<g, Step(h)>>,
                    <<h, Step(i)>>, <<i, LoopNode(j, k)>>,
                    <<j, Step(NoRef)>>, <<k, EndNode>>}
<1>1. /\ NoRef \notin T
      /\ T \cap (S \cup L) = {} /\ S \cap L = {}
  BY DEF NoRef
<1>2. Reporting = Definition(a, ByKey(rows))
  BY DEF Reporting
<1> HIDE DEF a, b, c, d, e, f, g, h, i, j, k
<1>3. \A id \in T \cup S \cup L : \E row \in rows : row[1] = id
  OBVIOUS
<1>4. /\ a \in T /\ b \in T /\ g \in T /\ h \in T /\ i \in T /\ k \in T
      /\ c \in L /\ d \in L /\ e \in L /\ f \in L /\ j \in L
  OBVIOUS
<1>5. \A row \in rows : Fits(row[1], row[2], T, S, L)
  <2> HIDE DEF T, S, L
  <2>1. /\ Fits(a, TriggerNode(b), T, S, L)
        /\ Fits(b, ParallelNode(<<c, d, e, f>>, g), T, S, L)
        /\ Fits(c, Step(NoRef), T, S, L)
        /\ Fits(d, Step(NoRef), T, S, L)
        /\ Fits(e, Step(NoRef), T, S, L)
        /\ Fits(f, Step(NoRef), T, S, L)
        /\ Fits(g, Step(h), T, S, L)
        /\ Fits(h, Step(i), T, S, L)
        /\ Fits(i, LoopNode(j, k), T, S, L)
        /\ Fits(j, Step(NoRef), T, S, L)
        /\ Fits(k, EndNode, T, S, L)
    BY <1>1, <1>4, FitsFacts
  <2> QED BY <2>1
<1>6. Shaped(Definition(a, ByKey(rows)), T, S, L)
  <2> HIDE DEF T, S, L, rows
  <2> QED BY <1>1, <1>3, <1>4, <1>5, RowsShape
<1> QED BY <1>2, <1>6

LEMMA ChurnPreventionFacts ==
  \E T, S, L : Shaped(ChurnPrevention, T, S, L)
<1> DEFINE a == "trigger_health_score_dropped"
           b == "action_assess_churn_risk"
           c == "condition_risk_level"
           d == "parallel_critical_intervention"
           e == "action_alert_success_team"
           f == "action_send_retention_offer"
           g == "action_send_retention_email"
           h == "action_send_re_engagement"
           i == "action_create_intervention_record"
           j == "end_intervention_complete"
           T == {a, b, c, d, g, h, i, j}
           S == {}
           L == {e, f}
           rows == {<<a, TriggerNode(b)>>, <<b, Step(c)>>,
                    <<c, ConditionNode(<<d, g>>, h)>>,
                    <<d, ParallelNode(<<e, f>>, i)>>, <<e, Step(NoRef)>>,
                    <<f, Step(NoRef)>>, <<g, Step(i)>>, <<h, Step(i)>>,
                    <<i, Step(j)>>, <<j, EndNode>>}
<1>1. /\ NoRef \notin T
      /\ T \cap (S \cup L) = {} /\ S \cap L = {}
  BY DEF NoRef
<1>2. ChurnPrevention = Definition(a, ByKey(rows))
  BY DEF ChurnPrevention
<1> HIDE DEF a, b, c, d, e, f, g, h, i, j
<1>3. \A id \in T \cup S \cup L : \E row \in rows : row[1] = id
  OBVIOUS
<1>4. /\ a \in T /\ b \in T /\ c \in T /\ d \in T /\ g \in T /\ h \in T
      /\ i \in T /\ j \in T /\ e \in L /\ f \in L
  OBVIOUS
<1>5. \A row \in rows : Fits(row[1], row[2], T, S, L)
  <2> HIDE DEF T, S, L
  <2>1. /\ Fits(a, TriggerNode(b), T, S, L)
        /\ Fits(b, Step(c), T, S, L)
        /\ Fits(c, ConditionNode(<<d, g>>, h), T, S, L)
        /\ Fits(d, ParallelNode(<<e, f>>, i), T, S, L)
        /\ Fits(e, Step(NoRef), T, S, L)
        /\ Fits(f, Step(NoRef), T, S, L)
        /\ Fits(g, Step(i), T, S, L)
        /\ Fits(h, Step(i), T, S, L)
        /\ Fits(i, Step(j), T, S, L)
        /\ Fits(j, EndNode, T, S, L)
    BY <1>1, <1>4, FitsFacts
  <2> QED BY <2>1
<1>6. Shaped(Definition(a, ByKey(rows)), T, S, L)
  <2> HIDE DEF T, S, L, rows
  <2> QED BY <1>1, <1>3, <1>4, <1>5, RowsShape
<1> QED BY <1>2, <1>6
LEMMA TemplatesAreShaped ==
  ASSUME NEW d \in Templates
  PROVE  \E T, S, L : Shaped(d, T, S, L)
BY LeadNurtureFacts, OrderFulfillmentFacts, SupportEscalationFacts,
   OnboardingFacts, ReportingFacts, ChurnPreventionFacts DEF Templates


\* Where an execution may be: the top level in T, a subgraph in S or L and
\* before L without a visit to it; and what it may come to.
Placed(T, S, L) ==
  /\ Len(frames) <= 2
  /\ frames # <<>> => frames[1].at \in T
  /\ Len(frames) = 2 => /\ frames[2].at \in S \cup L
                        /\ frames[2].at \in S => frames[2].visited \subseteq S
  /\ outcome \notin {"missing", "cycle"}
  /\ outcome = "done" => frames # <<>> /\ Node.type = "end"

\* The inductive invariant, of every definition that has the shape.
ShapedInv == \A T, S, L : Shaped(built, T, S, L) => Placed(T, S, L)

\* What that says of the node that is executed.
LEMMA PlacedFacts ==
  ASSUME DefinitionsInv, Running, NEW T, NEW S, NEW L,
         Shaped(built, T, S, L), Placed(T, S, L)
  PROVE  /\ Len(frames) \in {1, 2} /\ DOMAIN frames = 1..Len(frames)
         /\ \A i \in DOMAIN frames : frames[i] \in Frames(Known(built))
         /\ Top.at \in NodeIds(built)
         /\ TopLevel => /\ Top.at \in T
                        /\ Node.type = "end" \/ Chooses(Node) \subseteq T
                        /\ Begins(Node) \subseteq S \cup L
         /\ ~ TopLevel => /\ Len(frames) = 2 /\ Top.at \in S \cup L
                          /\ Node.type = "action"
                          /\ IF Top.at \in L THEN Node.next = NoRef
                             ELSE Node.next \in L /\ Top.visited \subseteq S
<1>0. frames \in Seq(Frames(Known(built))) /\ frames # <<>> /\ Len(frames) <= 2
  BY DEF DefinitionsInv, Placed
<1>1. /\ Len(frames) \in {1, 2} /\ DOMAIN frames = 1..Len(frames)
      /\ \A i \in DOMAIN frames : frames[i] \in Frames(Known(built))
  BY <1>0
<1>2. /\ TopLevel => Top.at \in T
      /\ ~ TopLevel => /\ Len(frames) = 2 /\ Top.at \in S \cup L
                       /\ Top.at \in S => Top.visited \subseteq S
  BY <1>1 DEF TopLevel, Top, Placed
<1>3. Top.at \in NodeIds(built) /\ Fits(Top.at, Node, T, S, L)
  BY <1>2 DEF Shaped, Node
<1>4. T \cap (S \cup L) = {} /\ S \cap L = {}
  BY DEF Shaped
<1> QED BY <1>1, <1>2, <1>3, <1>4 DEF Fits, Chooses

\* The top level goes on to id.
LEMMA OnwardFacts ==
  ASSUME DOMAIN frames = 1..Len(frames), Len(frames) = 1,
         NEW id, id # NoRef, GoesTo(id)
  PROVE  /\ Len(frames') = 1 /\ frames' # <<>>
         /\ frames'[1].at = id /\ outcome' = outcome
<1> DEFINE f == [Frame(id) EXCEPT !.visited = IF TopLevel THEN {id}
                                              ELSE Top.visited \cup {id}]
<1>1. frames' = [frames EXCEPT ![1] = f] /\ outcome' = outcome
  BY DEF GoesTo, TopLevel
<1>2. f.at = id
  BY DEF Frame
<1> HIDE DEF f
<1> QED BY <1>1, <1>2

\* A subgraph at its last node gives back to the top level.
LEMMA BackFacts ==
  ASSUME NEW A, frames \in Seq(Frames(A)), Len(frames) = 2, GoesTo(NoRef)
  PROVE  /\ Len(frames') = 1 /\ frames' # <<>> /\ frames'[1].at = frames[1].at
         /\ outcome' = outcome
<1> DEFINE rest == SubSeq(frames, 1, 1)
<1>1. rest \in Seq(Frames(A)) /\ Len(rest) = 1 /\ rest[1] = frames[1]
  OBVIOUS
<1>2. frames' = [rest EXCEPT ![1].back = TRUE] /\ outcome' = outcome
  <2>1. Len(frames) - 1 = 1
    OBVIOUS
  <2>2. ~ TopLevel
    BY DEF TopLevel
  <2> QED BY <1>1, <2>1, <2>2 DEF GoesTo, Popped
<1> HIDE DEF rest
<1>3. rest[1] \in Frames(A)
  BY <1>1
<1>4. [rest[1] EXCEPT !.back = TRUE].at = rest[1].at
  BY <1>3 DEF Frames
<1> QED BY <1>1, <1>2, <1>4

\* A subgraph goes on to its other node.
LEMMA WithinFacts ==
  ASSUME NEW A, frames \in Seq(Frames(A)), Len(frames) = 2,
         NEW id, id # NoRef, id \notin Top.visited, GoesTo(id)
  PROVE  /\ Len(frames') = 2 /\ frames' # <<>> /\ frames'[1] = frames[1]
         /\ frames'[2].at = id /\ outcome' = outcome
<1> DEFINE f == [Frame(id) EXCEPT !.visited = IF TopLevel THEN {id}
                                              ELSE Top.visited \cup {id}]
<1>1. frames' = [frames EXCEPT ![2] = f] /\ outcome' = outcome
  BY DEF GoesTo, TopLevel
<1>2. f.at = id
  BY DEF Frame
<1> HIDE DEF f
<1> QED BY <1>1, <1>2

\* One frame is replaced and another follows it.
LEMMA ExtendedFacts ==
  ASSUME NEW F, NEW q \in Seq(F), Len(q) = 1, NEW f \in F, NEW g \in F
  PROVE  LET r == Append([q EXCEPT ![1] = f], g)
         IN  /\ r # <<>> /\ Len(r) = 2
             /\ r[1] = f /\ r[2] = g
<1> DEFINE s == [q EXCEPT ![1] = f]
<1>1. s \in Seq(F)
  OBVIOUS
<1>2. Len(s) = 1 /\ s[1] = f
  OBVIOUS
<1> HIDE DEF s
<1>3. /\ Append(s, g) # <<>>
      /\ Len(Append(s, g)) = Len(s) + 1
      /\ \A i \in 1..Len(s) : Append(s, g)[i] = s[i]
      /\ Append(s, g)[Len(s) + 1] = g
  BY ONLY <1>1, g \in F, AppendProperties
<1>4. /\ Append(s, g) # <<>> /\ Len(Append(s, g)) = 2
      /\ Append(s, g)[1] = f /\ Append(s, g)[2] = g
  BY <1>2, <1>3
<1> QED BY <1>4 DEF s

\* The top level enters a subgraph at n.
LEMMA IntoFacts ==
  ASSUME NEW A, frames \in Seq(Frames(A)), Len(frames) = 1, NEW n, Enter(n)
  PROVE  /\ Len(frames') = 2 /\ frames' # <<>> /\ frames'[1].at = frames[1].at
         /\ frames'[2].at = n /\ frames'[2].visited = {n} /\ outcome' = outcome
<1> DEFINE f == [frames[1] EXCEPT !.left = @ - 1]
           g == Frame(n)
           s == [frames EXCEPT ![1] = f]
           F == Frames(A) \cup {f, g}
<1>1. frames' = Append(s, g) /\ outcome' = outcome
  BY DEF Enter
<1>2. frames[1] \in Frames(A)
  OBVIOUS
<1>3. f.at = frames[1].at
  BY <1>2 DEF Frames
<1>4. g.at = n /\ g.visited = {n}
  BY DEF Frame
<1>5. frames \in Seq(F) /\ f \in F /\ g \in F
  OBVIOUS
<1>6. Len(frames) = 1
  OBVIOUS
<1> HIDE DEF f, g, F
<1>7. /\ Append(s, g) # <<>> /\ Len(Append(s, g)) = 2
      /\ Append(s, g)[1] = f /\ Append(s, g)[2] = g
  BY ONLY <1>5, <1>6, ExtendedFacts
<1> HIDE DEF s
<1> QED BY <1>1, <1>3, <1>4, <1>7

\* Every step of an execution keeps it there.
LEMMA PlacedStep ==
  ASSUME DefinitionsInv, NEW T, NEW S, NEW L, Shaped(built, T, S, L),
         Placed(T, S, L), Runs, ~ Begin
  PROVE  Placed(T, S, L)'
<1>1. Running /\ built' = built
  BY DEF Runs, RunNothing, Missing, Throws, Ends, Route, End, Iterate, Fork,
         Leave, Works, Enter
<1>2. /\ frames \in Seq(Frames(Known(built))) /\ frames # <<>> /\ outcome = "running"
      /\ frames[1].at \in T /\ NoRef \notin T
      /\ T \cap (S \cup L) = {} /\ S \cap L = {}
  BY <1>1 DEF DefinitionsInv, Running, Placed, Shaped
<1>3. /\ Len(frames) \in {1, 2} /\ DOMAIN frames = 1..Len(frames)
      /\ Top.at \in NodeIds(built)
      /\ TopLevel => /\ Top.at \in T
                     /\ Node.type = "end" \/ Chooses(Node) \subseteq T
                     /\ Begins(Node) \subseteq S \cup L
      /\ ~ TopLevel => /\ Len(frames) = 2 /\ Top.at \in S \cup L
                       /\ Node.type = "action"
                       /\ IF Top.at \in L THEN Node.next = NoRef
                          ELSE Node.next \in L /\ Top.visited \subseteq S
  BY <1>1, PlacedFacts
<1>4. ASSUME NEW id \in T, TopLevel, GoesTo(id)
      PROVE  Placed(T, S, L)'
  <2>1. Len(frames') = 1 /\ frames' # <<>> /\ frames'[1].at = id /\ outcome' = outcome
    BY <1>2, <1>3, <1>4, OnwardFacts DEF TopLevel
  <2> QED BY <1>2, <2>1 DEF Placed
<1>5. ASSUME NEW n \in S \cup L, TopLevel, Enter(n)
      PROVE  Placed(T, S, L)'
  <2>1. /\ Len(frames') = 2 /\ frames' # <<>> /\ frames'[1].at = frames[1].at
        /\ frames'[2].at = n /\ frames'[2].visited = {n} /\ outcome' = outcome
    BY <1>2, <1>5, IntoFacts DEF TopLevel
  <2> QED BY <1>2, <2>1 DEF Placed
<1>6. ASSUME ~ TopLevel, GoesTo(NoRef)
      PROVE  Placed(T, S, L)'
  <2>1. /\ Len(frames') = 1 /\ frames' # <<>> /\ frames'[1].at = frames[1].at
        /\ outcome' = outcome
    BY <1>2, <1>3, <1>6, BackFacts
  <2> QED BY <1>2, <2>1 DEF Placed
<1>7. ASSUME NEW id \in L, ~ TopLevel, id \notin Top.visited, GoesTo(id)
      PROVE  Placed(T, S, L)'
  <2>1. CASE id = NoRef
    BY <1>6, <1>7, <2>1
  <2>2. CASE id # NoRef
    <3>1. /\ Len(frames') = 2 /\ frames' # <<>> /\ frames'[1] = frames[1]
          /\ frames'[2].at = id /\ outcome' = outcome
      BY <1>2, <1>3, <1>7, <2>2, WithinFacts
    <3> QED BY <1>2, <3>1 DEF Placed
  <2> QED BY <2>1, <2>2
<1>8. CASE Missing
  BY <1>3, <1>8 DEF Missing
<1>9. CASE Throws
  BY <1>9 DEF Throws, Ends, Placed
<1>10. CASE RunNothing
  BY <1>2, <1>3, <1>6, <1>10 DEF RunNothing
<1>11. CASE Route
  <2>1. PICK id \in Chooses(Node) : GoesTo(id)
    BY <1>11 DEF Route
  <2>2. Node.type \in {"trigger", "action", "condition"}
    BY <1>11 DEF Route
  <2>3. CASE TopLevel
    BY <1>3, <1>4, <2>1, <2>2, <2>3
  <2>4. CASE ~ TopLevel
    <3>1. id = Node.next
      BY <1>3, <2>1, <2>4 DEF Chooses
    <3> QED BY <1>2, <1>3, <1>6, <1>7, <2>1, <2>4, <3>1
  <2> QED BY <2>3, <2>4
<1>12. CASE End
  <2>1. TopLevel /\ Node.type = "end"
    BY <1>3, <1>12 DEF End
  <2>2. UNCHANGED frames /\ outcome' = "done"
    BY <1>12, <2>1 DEF End, GoesTo
  <2> QED BY <1>1, <1>2, <2>1, <2>2 DEF Placed, Node, Top
<1>13. CASE Iterate
  <2>1. TopLevel /\ Node.body \in S \cup L /\ Enter(Node.body)
    BY <1>3, <1>13 DEF Iterate, Begins
  <2> QED BY <1>5, <2>1
<1>14. CASE Fork
  <2>1. PICK n \in Range(Node.branches) : Enter(n)
    BY <1>14 DEF Fork
  <2>2. TopLevel /\ n \in S \cup L
    BY <1>3, <1>14, <2>1 DEF Fork, Begins
  <2> QED BY <1>5, <2>1, <2>2
<1>15. CASE Leave
  <2>1. TopLevel /\ Node.next \in T /\ GoesTo(Node.next)
    BY <1>3, <1>15 DEF Leave, BranchesOver, Chooses
  <2> QED BY <1>4, <2>1
<1> QED BY <1>8, <1>9, <1>10, <1>11, <1>12, <1>13, <1>14, <1>15 DEF Runs

LEMMA ShapedInitial == DefinitionsInit => ShapedInv
BY DEF DefinitionsInit, ShapedInv, Placed

LEMMA ShapedStep ==
  DefinitionsInv /\ ShapedInv /\ [DefinitionsNext]_definitionVars => ShapedInv'
<1> SUFFICES ASSUME DefinitionsInv, ShapedInv, [DefinitionsNext]_definitionVars,
                    NEW T, NEW S, NEW L, Shaped(built', T, S, L)
             PROVE  Placed(T, S, L)'
  BY DEF ShapedInv, Shaped, NodeIds
<1>1. CASE AddTrigger \/ AddNode \/ SetEntry \/ Build \/ FromJson \/ FromTemplate
  <2>1. Building /\ UNCHANGED <<frames, outcome>>
    BY <1>1 DEF AddTrigger, AddNode, Added, SetEntry, Build, FromJson,
                FromTemplate, Returned
  <2>2. frames = <<>> /\ outcome = "none"
    BY <2>1 DEF DefinitionsInv
  <2> QED BY <2>1, <2>2 DEF Placed
<1>2. CASE Begin
  <2>1. frames' = <<Frame(built.entry)>> /\ outcome' = "running" /\ built' = built
    BY <1>2 DEF Begin
  <2>2. Frame(built.entry).at \in T
    BY <2>1 DEF Frame, Shaped
  <2> QED BY <2>1, <2>2 DEF Placed
<1>3. CASE Runs /\ ~ Begin
  <2>1. built' = built
    BY <1>3 DEF Runs, RunNothing, Missing, Throws, Ends, Route, End, Iterate,
                Fork, Leave, Works, Enter
  <2> QED BY <1>3, <2>1, PlacedStep DEF ShapedInv
<1>4. CASE UNCHANGED definitionVars
  BY <1>4 DEF definitionVars, ShapedInv, Placed, Node, Top
<1> QED BY <1>1, <1>2, <1>3, <1>4 DEF DefinitionsNext, Runs

\* The theorem: however the conditions of a template choose and however often
\* its loops go round, it comes to an end node, and to no cycle or dangling id.
THEOREM TemplatesCorrect == DefinitionsSpec => []TemplatesReachTheirEnd
<1>1. ShapedInv => TemplatesReachTheirEnd
  <2> SUFFICES ASSUME ShapedInv, built \in Templates
               PROVE  /\ outcome \notin {"missing", "cycle"}
                      /\ outcome = "done" => Node.type = "end"
    BY DEF TemplatesReachTheirEnd
  <2>1. PICK T, S, L : Shaped(built, T, S, L)
    BY TemplatesAreShaped
  <2> QED BY <2>1 DEF ShapedInv, Placed
<1> QED BY <1>1, ShapedInitial, ShapedStep, DefinitionsInvariance, PTL DEF DefinitionsSpec

-----------------------------------------------------------------------------
(***************************************************************************)
(* Executions end.  Each frame has a weight: how much of the definition is *)
(* ahead of it, and how often it may enter a subgraph.  Every step lowers  *)
(* the weights of the frames in the order of the top level, the subgraph   *)
(* in it, the subgraph in that, and there is no endless way down.          *)
(***************************************************************************)
\* A frame of the top level has what next ids lead to, one of a subgraph the
\* nodes it has not visited, both with the node it is at.
Ahead(d, i, f) ==
  IF i = 1 THEN Closure(d, {f.at}, Onward(d)) \cap NodeIds(d)
  ELSE NodeIds(d) \ (f.visited \ {f.at})

Weight(d, i, f) == <<Cardinality(Ahead(d, i, f)) + 1, f.left + 1>>

Depths == 1..(MaxDepth + 1)

\* The weights of an execution of d, and of the frames it does not have.
Weights(d, fs) ==
  [i \in Depths |-> IF i \in DOMAIN fs THEN Weight(d, i, fs[i]) ELSE <<0, 0>>]

AllWeights == [Depths -> Nat \X Nat]

Less(p, q) == p[1] < q[1] \/ (p[1] = q[1] /\ p[2] < q[2])

Lower(v, w) ==
  \E i \in Depths : /\ \A j \in 1..(i - 1) : v[j] = w[j]
                    /\ Less(v[i], w[i])

Descent == {p \in AllWeights \X AllWeights : Lower(p[1], p[2])}

\* Of pairs of numbers one is least.
LEMMA LeastPair ==
  ASSUME NEW T, T \subseteq Nat \X Nat, T # {}
  PROVE  \E x \in T : \A y \in T : ~ Less(y, x)
<1> DEFINE F == {p[1] : p \in T}
<1>1. F \subseteq Nat /\ F # {}
  OBVIOUS
<1>2. PICK a \in F : \A b \in F : a <= b
  BY <1>1, LeastNumber
<1> DEFINE G == {p[2] : p \in {q \in T : q[1] = a}}
<1>3. G \subseteq Nat /\ G # {}
  BY <1>2
<1>4. PICK c \in G : \A b \in G : c <= b
  BY <1>3, LeastNumber
<1>5. PICK x \in T : x[1] = a /\ x[2] = c
  BY <1>4
<1>6. ASSUME NEW y \in T, Less(y, x)
      PROVE  FALSE
  <2>1. y[1] \in F /\ y[1] \in Nat /\ y[2] \in Nat /\ a \in Nat /\ c \in Nat
    BY <1>1, <1>2, <1>3, <1>4
  <2>2. a <= y[1]
    BY <1>2, <2>1
  <2>3. y[1] = a
    BY <1>5, <1>6, <2>1, <2>2 DEF Less
  <2>4. y[2] \in G
    BY <2>3
  <2>5. c <= y[2]
    BY <1>4, <2>4
  <2> QED BY <1>5, <1>6, <2>1, <2>3, <2>5 DEF Less
<1> QED BY <1>6

\* The theorem: there is no endless way down, however many frames there may be.
THEOREM DescentEnds == IsWellFoundedOn(Descent, AllWeights)
<1> DEFINE N == MaxDepth + 1
<1>0. N \in Nat /\ Depths = 1..N
  BY DefinitionsAssumption DEF Depths
<1> HIDE DEF N
<1>1. ASSUME NEW T \in SUBSET AllWeights, T # {}
      PROVE  \E x \in T : \A y \in T : ~ Lower(y, x)
  <2> DEFINE Same(y, x, k) == \A j \in 1..k : y[j] = x[j]
             Least(x, k) == \A y \in T : \A i \in 1..k :
                              Same(y, x, i - 1) => ~ Less(y[i], x[i])
             S == {k \in 0..N : \E x \in T : Least(x, k)}
  <2>1. 0 \in S
    BY <1>0, <1>1
  <2>2. ASSUME NEW k \in 1..N, k - 1 \in S
        PROVE  k \in S
    <3>1. PICK x \in T : Least(x, k - 1)
      BY <2>2
    <3> DEFINE U == {y \in T : Same(y, x, k - 1)}
               V == {y[k] : y \in U}
    <3>2. x \in U
      OBVIOUS
    <3>3. V \subseteq Nat \X Nat /\ V # {}
      <4>1. \A y \in T : y[k] \in Nat \X Nat
        BY <1>0, <1>1 DEF AllWeights
      <4> QED BY <3>2, <4>1
    <3> HIDE DEF V
    <3>4. PICK v \in V : \A y \in V : ~ Less(y, v)
      BY <3>3, LeastPair
    <3>5. PICK z \in U : z[k] = v
      BY <3>4 DEF V
    <3>6. ASSUME NEW y \in T, NEW i \in 1..k, Same(y, z, i - 1)
          PROVE  ~ Less(y[i], z[i])
      <4>1. CASE i = k
        <5>1. Same(y, x, k - 1)
          BY <3>5, <3>6, <4>1
        <5>2. y[k] \in V
          BY <5>1 DEF V
        <5> QED BY <3>4, <3>5, <4>1, <5>2
      <4>2. CASE i # k
        <5>1. i \in 1..(k - 1) /\ \A j \in 1..(i - 1) : j \in 1..(k - 1)
          BY <4>2
        <5>2. Same(y, x, i - 1) /\ z[i] = x[i]
          BY <3>5, <3>6, <5>1
        <5> QED BY <3>1, <5>1, <5>2
      <4> QED BY <4>1, <4>2
    <3>7. k \in 0..N
      BY <1>0
    <3> QED BY <3>6, <3>7
  <2>3. N \in S
    <3> HIDE DEF S
    <3> QED BY <1>0, <2>1, <2>2, UpTo
  <2>4. PICK x \in T : Least(x, N)
    BY <2>3
  <2>5. ASSUME NEW y \in T
        PROVE  ~ Lower(y, x)
    BY <1>0, <2>4 DEF Lower
  <2> QED BY <2>5
<1>2. \A T \in SUBSET AllWeights :
        T # {} => \E x \in T : \A y \in T : ~ (<<y, x>> \in Descent)
  <2> SUFFICES ASSUME NEW T \in SUBSET AllWeights, T # {}
               PROVE  \E x \in T : \A y \in T : ~ (<<y, x>> \in Descent)
    OBVIOUS
  <2>1. PICK x \in T : \A y \in T : ~ Lower(y, x)
    BY <1>1
  <2> QED BY <2>1 DEF Descent
<1> QED BY <1>2, MinWF

\* The steps of an execution that goes on: a frame goes on to a node, a
\* subgraph is over, or another begins.
GoesOn(id) ==
  /\ id \in Chooses(Node) \ {NoRef}
  /\ TopLevel \/ id \notin Top.visited
  /\ frames' = [frames EXCEPT ![Len(frames)] =
                  [Frame(id) EXCEPT !.visited = IF TopLevel THEN {id}
                                                ELSE Top.visited \cup {id}]]

ComesBack == ~ TopLevel /\ frames' = Popped

GoesDown(id) ==
  /\ id = NoRef \/ id \in Into(Node) \cap Successors(built, Top.at)
  /\ Top.left > 0 \/ ~ Top.back
  /\ Len(frames) <= MaxDepth
  /\ frames' = Append([frames EXCEPT ![Len(frames)].left = @ - 1], Frame(id))

LEMMA GoesToKinds ==
  ASSUME NEW id, GoesTo(id), id = NoRef \/ id \in Chooses(Node)
  PROVE  \/ GoesOn(id)
         \/ ComesBack
         \/ outcome' # "running" /\ UNCHANGED frames
BY DEF GoesTo, GoesOn, ComesBack

\* What a step is.
LEMMA StepKinds ==
  ASSUME DefinitionsInv, [DefinitionsNext]_definitionVars
  PROVE  \/ frames' = <<>>
         \/ /\ built' = built /\ outcome # "running"
            /\ frames' = <<Frame(built.entry)>>
         \/ /\ UNCHANGED <<built, frames>>
            /\ outcome' # "running" \/ UNCHANGED definitionVars
         \/ /\ built' = built /\ frames # <<>>
            /\ \/ Exists(built, Top.at) /\ \E id : GoesOn(id)
               \/ ComesBack
               \/ Exists(built, Top.at) /\ \E id : GoesDown(id)
<1> DEFINE Kinds == \/ Exists(built, Top.at) /\ \E id : GoesOn(id)
                    \/ ComesBack
                    \/ Exists(built, Top.at) /\ \E id : GoesDown(id)
           Over == /\ UNCHANGED <<built, frames>>
                   /\ outcome' # "running" \/ UNCHANGED definitionVars
<1> SUFFICES \/ frames' = <<>>
             \/ /\ built' = built /\ outcome # "running"
                /\ frames' = <<Frame(built.entry)>>
             \/ Over
             \/ built' = built /\ frames # <<>> /\ Kinds
  OBVIOUS
<1>1. CASE AddTrigger \/ AddNode \/ SetEntry \/ Build \/ FromJson \/ FromTemplate
  <2>1. Building /\ UNCHANGED frames
    BY <1>1 DEF AddTrigger, AddNode, Added, SetEntry, Build, FromJson,
                FromTemplate, Returned
  <2> QED BY <2>1 DEF DefinitionsInv
<1>2. CASE Begin
  BY <1>2 DEF Begin
<1>3. CASE Missing \/ Throws
  BY <1>3 DEF Missing, Throws, Ends
<1>4. CASE UNCHANGED definitionVars
  BY <1>4 DEF definitionVars
<1>5. ASSUME NEW id, GoesTo(id), id = NoRef \/ id \in Chooses(Node),
             built' = built, frames # <<>>,
             Exists(built, Top.at) \/ id = NoRef
      PROVE  Over \/ (built' = built /\ frames # <<>> /\ Kinds)
  <2> HIDE DEF Kinds, Over
  <2>1. CASE GoesOn(id)
    <3>1. Exists(built, Top.at)
      BY <1>5, <2>1 DEF GoesOn
    <3> QED BY <1>5, <2>1, <3>1 DEF Kinds
  <2>2. CASE ComesBack
    BY <1>5, <2>2 DEF Kinds
  <2>3. CASE outcome' # "running" /\ UNCHANGED frames
    BY <1>5, <2>3 DEF Over
  <2> QED BY <1>5, <2>1, <2>2, <2>3, GoesToKinds
<1>6. CASE RunNothing
  <2>1. GoesTo(NoRef) /\ built' = built /\ Running
    BY <1>6 DEF RunNothing
  <2>2. frames # <<>>
    BY <2>1 DEF DefinitionsInv
  <2> HIDE DEF Kinds, Over
  <2> QED BY <1>5, <2>1, <2>2
<1>7. CASE Route \/ End \/ Iterate \/ Fork \/ Leave
  <2>1. built' = built /\ frames # <<>> /\ Exists(built, Top.at)
    BY <1>7, StepsTo DEF DefinitionsInv
  <2> HIDE DEF Kinds, Over
  <2>2. CASE Route
    <3>1. PICK id \in Chooses(Node) : GoesTo(id)
      BY <2>2 DEF Route
    <3> QED BY <1>5, <2>1, <3>1
  <2>3. CASE End
    <3>1. GoesTo(NoRef)
      BY <2>3 DEF End
    <3> QED BY <1>5, <2>1, <3>1
  <2>4. CASE Leave
    <3>1. GoesTo(Node.next) /\ Node.next \in Chooses(Node)
      BY <2>4 DEF Leave, BranchesOver, Chooses
    <3> QED BY <1>5, <2>1, <3>1
  <2>5. CASE Iterate
    <3>1. GoesDown(Node.body)
      BY <2>1, <2>5 DEF Iterate, Enter, GoesDown, Into, Optional, Successors,
                        Required, Exists, Node
    <3> QED BY <2>1, <3>1 DEF Kinds
  <2>6. CASE Fork
    <3>1. PICK id \in Range(Node.branches) : Enter(id)
      BY <2>6 DEF Fork
    <3>2. GoesDown(id)
      <4>1. id \in Range(Node.branches) /\ Node.type = "parallel" /\ ~ Top.back
        BY <2>6, <3>1 DEF Fork
      <4>2. id \in Successors(built, Top.at)
        BY <2>1, <4>1 DEF Successors, Exists, Node
      <4>3. id = NoRef \/ id \in Into(Node)
        BY <4>1 DEF Into, Optional
      <4> QED BY <3>1, <4>1, <4>2, <4>3 DEF Enter, GoesDown
    <3> QED BY <2>1, <3>2 DEF Kinds
  <2> QED BY <1>7, <2>2, <2>3, <2>4, <2>5, <2>6
<1> QED BY <1>1, <1>2, <1>3, <1>4, <1>6, <1>7 DEF DefinitionsNext, Runs

\* One element of a sequence is replaced.
LEMMA ReplacedFacts ==
  ASSUME NEW F, NEW q \in Seq(F), NEW n \in DOMAIN q, NEW f
  PROVE  LET r == [q EXCEPT ![n] = f]
         IN  /\ Len(r) = Len(q) /\ DOMAIN r = DOMAIN q
             /\ r[n] = f /\ \A j \in 1..(n - 1) : r[j] = q[j]
<1>1. DOMAIN q = 1..Len(q) /\ Len(q) \in Nat
  OBVIOUS
<1> DEFINE r == [q EXCEPT ![n] = f]
<1>2. DOMAIN r = DOMAIN q /\ r[n] = f
  OBVIOUS
<1>3. Len(r) = Len(q)
  OBVIOUS
<1>4. ASSUME NEW j \in 1..(n - 1)
      PROVE  r[j] = q[j]
  <2>1. j \in DOMAIN q /\ j # n
    BY <1>1
  <2> QED BY <2>1
<1> QED BY <1>2, <1>3, <1>4

\* The frames after each kind of step.
LEMMA GoesOnFacts ==
  ASSUME NEW A, frames \in Seq(Frames(A)), frames # <<>>, NEW id, GoesOn(id)
  PROVE  /\ Len(frames') = Len(frames)
         /\ DOMAIN frames = 1..Len(frames) /\ DOMAIN frames' = 1..Len(frames)
         /\ \A j \in 1..(Len(frames) - 1) : frames'[j] = frames[j]
         /\ frames'[Len(frames)].at = id
         /\ frames'[Len(frames)].left = MaxIterations
         /\ frames'[Len(frames)].visited = IF TopLevel THEN {id}
                                           ELSE Top.visited \cup {id}
<1> DEFINE f == [Frame(id) EXCEPT !.visited = IF TopLevel THEN {id}
                                              ELSE Top.visited \cup {id}]
           n == Len(frames)
<1>1. n \in Nat \ {0} /\ n \in DOMAIN frames /\ DOMAIN frames = 1..n
  BY TopFacts
<1>2. /\ f.at = id /\ f.left = MaxIterations
      /\ f.visited = IF TopLevel THEN {id} ELSE Top.visited \cup {id}
  BY DEF Frame
<1>3. frames' = [frames EXCEPT ![n] = f]
  BY DEF GoesOn
<1> HIDE DEF f
<1> DEFINE r == [frames EXCEPT ![n] = f]
<1>4. /\ Len(r) = n /\ DOMAIN r = 1..n
      /\ r[n] = f /\ \A j \in 1..(n - 1) : r[j] = frames[j]
  BY <1>1, ReplacedFacts
<1> HIDE DEF r
<1>5. frames' = r
  BY <1>3 DEF r
<1> QED BY <1>1, <1>2, <1>4, <1>5

LEMMA ComesBackFacts ==
  ASSUME NEW A, frames \in Seq(Frames(A)), frames # <<>>, ComesBack
  PROVE  /\ Len(frames) > 1 /\ Len(frames') = Len(frames) - 1
         /\ DOMAIN frames = 1..Len(frames) /\ DOMAIN frames' = 1..(Len(frames) - 1)
         /\ \A j \in 1..(Len(frames) - 1) :
              /\ frames'[j].at = frames[j].at /\ frames'[j].left = frames[j].left
              /\ frames'[j].visited = frames[j].visited
         /\ \A j \in 1..(Len(frames) - 2) : frames'[j] = frames[j]
         /\ frames'[Len(frames) - 1].back = TRUE
<1> DEFINE n == Len(frames)
           rest == SubSeq(frames, 1, n - 1)
<1>1. /\ n \in Nat \ {0} /\ DOMAIN frames = 1..n
      /\ \A j \in 1..n : frames[j] \in Frames(A)
  BY TopFacts
<1>2. n > 1
  BY <1>1 DEF ComesBack, TopLevel
<1>3. /\ rest \in Seq(Frames(A)) /\ Len(rest) = n - 1 /\ DOMAIN rest = 1..(n - 1)
      /\ \A j \in 1..(n - 1) : rest[j] = frames[j]
  BY <1>1, <1>2
<1> HIDE DEF rest
<1>4. frames' = [rest EXCEPT ![n - 1].back = TRUE]
  BY <1>3 DEF ComesBack, Popped, rest
<1> DEFINE f == [rest[n - 1] EXCEPT !.back = TRUE]
<1>5. rest[n - 1] \in Frames(A) /\ n - 1 \in 1..(n - 1)
  BY <1>1, <1>2, <1>3
<1>6. /\ f.at = rest[n - 1].at /\ f.left = rest[n - 1].left
      /\ f.visited = rest[n - 1].visited /\ f.back = TRUE
  BY <1>5 DEF Frames
<1>7. frames' = [rest EXCEPT ![n - 1] = f]
  BY <1>4
<1> HIDE DEF f
<1> DEFINE r == [rest EXCEPT ![n - 1] = f]
<1>r. /\ Len(r) = n - 1 /\ DOMAIN r = 1..(n - 1)
      /\ r[n - 1] = f /\ \A j \in 1..(n - 1 - 1) : r[j] = rest[j]
  BY <1>3, <1>5, ReplacedFacts
<1>8. frames' = r
  BY <1>7
<1> HIDE DEF r
<1>n. n - 1 - 1 = n - 2 /\ \A j \in 1..(n - 2) : j \in 1..(n - 1)
  BY <1>1, <1>2
<1>9. \A j \in 1..(n - 2) : frames'[j] = frames[j]
  BY <1>3, <1>r, <1>8, <1>n
<1>10. frames'[n - 1] = f /\ rest[n - 1] = frames[n - 1]
  BY <1>3, <1>5, <1>r, <1>8
<1>11. \A j \in 1..(n - 1) :
         /\ frames'[j].at = frames[j].at /\ frames'[j].left = frames[j].left
         /\ frames'[j].visited = frames[j].visited
  <2> SUFFICES ASSUME NEW j \in 1..(n - 1)
               PROVE  /\ frames'[j].at = frames[j].at /\ frames'[j].left = frames[j].left
                      /\ frames'[j].visited = frames[j].visited
    OBVIOUS
  <2> HIDE DEF n
  <2>1. n \in Nat
    BY <1>1
  <2>2. j = n - 1 \/ j \in 1..(n - 2)
    BY ONLY <2>1, j \in 1..(n - 1)
  <2> QED BY <1>6, <1>9, <1>10, <2>2
<1>12. frames'[n - 1].back = TRUE
  BY <1>6, <1>10
<1> QED BY <1>1, <1>2, <1>r, <1>8, <1>9, <1>11, <1>12

LEMMA GoesDownFacts ==
  ASSUME NEW A, frames \in Seq(Frames(A)), frames # <<>>, NEW id, GoesDown(id)
  PROVE  /\ Len(frames') = Len(frames) + 1
         /\ DOMAIN frames = 1..Len(frames) /\ DOMAIN frames' = 1..(Len(frames) + 1)
         /\ \A j \in 1..(Len(frames) - 1) : frames'[j] = frames[j]
         /\ frames'[Len(frames)].at = Top.at
         /\ frames'[Len(frames)].left = Top.left - 1
         /\ frames'[Len(frames)].visited = Top.visited
         /\ frames'[Len(frames) + 1] = Frame(id)
<1> DEFINE n == Len(frames)
           f == [Top EXCEPT !.left = @ - 1]
           s == [frames EXCEPT ![n] = f]
           g == Frame(id)
           F == Frames(A) \cup {f, g}
<1>1. n \in Nat \ {0} /\ n \in DOMAIN frames /\ DOMAIN frames = 1..n /\ Top \in Frames(A)
  BY TopFacts
<1>2. f.at = Top.at /\ f.left = Top.left - 1 /\ f.visited = Top.visited
  BY <1>1 DEF Frames
<1>3. frames' = Append(s, g)
  BY DEF GoesDown, Top
<1>4. frames \in Seq(F) /\ f \in F /\ g \in F
  OBVIOUS
<1> HIDE DEF f, g, F
<1>5. s \in Seq(F) /\ Len(s) = n
  BY ONLY <1>1, <1>4
<1>6. s[n] = f /\ \A j \in 1..(n - 1) : s[j] = frames[j]
  BY <1>1, ReplacedFacts
<1> HIDE DEF s
<1>7. /\ Append(s, g) \in Seq(F)
      /\ Len(Append(s, g)) = Len(s) + 1
      /\ \A j \in 1..Len(s) : Append(s, g)[j] = s[j]
      /\ Append(s, g)[Len(s) + 1] = g
  BY ONLY <1>4, <1>5, AppendProperties
<1>8. Len(frames') = n + 1 /\ DOMAIN frames' = 1..(n + 1)
  BY <1>1, <1>3, <1>5, <1>7
<1>9. \A j \in 1..(n - 1) : frames'[j] = frames[j]
  BY <1>1, <1>3, <1>5, <1>6, <1>7
<1>10. frames'[n] = f /\ frames'[n + 1] = g
  BY <1>1, <1>3, <1>5, <1>6, <1>7
<1> QED BY <1>1, <1>2, <1>8, <1>9, <1>10 DEF g

\* What a frame has left, and that the nodes it is at are ahead of it.
DescentInv ==
  /\ \A i \in DOMAIN frames :
       /\ frames[i].left \in Int /\ frames[i].left >= -1
       /\ frames[i].left = -1 => i < Len(frames) \/ frames[i].back
       /\ frames[i].at \in frames[i].visited
  /\ Len(frames) <= MaxDepth + 1
  /\ frames # <<>> => frames[1].at \in Closure(built, {built.entry}, Onward(built))

LEMMA FrameValues ==
  ASSUME NEW id
  PROVE  /\ Frame(id).at = id /\ Frame(id).visited = {id}
         /\ Frame(id).back = FALSE /\ Frame(id).left = MaxIterations
BY DEF Frame

\* Where the thread goes from a node at the top level is what next ids lead to.
LEMMA OnwardOf ==
  ASSUME NEW d, WellFormed(d), NEW A, NEW m \in Closure(d, A, Onward(d)),
         m \in NodeIds(d), NEW id \in Chooses(d.nodes[m]) \ {NoRef}
  PROVE  id \in Onward(d)[m] /\ id \in Closure(d, A, Onward(d))
<1> DEFINE succ == Onward(d)
<1>1. id \in succ[m]
  BY DEF Onward
<1> HIDE DEF succ
<1>2. \A n \in Closure(d, A, succ) \cap NodeIds(d) : succ[n] \subseteq Closure(d, A, succ)
  BY ClosureFacts
<1> QED BY <1>1, <1>2 DEF succ

LEMMA EntryIsOnward ==
  ASSUME NEW d, WellFormed(d)
  PROVE  d.entry \in Closure(d, {d.entry}, Onward(d))
<1> DEFINE succ == Onward(d)
           A == {d.entry}
<1> HIDE DEF succ, A
<1>1. A \subseteq Closure(d, A, succ)
  BY ClosureFacts
<1> QED BY <1>1 DEF succ, A

LEMMA DescentInitial == DefinitionsInit => DescentInv
BY DefinitionsAssumption DEF DefinitionsInit, DescentInv

LEMMA DescentStep ==
  DefinitionsInv /\ DescentInv /\ [DefinitionsNext]_definitionVars => DescentInv'
<1> SUFFICES ASSUME DefinitionsInv, DescentInv, [DefinitionsNext]_definitionVars
             PROVE  DescentInv'
  OBVIOUS
<1> DEFINE n == Len(frames)
           A == Known(built)
           D == MaxDepth
           Ok(i, f) == /\ f.left \in Int /\ f.left >= -1
                       /\ f.left = -1 => i < n \/ f.back
                       /\ f.at \in f.visited
<1>0. /\ frames \in Seq(Frames(A)) /\ WellFormed(built)
      /\ D \in Nat /\ MaxIterations \in Nat
  BY DefinitionsAssumption DEF DefinitionsInv
<1>1. CASE frames' = <<>>
  BY <1>0, <1>1 DEF DescentInv
<1>2. CASE built' = built /\ frames' = <<Frame(built.entry)>>
  <2>1. /\ Len(frames') = 1 /\ DOMAIN frames' = {1}
        /\ frames'[1] = Frame(built.entry)
    BY <1>2
  <2>2. /\ frames'[1].at = built.entry /\ frames'[1].visited = {built.entry}
        /\ frames'[1].left = MaxIterations
    BY <2>1, FrameValues
  <2>3. frames'[1].at \in Closure(built, {built.entry}, Onward(built))
    BY <1>0, <2>2, EntryIsOnward
  <2> QED BY <1>0, <1>2, <2>1, <2>2, <2>3 DEF DescentInv
<1>3. CASE UNCHANGED <<built, frames>>
  BY <1>3 DEF DescentInv
<1>4. CASE built' = built /\ frames # <<>> /\ Exists(built, Top.at) /\ \E id : GoesOn(id)
  <2>1. PICK id : GoesOn(id)
    BY <1>4
  <2>2. /\ Len(frames') = n
        /\ DOMAIN frames = 1..n /\ DOMAIN frames' = 1..n
        /\ \A j \in 1..(n - 1) : frames'[j] = frames[j]
        /\ frames'[n].at = id
        /\ frames'[n].left = MaxIterations
        /\ frames'[n].visited = IF TopLevel THEN {id} ELSE Top.visited \cup {id}
    BY <1>0, <1>4, <2>1, GoesOnFacts
  <2>3. n \in Nat \ {0}
    BY <1>0, <1>4, TopFacts
  <2>4. \A i \in 1..(n - 1) : i \in DOMAIN frames
    BY <2>2, <2>3
  <2>5. \A i \in 1..n : i = n \/ i \in 1..(n - 1)
    BY <2>3
  <2>6. frames' # <<>>
    BY <2>2, <2>3
  <2>7. frames'[1].at \in Closure(built, {built.entry}, Onward(built))
    <3>1. CASE n = 1
      <4>1. id \in Chooses(built.nodes[Top.at]) \ {NoRef} /\ Top = frames[1]
        BY <2>1, <3>1 DEF GoesOn, Node, Top
      <4>2. Top.at \in Closure(built, {built.entry}, Onward(built))
        BY <1>4, <4>1 DEF DescentInv
      <4>3. Top.at \in NodeIds(built)
        BY <1>4 DEF Exists
      <4> QED BY <1>0, <2>2, <3>1, <4>1, <4>2, <4>3, OnwardOf
    <3>2. CASE n # 1
      <4> HIDE DEF n
      <4>1. 1 \in 1..(n - 1)
        BY <2>3, <3>2
      <4>2. frames'[1] = frames[1]
        BY <2>2, <4>1
      <4> QED BY <1>4, <4>2 DEF DescentInv
    <3> QED BY <3>1, <3>2
  <2>8. ASSUME NEW i \in DOMAIN frames'
        PROVE  Ok(i, frames'[i])
    <3>1. CASE i = n
      BY <1>0, <2>2, <3>1
    <3>2. CASE i \in 1..(n - 1)
      BY <2>2, <2>4, <3>2 DEF DescentInv
    <3> QED BY <2>2, <2>5, <3>1, <3>2
  <2> QED BY <1>4, <2>2, <2>6, <2>7, <2>8 DEF DescentInv
<1>5. CASE built' = built /\ frames # <<>> /\ ComesBack
  <2>1. /\ n > 1 /\ Len(frames') = n - 1
        /\ DOMAIN frames = 1..n /\ DOMAIN frames' = 1..(n - 1)
        /\ \A j \in 1..(n - 1) :
             /\ frames'[j].at = frames[j].at /\ frames'[j].left = frames[j].left
             /\ frames'[j].visited = frames[j].visited
        /\ frames'[n - 1].back = TRUE
    BY <1>0, <1>5, ComesBackFacts
  <2>2. n \in Nat
    BY <1>0
  <2>3. \A i \in 1..(n - 1) : i \in 1..n /\ (i = n - 1 \/ i < n - 1)
    BY <2>2
  <2>4. 1 \in 1..(n - 1) /\ n - 1 <= D + 1
    BY <1>0, <2>1, <2>2 DEF DescentInv
  <2>5. frames' # <<>> /\ frames'[1].at = frames[1].at
    BY <2>1, <2>4
  <2>6. ASSUME NEW i \in DOMAIN frames'
        PROVE  /\ frames'[i].left \in Int /\ frames'[i].left >= -1
               /\ frames'[i].left = -1 => i < n - 1 \/ frames'[i].back
               /\ frames'[i].at \in frames'[i].visited
    BY <2>1, <2>3 DEF DescentInv
  <2> QED BY <1>5, <2>1, <2>4, <2>5, <2>6 DEF DescentInv
<1>6. CASE built' = built /\ frames # <<>> /\ \E id : GoesDown(id)
  <2>1. PICK id : GoesDown(id)
    BY <1>6
  <2>2. /\ Len(frames') = n + 1
        /\ DOMAIN frames = 1..n /\ DOMAIN frames' = 1..(n + 1)
        /\ \A j \in 1..(n - 1) : frames'[j] = frames[j]
        /\ frames'[n].at = Top.at
        /\ frames'[n].left = Top.left - 1
        /\ frames'[n].visited = Top.visited
        /\ frames'[n + 1] = Frame(id)
    BY <1>0, <1>6, <2>1, GoesDownFacts
  <2>3. n \in Nat \ {0} /\ Top = frames[n]
    BY <1>0, <1>6, TopFacts DEF Top
  <2>4. \A i \in 1..(n - 1) : i \in DOMAIN frames
    BY <2>2, <2>3
  <2>5. \A i \in 1..(n + 1) : i = n + 1 \/ i = n \/ i \in 1..(n - 1)
    BY <2>3
  <2>6. /\ Ok(n, Top) /\ (Top.left > 0 \/ ~ Top.back) /\ n <= D
    <3>1. n \in DOMAIN frames
      BY <2>2, <2>3
    <3> QED BY <2>1, <2>3, <3>1 DEF DescentInv, GoesDown
  <2>7. Top.left >= 0
    BY <2>3, <2>6
  <2>8. frames' # <<>>
    BY <2>2, <2>3
  <2>9. frames'[1].at = frames[1].at
    <3>1. CASE n = 1
      BY <2>2, <2>3, <3>1
    <3>2. CASE n # 1
      <4>1. 1 \in 1..(n - 1)
        BY <2>3, <3>2
      <4> QED BY <2>2, <4>1
    <3> QED BY <3>1, <3>2
  <2>10. ASSUME NEW i \in DOMAIN frames'
         PROVE  /\ frames'[i].left \in Int /\ frames'[i].left >= -1
                /\ frames'[i].left = -1 => i < n + 1 \/ frames'[i].back
                /\ frames'[i].at \in frames'[i].visited
    <3>1. CASE i = n + 1
      <4>0. frames'[i] = Frame(id)
        BY <2>2, <3>1
      <4>1. /\ frames'[i].at = id /\ frames'[i].visited = {id}
            /\ frames'[i].left = MaxIterations
        BY ONLY <4>0, FrameValues
      <4> QED BY <1>0, <4>1
    <3>2. CASE i = n
      BY <2>2, <2>3, <2>6, <2>7, <3>2
    <3>3. CASE i \in 1..(n - 1)
      <4>1. frames'[i] = frames[i] /\ i < n + 1
        BY <2>2, <2>3, <3>3
      <4> QED BY <2>4, <3>3, <4>1 DEF DescentInv
    <3> QED BY <2>2, <2>5, <3>1, <3>2, <3>3
  <2>11. Len(frames') <= D + 1
    BY <1>0, <2>2, <2>3, <2>6
  <2> QED BY <1>6, <2>2, <2>8, <2>9, <2>10, <2>11 DEF DescentInv
<1> QED BY <1>1, <1>2, <1>3, <1>4, <1>5, <1>6, StepKinds

LEMMA WeightFacts ==
  ASSUME NEW d, WellFormed(d), NEW i, NEW f, f.left \in Int, f.left >= -1
  PROVE  /\ IsFiniteSet(Ahead(d, i, f)) /\ Cardinality(Ahead(d, i, f)) \in Nat
         /\ Weight(d, i, f) \in Nat \X Nat
         /\ Weight(d, i, f)[1] = Cardinality(Ahead(d, i, f)) + 1
         /\ Weight(d, i, f)[2] = f.left + 1
<1>1. Ahead(d, i, f) \subseteq NodeIds(d)
  BY DEF Ahead
<1> DEFINE a == Cardinality(Ahead(d, i, f))
<1>2. IsFiniteSet(Ahead(d, i, f)) /\ a \in Nat
  BY <1>1, FS_Subset, FS_CardinalityType DEF WellFormed
<1>3. Weight(d, i, f) = <<a + 1, f.left + 1>>
  BY DEF Weight
<1> HIDE DEF a
<1>4. a + 1 \in Nat /\ f.left + 1 \in Nat
  BY <1>2
<1>5. IsFiniteSet(Ahead(d, i, f)) /\ Cardinality(Ahead(d, i, f)) \in Nat
  BY <1>2 DEF a
<1>6. /\ Weight(d, i, f) \in Nat \X Nat
      /\ Weight(d, i, f)[1] = a + 1 /\ Weight(d, i, f)[2] = f.left + 1
  BY <1>3, <1>4
<1> QED BY <1>5, <1>6 DEF a

\* What a frame weighs is where it is, what it has visited and has left.
LEMMA SameWeight ==
  ASSUME NEW d, NEW i, NEW f, NEW g, f.at = g.at, f.visited = g.visited
  PROVE  /\ Ahead(d, i, f) = Ahead(d, i, g)
         /\ f.left = g.left => Weight(d, i, f) = Weight(d, i, g)
BY DEF Ahead, Weight

LEMMA LessAhead ==
  ASSUME NEW d, WellFormed(d), NEW i, NEW f, NEW g,
         f.left \in Int, f.left >= -1, g.left \in Int, g.left >= -1,
         Ahead(d, i, g) \subseteq Ahead(d, i, f),
         NEW m \in Ahead(d, i, f), m \notin Ahead(d, i, g)
  PROVE  Less(Weight(d, i, g), Weight(d, i, f))
<1> DEFINE G == Ahead(d, i, g)
           F == Ahead(d, i, f)
<1>1. /\ IsFiniteSet(F) /\ Cardinality(F) \in Nat /\ Cardinality(G) \in Nat
      /\ Weight(d, i, f)[1] = Cardinality(F) + 1
      /\ Weight(d, i, g)[1] = Cardinality(G) + 1
  BY WeightFacts
<1>2. G \subseteq F /\ G # F
  OBVIOUS
<1> HIDE DEF G, F
<1>3. Cardinality(G) < Cardinality(F)
  BY <1>1, <1>2, FS_Subset
<1> QED BY <1>1, <1>3 DEF Less

\* At the top level less is ahead of the node after m than of m, which the
\* thread does not come back to.
LEMMA OnwardLess ==
  ASSUME NEW d, WellFormed(d), ~ TopLevelCycle(d),
         NEW m \in NodeIds(d), m \in Closure(d, {d.entry}, Onward(d)),
         NEW id \in Chooses(d.nodes[m]) \ {NoRef}
  PROVE  /\ Closure(d, {id}, Onward(d)) \subseteq Closure(d, {m}, Onward(d))
         /\ m \in Closure(d, {m}, Onward(d)) /\ m \notin Closure(d, {id}, Onward(d))
<1> DEFINE succ == Onward(d)
           M == {m}
           I == {id}
           S == succ[m]
           X == Closure(d, M, succ)
           Y == Closure(d, S, succ)
<1>1. I \subseteq S
  BY DEF Onward
<1>2. m \notin Y
  BY DEF TopLevelCycle
<1> HIDE DEF succ, M, I
<1>3. M \subseteq X /\ \A n \in X \cap NodeIds(d) : succ[n] \subseteq X
  BY ClosureFacts
<1>4. m \in X
  BY <1>3 DEF M
<1>5. I \subseteq X
  BY <1>1, <1>3, <1>4
<1>6. Closure(d, I, succ) \subseteq X
  <2> HIDE DEF X, S
  <2> QED BY ONLY <1>3, <1>5, WellFormed(d), ClosureLeast
<1>7. Closure(d, I, succ) \subseteq Y
  <2> HIDE DEF S
  <2>1. S \subseteq Y /\ \A n \in Y \cap NodeIds(d) : succ[n] \subseteq Y
    BY ONLY WellFormed(d), ClosureFacts
  <2>2. I \subseteq Y
    BY <1>1, <2>1
  <2> HIDE DEF Y
  <2> QED BY ONLY <2>1, <2>2, WellFormed(d), ClosureLeast
<1> QED BY <1>2, <1>4, <1>6, <1>7 DEF succ, M, I

\* The weights of an execution are among all weights.
LEMMA WeightsType ==
  ASSUME NEW d, WellFormed(d), NEW fs,
         \A i \in DOMAIN fs : fs[i].left \in Int /\ fs[i].left >= -1
  PROVE  Weights(d, fs) \in AllWeights
<1>1. \A i \in DOMAIN fs : Weight(d, i, fs[i]) \in Nat \X Nat
  BY WeightFacts
<1>2. <<0, 0>> \in Nat \X Nat
  OBVIOUS
<1> QED BY <1>1, <1>2 DEF Weights, AllWeights

\* The first frame whose weight is another weighs less.
LEMMA LowerAt ==
  ASSUME NEW d, NEW v, NEW w, NEW n \in Nat \ {0}, n <= MaxDepth + 1,
         n \in DOMAIN w, \A i \in 1..(n - 1) : i \in DOMAIN v /\ i \in DOMAIN w,
         \A i \in 1..(n - 1) : Weight(d, i, v[i]) = Weight(d, i, w[i]),
         \/ n \in DOMAIN v /\ Less(Weight(d, n, v[n]), Weight(d, n, w[n]))
         \/ n \notin DOMAIN v /\ Less(<<0, 0>>, Weight(d, n, w[n]))
  PROVE  Lower(Weights(d, v), Weights(d, w))
<1>0. MaxDepth \in Nat
  BY DefinitionsAssumption
<1>1. n \in Depths /\ \A i \in 1..(n - 1) : i \in Depths
  BY <1>0 DEF Depths
<1>2. \A i \in 1..(n - 1) : Weights(d, v)[i] = Weights(d, w)[i]
  BY <1>1 DEF Weights
<1>3. Less(Weights(d, v)[n], Weights(d, w)[n])
  BY <1>1 DEF Weights
<1> QED BY <1>1, <1>2, <1>3 DEF Lower

\* A step of an execution that goes on, in a definition whose top level does
\* not go round, lowers its weights.
StepDescends ==
  Running /\ Running' /\ ~ TopLevelCycle(built) =>
    <<Weights(built, frames)', Weights(built, frames)>> \in Descent

LEMMA StepIsDown ==
  ASSUME DefinitionsInv, DescentInv, DefinitionsInv', DescentInv',
         [DefinitionsNext]_definitionVars, definitionVars' # definitionVars
  PROVE  StepDescends
<1> SUFFICES ASSUME Running, Running', ~ TopLevelCycle(built)
             PROVE  <<Weights(built', frames'), Weights(built, frames)>> \in Descent
  BY DEF StepDescends
<1> DEFINE n == Len(frames)
           A == Known(built)
<1>0. /\ frames \in Seq(Frames(A)) /\ WellFormed(built) /\ WellFormed(built')
      /\ frames # <<>> /\ frames' # <<>> /\ MaxDepth \in Nat
  BY DefinitionsAssumption DEF DefinitionsInv
<1>1. /\ n \in Nat \ {0} /\ n \in DOMAIN frames /\ DOMAIN frames = 1..n
      /\ Top = frames[n] /\ n <= MaxDepth + 1
  BY <1>0, TopFacts DEF Top, DescentInv
<1>2. \A i \in DOMAIN frames : frames[i].left \in Int /\ frames[i].left >= -1
  BY DEF DescentInv
<1>3. \A i \in DOMAIN frames' : frames'[i].left \in Int /\ frames'[i].left >= -1
  BY DEF DescentInv
<1>4. /\ Weights(built, frames) \in AllWeights
      /\ Weights(built', frames') \in AllWeights
  BY <1>0, <1>2, <1>3, WeightsType
<1> SUFFICES Lower(Weights(built', frames'), Weights(built, frames))
  BY <1>4 DEF Descent
<1>5. \A i \in 1..(n - 1) : i \in DOMAIN frames
  BY <1>1
<1>6. CASE built' = built /\ Exists(built, Top.at) /\ \E id : GoesOn(id)
  <2>1. PICK id : GoesOn(id)
    BY <1>6
  <2>2. /\ DOMAIN frames' = 1..n
        /\ \A j \in 1..(n - 1) : frames'[j] = frames[j]
        /\ frames'[n].at = id
        /\ frames'[n].visited = IF TopLevel THEN {id} ELSE Top.visited \cup {id}
    BY <1>0, <2>1, GoesOnFacts
  <2> DEFINE f == frames[n]
             g == frames'[n]
             m == Top.at
  <2>3. /\ m \in NodeIds(built) /\ f.at = m /\ g.at = id /\ m \in f.visited
        /\ id \in Chooses(built.nodes[m]) \ {NoRef}
        /\ TopLevel \/ id \notin f.visited
    BY <1>1, <1>6, <2>1, <2>2 DEF Exists, GoesOn, Node, DescentInv
  <2>4. n \in DOMAIN frames'
    BY <1>1, <2>2
  <2>5. /\ Ahead(built, n, g) \subseteq Ahead(built, n, f)
        /\ m \in Ahead(built, n, f) /\ m \notin Ahead(built, n, g)
    <3>1. CASE n = 1
      <4>1. m \in Closure(built, {built.entry}, Onward(built))
        BY <1>0, <1>1, <3>1 DEF DescentInv
      <4>2. /\ Closure(built, {id}, Onward(built)) \subseteq Closure(built, {m}, Onward(built))
            /\ m \in Closure(built, {m}, Onward(built))
            /\ m \notin Closure(built, {id}, Onward(built))
        <5> HIDE DEF m, f, g, n
        <5> QED BY <1>0, <2>3, <4>1, OnwardLess
      <4>3. /\ Ahead(built, n, f) = Closure(built, {m}, Onward(built)) \cap NodeIds(built)
            /\ Ahead(built, n, g) = Closure(built, {id}, Onward(built)) \cap NodeIds(built)
        BY <2>3, <3>1 DEF Ahead
      <4> QED BY <2>3, <4>2, <4>3
    <3>2. CASE n # 1
      <4>1. ~ TopLevel
        BY <3>2 DEF TopLevel
      <4>2. g.visited = f.visited \cup {id} /\ id \notin f.visited
        BY <1>1, <2>2, <2>3, <4>1
      <4>3. /\ Ahead(built, n, f) = NodeIds(built) \ (f.visited \ {m})
            /\ Ahead(built, n, g) = NodeIds(built) \ (g.visited \ {id})
        BY <2>3, <3>2 DEF Ahead
      <4> QED BY <2>3, <4>2, <4>3
    <3> QED BY <3>1, <3>2
  <2>6. Less(Weight(built, n, g), Weight(built, n, f))
    <3>1. /\ f.left \in Int /\ f.left >= -1 /\ g.left \in Int /\ g.left >= -1
      BY <1>1, <1>2, <1>3, <2>4
    <3> HIDE DEF f, g, m, n
    <3> QED BY <1>0, <2>5, <3>1, LessAhead
  <2>7. \A i \in 1..(n - 1) :
          i \in DOMAIN frames' /\ Weight(built, i, frames'[i]) = Weight(built, i, frames[i])
    BY <1>1, <2>2
  <2> HIDE DEF n
  <2>8. Lower(Weights(built, frames'), Weights(built, frames))
    BY <1>1, <1>5, <2>4, <2>6, <2>7, LowerAt
  <2> QED BY <1>6, <2>8
<1>7. CASE built' = built /\ ComesBack
  <2>1. /\ n > 1 /\ DOMAIN frames' = 1..(n - 1)
        /\ \A j \in 1..(n - 1) :
             /\ frames'[j].at = frames[j].at /\ frames'[j].left = frames[j].left
             /\ frames'[j].visited = frames[j].visited
    BY <1>0, <1>7, ComesBackFacts
  <2>2. \A i \in 1..(n - 1) :
          i \in DOMAIN frames' /\ Weight(built, i, frames'[i]) = Weight(built, i, frames[i])
    <3> SUFFICES ASSUME NEW i \in 1..(n - 1)
                 PROVE  /\ i \in DOMAIN frames'
                        /\ Weight(built, i, frames'[i]) = Weight(built, i, frames[i])
      OBVIOUS
    <3> DEFINE f == frames[i]
               g == frames'[i]
    <3>1. i \in DOMAIN frames' /\ f.at = g.at /\ f.visited = g.visited /\ f.left = g.left
      BY <2>1
    <3> HIDE DEF f, g
    <3>2. Weight(built, i, g) = Weight(built, i, f)
      BY <3>1, SameWeight
    <3> QED BY <3>1, <3>2 DEF f, g
  <2>3. n \notin DOMAIN frames'
    BY <1>1, <2>1
  <2>4. Less(<<0, 0>>, Weight(built, n, frames[n]))
    <3>1. frames[n].left \in Int /\ frames[n].left >= -1
      BY <1>1, <1>2
    <3> DEFINE f == frames[n]
    <3> HIDE DEF f, n
    <3>2. /\ Cardinality(Ahead(built, n, f)) \in Nat
          /\ Weight(built, n, f)[1] = Cardinality(Ahead(built, n, f)) + 1
      BY <1>0, <3>1, WeightFacts DEF f
    <3>3. Weight(built, n, f)[1] > 0
      BY <3>2
    <3> QED BY <3>3 DEF Less, f
  <2> HIDE DEF n
  <2>5. Lower(Weights(built, frames'), Weights(built, frames))
    BY <1>1, <1>5, <2>2, <2>3, <2>4, LowerAt
  <2> QED BY <1>7, <2>5
<1>8. CASE built' = built /\ \E id : GoesDown(id)
  <2>1. PICK id : GoesDown(id)
    BY <1>8
  <2>2. /\ DOMAIN frames' = 1..(n + 1)
        /\ \A j \in 1..(n - 1) : frames'[j] = frames[j]
        /\ frames'[n].at = Top.at /\ frames'[n].left = Top.left - 1
        /\ frames'[n].visited = Top.visited
    BY <1>0, <2>1, GoesDownFacts
  <2>3. n \in DOMAIN frames' /\ \A i \in 1..(n - 1) : i \in DOMAIN frames'
    BY <1>1, <2>2
  <2>4. \A i \in 1..(n - 1) : Weight(built, i, frames'[i]) = Weight(built, i, frames[i])
    BY <2>2
  <2> DEFINE f == frames[n]
             g == frames'[n]
  <2>5. /\ f.left \in Int /\ f.left >= -1 /\ g.left \in Int /\ g.left >= -1
        /\ g.at = f.at /\ g.left = f.left - 1 /\ g.visited = f.visited
    BY <1>1, <1>2, <1>3, <2>2, <2>3
  <2> HIDE DEF f, g, n
  <2>6. /\ Ahead(built, n, g) = Ahead(built, n, f)
        /\ Cardinality(Ahead(built, n, f)) \in Nat
        /\ Weight(built, n, f)[1] = Cardinality(Ahead(built, n, f)) + 1
        /\ Weight(built, n, f)[2] = f.left + 1
        /\ Weight(built, n, g)[1] = Cardinality(Ahead(built, n, g)) + 1
        /\ Weight(built, n, g)[2] = g.left + 1
    BY <1>0, <2>5, SameWeight, WeightFacts
  <2>7. Less(Weight(built, n, g), Weight(built, n, f))
    BY <2>5, <2>6 DEF Less
  <2>8. Lower(Weights(built, frames'), Weights(built, frames))
    BY <1>1, <1>5, <2>3, <2>4, <2>7, LowerAt DEF f, g
  <2> QED BY <1>8, <2>8
<1>9. CASE frames' = <<>>
  BY <1>0, <1>9
<1>10. CASE outcome # "running" \/ outcome' # "running" \/ UNCHANGED definitionVars
  BY <1>10 DEF Running
<1> QED BY <1>6, <1>7, <1>8, <1>9, <1>10, StepKinds

LEMMA DescentInvariance == DefinitionsSpec => [](DefinitionsInv /\ DescentInv)
BY DefinitionsInitial, DefinitionsStep, DescentInitial, DescentStep, PTL
   DEF DefinitionsSpec

\* The theorem: every step of an execution that goes on lowers its weights,
\* so that by DescentEnds it takes finitely many.
THEOREM RunsDescend == DefinitionsSpec => [][StepDescends]_definitionVars
<1>1. DefinitionsInv /\ DescentInv /\ (DefinitionsInv /\ DescentInv)'
        /\ [DefinitionsNext]_definitionVars => [StepDescends]_definitionVars
  BY StepIsDown
<1> QED BY <1>1, DescentInvariance, PTL DEF DefinitionsSpec

-----------------------------------------------------------------------------
(***************************************************************************)
(* Subgraphs inside subgraphs.  A frame is in the subgraphs of the node of *)
(* each frame below it, or at nothing; so frames that are at nodes are at  *)
(* different ones, unless a node is in its own subgraphs.                  *)
(***************************************************************************)
NestInv ==
  /\ \A i \in DOMAIN frames : i < Len(frames) => Exists(built, frames[i].at)
  /\ \A i, j \in DOMAIN frames :
       i < j => \/ frames[j].at = NoRef
                \/ frames[j].at \in Inside(built, frames[i].at)

\* Inside a node are what its subgraphs begin at and whatever follows.
LEMMA InsideFacts ==
  ASSUME NEW d, WellFormed(d), NEW n
  PROVE  /\ Into(d.nodes[n]) \subseteq Inside(d, n)
         /\ \A m \in Inside(d, n) \cap NodeIds(d) :
              Successors(d, m) \subseteq Inside(d, n)
<1> DEFINE A == Into(d.nodes[n])
           succ == Following(d)
           C == Closure(d, A, succ)
<1>1. Inside(d, n) = C /\ \A m \in NodeIds(d) : succ[m] = Successors(d, m)
  BY DEF Inside, Following
<1> HIDE DEF A, succ
<1>2. A \subseteq C /\ \A m \in C \cap NodeIds(d) : succ[m] \subseteq C
  BY ClosureFacts
<1> HIDE DEF C
<1> QED BY <1>1, <1>2 DEF A

LEMMA NestInitial == DefinitionsInit => NestInv
BY DEF DefinitionsInit, NestInv

LEMMA NestStep ==
  DefinitionsInv /\ NestInv /\ [DefinitionsNext]_definitionVars => NestInv'
<1> SUFFICES ASSUME DefinitionsInv, NestInv, [DefinitionsNext]_definitionVars
             PROVE  NestInv'
  OBVIOUS
<1> DEFINE n == Len(frames)
           A == Known(built)
<1>0. frames \in Seq(Frames(A)) /\ WellFormed(built)
  BY DEF DefinitionsInv
<1>1. CASE frames' = <<>>
  BY <1>1 DEF NestInv
<1>2. CASE built' = built /\ frames' = <<Frame(built.entry)>>
  <2>1. Len(frames') = 1 /\ DOMAIN frames' = {1}
    BY <1>2
  <2> QED BY <2>1 DEF NestInv
<1>3. CASE UNCHANGED <<built, frames>>
  BY <1>3 DEF NestInv
<1>4. CASE built' = built /\ frames # <<>> /\ Exists(built, Top.at) /\ \E id : GoesOn(id)
  <2>1. PICK id : GoesOn(id)
    BY <1>4
  <2>2. /\ Len(frames') = n
        /\ DOMAIN frames = 1..n /\ DOMAIN frames' = 1..n
        /\ \A j \in 1..(n - 1) : frames'[j] = frames[j]
        /\ frames'[n].at = id
    BY <1>0, <1>4, <2>1, GoesOnFacts
  <2>3. n \in Nat \ {0} /\ Top = frames[n] /\ n \in DOMAIN frames
    BY <1>0, <1>4, TopFacts DEF Top
  <2>4. id \in Successors(built, Top.at) /\ Top.at \in NodeIds(built) /\ Top.at # NoRef
    <3>1. Top.at \in NodeIds(built) /\ id # NoRef /\ id \in Chooses(Node) /\ Top.at # NoRef
      BY <1>4, <2>1 DEF Exists, GoesOn
    <3> QED BY <3>1 DEF Successors, Chooses, Optional, Node
  <2> HIDE DEF n
  <2>5. \A i \in 1..n : i < n => i \in 1..(n - 1)
    BY <2>3
  <2>6. \A i \in 1..n : i < n => Exists(built, frames'[i].at)
    BY <2>2, <2>5 DEF NestInv, n
  <2>7. ASSUME NEW i \in 1..n, NEW j \in 1..n, i < j
        PROVE  frames'[j].at = NoRef \/ frames'[j].at \in Inside(built, frames'[i].at)
    <3>1. i < n /\ (j = n \/ j < n)
      BY <2>3, <2>7
    <3>2. frames'[i] = frames[i]
      BY <2>2, <2>5, <3>1
    <3>3. CASE j = n
      <4>1. Top.at \in Inside(built, frames[i].at)
        BY <2>2, <2>3, <2>4, <2>7, <3>3 DEF NestInv
      <4> DEFINE m == frames[i].at
      <4> HIDE DEF m
      <4>2. id \in Inside(built, m)
        BY <1>0, <2>4, <4>1, InsideFacts DEF m
      <4> QED BY <2>2, <3>2, <3>3, <4>2 DEF m
    <3>4. CASE j < n
      BY <2>2, <2>5, <2>7, <3>2, <3>4 DEF NestInv
    <3> QED BY <3>1, <3>3, <3>4
  <2> QED BY <1>4, <2>2, <2>6, <2>7 DEF NestInv, n
<1>5. CASE built' = built /\ frames # <<>> /\ ComesBack
  <2>1. /\ n > 1 /\ Len(frames') = n - 1
        /\ DOMAIN frames = 1..n /\ DOMAIN frames' = 1..(n - 1)
        /\ \A j \in 1..(n - 1) : frames'[j].at = frames[j].at
    BY <1>0, <1>5, ComesBackFacts
  <2>2. n \in Nat
    BY <1>0
  <2>3. \A i \in 1..(n - 1) : i \in 1..n /\ i < n
    BY <2>2
  <2>4. \A i \in DOMAIN frames' : i \in DOMAIN frames /\ i < n /\ frames'[i].at = frames[i].at
    BY <2>1, <2>3
  <2> QED BY <1>5, <2>4 DEF NestInv
<1>6. CASE /\ built' = built /\ frames # <<>>
           /\ Exists(built, Top.at) /\ \E id : GoesDown(id)
  <2>1. PICK id : GoesDown(id)
    BY <1>6
  <2>2. /\ Len(frames') = n + 1
        /\ DOMAIN frames = 1..n /\ DOMAIN frames' = 1..(n + 1)
        /\ \A j \in 1..(n - 1) : frames'[j] = frames[j]
        /\ frames'[n].at = Top.at
        /\ frames'[n + 1] = Frame(id)
    BY <1>0, <1>6, <2>1, GoesDownFacts
  <2>3. n \in Nat \ {0} /\ Top = frames[n] /\ n \in DOMAIN frames
    BY <1>0, <1>6, TopFacts DEF Top
  <2>4. /\ Top.at \in NodeIds(built) /\ Top.at # NoRef
        /\ id = NoRef \/ id \in Into(built.nodes[Top.at]) \cap Successors(built, Top.at)
    BY <1>6, <2>1 DEF Exists, GoesDown, Node
  <2>5. frames'[n + 1].at = id
    BY <2>2, FrameValues
  <2> HIDE DEF n
  <2>6. \A i \in 1..n : (i = n \/ i \in 1..(n - 1)) /\ i \in DOMAIN frames
    BY <2>2, <2>3
  <2>7. \A i \in 1..n : frames'[i].at = frames[i].at
    BY <2>2, <2>3, <2>6
  <2>8. \A i \in 1..(n + 1) : i < n + 1 => i \in 1..n
    BY <2>3
  <2>9. \A i \in 1..n : Exists(built, frames[i].at)
    <3>1. \A i \in 1..n : i = n \/ i < n
      BY <2>3
    <3> QED BY <1>6, <2>3, <2>6, <3>1 DEF NestInv, n
  <2>10. ASSUME NEW i \in 1..(n + 1), NEW j \in 1..(n + 1), i < j
         PROVE  frames'[j].at = NoRef \/ frames'[j].at \in Inside(built, frames'[i].at)
    <3>1. i \in 1..n /\ (j = n + 1 \/ j \in 1..n)
      BY <2>3, <2>10
    <3>2. CASE j \in 1..n
      BY <2>6, <2>7, <2>10, <3>1, <3>2 DEF NestInv
    <3>3. CASE j = n + 1 /\ id = NoRef
      BY <2>5, <3>3
    <3>4. CASE j = n + 1 /\ id # NoRef
      <4> DEFINE m == frames[i].at
      <4>1. m = Top.at \/ Top.at \in Inside(built, m)
        <5>1. i = n \/ i < n
          BY <2>3, <3>1
        <5> QED BY <2>3, <2>4, <2>6, <3>1, <5>1 DEF NestInv
      <4> HIDE DEF m
      <4>2. id \in Inside(built, m)
        BY <1>0, <2>4, <3>4, <4>1, InsideFacts
      <4> QED BY <2>5, <2>7, <3>1, <3>4, <4>2 DEF m
    <3> QED BY <3>1, <3>2, <3>3, <3>4
  <2> QED BY <1>6, <2>2, <2>7, <2>8, <2>9, <2>10 DEF NestInv
<1> QED BY <1>1, <1>2, <1>3, <1>4, <1>5, <1>6, StepKinds

\* The theorem: unless a node is in its own subgraphs there are at most as
\* many subgraphs inside one another as nodes, whatever MaxDepth allows.
THEOREM NestingCorrect ==
  DefinitionsSpec =>
    [](~ NestsItself(built) => Len(frames) <= Cardinality(NodeIds(built)) + 1)
<1>1. ASSUME DefinitionsInv, NestInv, ~ NestsItself(built)
      PROVE  Len(frames) <= Cardinality(NodeIds(built)) + 1
  <2> DEFINE n == Len(frames)
             N == NodeIds(built)
             I == 1..(n - 1)
             f == [i \in I |-> frames[i].at]
  <2>1. /\ n \in Nat /\ DOMAIN frames = 1..n
        /\ IsFiniteSet(N) /\ Cardinality(N) \in Nat
    BY <1>1, FS_CardinalityType DEF DefinitionsInv, WellFormed
  <2>2. CASE n = 0
    BY <2>1, <2>2
  <2>3. CASE n # 0
    <3>1. \A i \in I : i \in DOMAIN frames /\ i < n /\ i \in Int
      BY <2>1
    <3>2. \A i \in I : frames[i].at \in N /\ frames[i].at # NoRef
      BY <1>1, <3>1 DEF NestInv, Exists
    <3>3. ASSUME NEW i \in I, NEW j \in I, i < j
          PROVE  frames[i].at # frames[j].at
      <4>1. frames[j].at \in Inside(built, frames[i].at)
        BY <1>1, <3>1, <3>2, <3>3 DEF NestInv
      <4> QED BY <1>1, <3>2, <4>1 DEF NestsItself
    <3>4. \A i, j \in I : i = j \/ i < j \/ j < i
      BY <3>1
    <3>5. f \in Injection(I, N)
      <4>1. f \in [I -> N] /\ \A i \in I : f[i] = frames[i].at
        BY <3>2
      <4>2. \A i, j \in I : f[i] = f[j] => i = j
        <5> SUFFICES ASSUME NEW i \in I, NEW j \in I, f[i] = f[j]
                     PROVE  i = j
          OBVIOUS
        <5>1. ~ (i < j) /\ ~ (j < i)
          BY <3>3, <4>1
        <5> QED BY <3>4, <5>1
      <4> HIDE DEF f, I, N
      <4> QED BY <4>1, <4>2 DEF Injection, IsInjective
    <3>6. Cardinality(I) = n - 1
      <4> HIDE DEF n
      <4>1. 1 \in Int /\ n - 1 \in Int /\ ~ (1 > n - 1 /\ n # 1)
        BY <2>1, <2>3
      <4>2. Cardinality(1..(n - 1)) = IF 1 > n - 1 THEN 0 ELSE n - 1 - 1 + 1
        BY ONLY <4>1, FS_Interval
      <4> QED BY <2>1, <2>3, <4>2
    <3> HIDE DEF f, I, N
    <3>7. Cardinality(I) <= Cardinality(N)
      BY <2>1, <3>5, FS_Injection
    <3> QED BY <2>1, <3>6, <3>7 DEF N
  <2> QED BY <2>2, <2>3
<1>2. DefinitionsSpec => [](DefinitionsInv /\ NestInv)
  BY DefinitionsInitial, DefinitionsStep, NestInitial, NestStep, PTL
     DEF DefinitionsSpec
<1> QED BY <1>1, <1>2, PTL
=============================================================================
