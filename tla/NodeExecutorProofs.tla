-------------------------- MODULE NodeExecutorProofs --------------------------
(***************************************************************************)
(* What runs, what is left running, and what is merged, for any number of  *)
(* branches or iterations, any subgraph and any configuration.             *)
(***************************************************************************)
EXTENDS NodeExecutor, FiniteSetTheorems, WellFoundedInduction, TLAPS

\* A run has its fields, whatever they hold, and one of the four states.
IsRun(r) ==
  r \in [state : {"idle", "running", "ok", "failed"}, at : {r.at},
         visited : {r.visited}, ctx : {r.ctx}]

ShapeInv ==
  /\ config \in Configs
  /\ node \in {"running", "resolved", "rejected"}
  /\ next \in 1..(N + 1)
  /\ run = [b \in Runs |-> run[b]]
  /\ \A b \in Runs : IsRun(run[b]) /\ (b >= next <=> run[b].state = "idle")

IInv == ShapeInv /\ OnlyLastChunkIsAbandoned

-----------------------------------------------------------------------------
LEMMA ConfigFacts ==
  ASSUME ShapeInv
  PROVE  /\ N \in Nat \ {0}
         /\ ChunkSize \in Nat \ {0}
         /\ Chunked => ChunkSize = config.limit
BY NodeExecutorAssumption DEF ShapeInv, ChunkSize, Chunked, Kinds

LEMMA LastOfChunkFacts ==
  ASSUME ShapeInv, next <= N
  PROVE  /\ LastOfChunk \in next..N
         /\ LastOfChunk + 1 - ChunkSize <= next
BY ConfigFacts DEF ShapeInv, LastOfChunk

LEMMA ArrivedFacts ==
  ASSUME NEW r, NEW id, IsRun(r), r.state = "running"
  PROVE  /\ IsRun(Arrived(r, id))
         /\ Arrived(r, id).state \in {"running", "ok", "failed"}
BY DEF Arrived, IsRun

LEMMA WroteFacts ==
  ASSUME ShapeInv, NEW b \in Runs, run[b].state = "running", NEW w
  PROVE  LET q == [run[b] EXCEPT !.ctx = Wrote(b, w)]
         IN  IsRun(q) /\ q.state = "running"
BY DEF ShapeInv, IsRun

-----------------------------------------------------------------------------
LEMMA InitInv == Init => IInv
<1> SUFFICES ASSUME Init PROVE IInv
  OBVIOUS
<1>1. ShapeInv
  BY NodeExecutorAssumption DEF Init, ShapeInv, IsRun, Runs
<1>2. OnlyLastChunkIsAbandoned
  BY DEF Init, OnlyLastChunkIsAbandoned, InState
<1> QED BY <1>1, <1>2 DEF IInv

\* A chunk starts only when nothing that was started runs or has failed.
LEMMA StartKeeps ==
  ASSUME IInv, StartChunk
  PROVE  IInv'
<1>1. ShapeInv /\ ChunkEnds /\ next <= N
  BY DEF IInv, StartChunk
<1>2. /\ N \in Nat \ {0} /\ ChunkSize \in Nat \ {0} /\ next \in 1..N
      /\ LastOfChunk \in next..N
      /\ LastOfChunk + 1 - ChunkSize <= next
  BY <1>1, ConfigFacts, LastOfChunkFacts DEF ShapeInv
<1> DEFINE fresh == [state |-> "running", at |-> NoNode, visited |-> {},
                     ctx |-> StartContext]
<1>3. /\ run' = [b \in Runs |-> IF b \in next..LastOfChunk
                                THEN Arrived(fresh, config.entry[b])
                                ELSE run[b]]
      /\ next' = LastOfChunk + 1
      /\ UNCHANGED <<config, node>>
  BY DEF StartChunk, Start, After
<1>4. IsRun(fresh) /\ fresh.state = "running"
  BY DEF IsRun
<1> HIDE DEF fresh
<1>5. ASSUME NEW b \in next..LastOfChunk
      PROVE  /\ IsRun(run'[b]) /\ b \in Runs
             /\ run'[b].state \in {"running", "ok", "failed"}
  <2>1. b \in Runs
    BY <1>2 DEF Runs
  <2> QED BY <1>3, <1>4, <2>1, ArrivedFacts
<1>6. ASSUME NEW b \in Runs, b \notin next..LastOfChunk
      PROVE  /\ run'[b] = run[b]
             /\ b < next => run[b].state = "ok"
             /\ b >= next => b > LastOfChunk /\ run[b].state = "idle"
  <2>1. run'[b] = run[b]
    BY <1>3, <1>6
  <2>2. b < next => b \in 1..(next - 1)
    BY <1>2 DEF Runs
  <2>3. b >= next => b > LastOfChunk
    BY <1>2, <1>6 DEF Runs
  <2> QED BY <1>1, <2>1, <2>2, <2>3 DEF ChunkEnds, ShapeInv
<1>7. ShapeInv'
  <2>1. \A b \in Runs : IsRun(run'[b]) /\ (b >= next' <=> run'[b].state = "idle")
    <3> TAKE b \in Runs
    <3>1. CASE b \in next..LastOfChunk
      BY <1>2, <1>3, <1>5, <3>1
    <3>2. CASE b \notin next..LastOfChunk
      <4>1. IsRun(run[b])
        BY <1>1 DEF ShapeInv
      <4> QED BY <1>2, <1>3, <1>6, <3>2, <4>1 DEF Runs
    <3> QED BY <3>1, <3>2
  <2> QED BY <1>1, <1>2, <1>3, <2>1 DEF ShapeInv, IsRun
<1>8. OnlyLastChunkIsAbandoned'
  <2>1. node' = "running"
    BY <1>1, <1>3 DEF ChunkEnds
  <2>2. ChunkSize' = ChunkSize
    BY <1>3 DEF ChunkSize, Chunked
  <2>3. ASSUME NEW b \in Runs, run'[b].state \in {"running", "failed"}
        PROVE  b \in (next' - ChunkSize)..(next' - 1)
    <3>1. b \in next..LastOfChunk
      BY <1>2, <1>6, <2>3 DEF Runs
    <3> QED BY <1>2, <1>3, <3>1
  <2> QED BY <2>1, <2>2, <2>3 DEF OnlyLastChunkIsAbandoned, InState
<1> QED BY <1>7, <1>8 DEF IInv

LEMMA StepKeeps ==
  ASSUME IInv, NEW b \in Runs, NodeThrows(b) \/ NodeReturns(b)
  PROVE  IInv'
<1>1. ShapeInv /\ run[b].state = "running"
  BY DEF IInv, NodeThrows, NodeReturns
<1>2. PICK r : /\ RunBecomes(b, r)
               /\ IsRun(r) /\ r.state \in {"running", "ok", "failed"}
  <2>1. CASE NodeThrows(b)
    <3> DEFINE r == [run[b] EXCEPT !.state = "failed"]
    <3>1. IsRun(r) /\ r.state = "failed"
      BY <1>1 DEF ShapeInv, IsRun
    <3> QED BY <2>1, <3>1 DEF NodeThrows
  <2>2. CASE NodeReturns(b)
    <3>1. PICK w, id :
            RunBecomes(b, Arrived([run[b] EXCEPT !.ctx = Wrote(b, w)], id))
      BY <2>2 DEF NodeReturns
    <3> DEFINE q == [run[b] EXCEPT !.ctx = Wrote(b, w)]
    <3>2. IsRun(q) /\ q.state = "running"
      BY <1>1, WroteFacts
    <3> HIDE DEF q
    <3>3. /\ IsRun(Arrived(q, id))
          /\ Arrived(q, id).state \in {"running", "ok", "failed"}
      BY <3>2, ArrivedFacts
    <3> QED BY <3>1, <3>3 DEF q
  <2> QED BY <2>1, <2>2
<1>3. run' = [run EXCEPT ![b] = r]
  BY <1>2 DEF RunBecomes
<1>4. UNCHANGED <<config, node, next>>
  BY <1>2 DEF RunBecomes
<1>5. \A a \in Runs : run'[a] = IF a = b THEN r ELSE run[a]
  BY <1>1, <1>3 DEF ShapeInv
<1>6. ShapeInv'
  <2>1. run' = [a \in Runs |-> run'[a]]
    BY <1>1, <1>3 DEF ShapeInv
  <2>2. \A a \in Runs : IsRun(run'[a]) /\ (a >= next <=> run'[a].state = "idle")
    BY <1>1, <1>2, <1>5 DEF ShapeInv
  <2> QED BY <1>1, <1>4, <2>1, <2>2 DEF ShapeInv
<1>7. OnlyLastChunkIsAbandoned'
  <2>1. ChunkSize' = ChunkSize /\ Waits' = Waits
    BY <1>4 DEF ChunkSize, Waits, Chunked
  <2>2. InState("running")' \subseteq InState("running")
    BY <1>1, <1>5 DEF InState
  <2>3. InState("failed")' \subseteq InState("failed") \cup {b}
    BY <1>5 DEF InState
  <2>4. b \in InState("running")
    BY <1>1 DEF InState
  <2> QED BY <1>4, <2>1, <2>2, <2>3, <2>4 DEF IInv, OnlyLastChunkIsAbandoned
<1> QED BY <1>6, <1>7 DEF IInv

LEMMA SettleKeeps ==
  ASSUME IInv, Settle
  PROVE  IInv'
<1>1. UNCHANGED <<config, next, run>>
  BY DEF Settle, ResolveAll, ResolveAny, ResolveSome, Reject, Resolve
<1>2. /\ node' \in {"resolved", "rejected"}
      /\ node' = "resolved" /\ Waits = "all" => ChunkEnds
  BY DEF Settle, ResolveAll, ResolveAny, ResolveSome, Reject, Resolve
<1>3. ShapeInv'
  BY <1>1, <1>2 DEF IInv, ShapeInv
<1>4. /\ ChunkSize' = ChunkSize /\ Waits' = Waits
      /\ \A s : InState(s)' = InState(s)
  BY <1>1 DEF ChunkSize, Waits, Chunked, InState
<1>5. ChunkEnds => InState("running") = {}
  <2>1. ASSUME ChunkEnds, NEW b \in Runs, run[b].state = "running" PROVE FALSE
    <3>1. ~ (b >= next)
      BY <2>1 DEF IInv, ShapeInv
    <3>2. b \in 1..(next - 1)
      BY <3>1, NodeExecutorAssumption DEF IInv, ShapeInv, Runs
    <3> QED BY <2>1, <3>2 DEF ChunkEnds
  <2> QED BY <2>1 DEF InState
<1>6. OnlyLastChunkIsAbandoned'
  BY <1>1, <1>2, <1>4, <1>5 DEF IInv, OnlyLastChunkIsAbandoned
<1> QED BY <1>3, <1>6 DEF IInv

LEMMA NextInv == IInv /\ [Next]_vars => IInv'
<1> SUFFICES ASSUME IInv, [Next]_vars PROVE IInv'
  OBVIOUS
<1>1. CASE StartChunk
  BY <1>1, StartKeeps
<1>2. CASE Settle
  BY <1>2, SettleKeeps
<1>3. ASSUME NEW b \in Runs, NodeThrows(b) \/ NodeReturns(b) PROVE IInv'
  BY <1>3, StepKeeps
<1>4. CASE UNCHANGED vars
  BY <1>4 DEF vars, IInv, ShapeInv, OnlyLastChunkIsAbandoned, InState,
              ChunkSize, Chunked, Waits
<1> QED BY <1>1, <1>2, <1>3, <1>4 DEF Next

-----------------------------------------------------------------------------
\* Where a run may be, in every reachable state: executeParallel,
\* executeLoop and chunkArray of node.executor.ts.
THEOREM Invariance == Spec => []IInv
BY InitInv, NextInv, PTL DEF Spec

\* A parallel node that waits for all of its branches, and a loop, leave
\* nothing running when they resolve, and the rest of one chunk when they
\* reject.
THEOREM AbandonedCorrect == Spec => []OnlyLastChunkIsAbandoned
<1>1. IInv => OnlyLastChunkIsAbandoned
  BY DEF IInv
<1> QED BY <1>1, Invariance, PTL

\* maxConcurrency, or a loop's concurrency, bounds the runs at work.
THEOREM CapCorrect == Spec => []ConcurrencyIsCapped
<1>1. IInv => ConcurrencyIsCapped
  <2> SUFFICES ASSUME IInv, Chunked
               PROVE  Cardinality(InState("running")) <= config.limit
    BY DEF ConcurrencyIsCapped
  <2> DEFINE chunk == (next - config.limit)..(next - 1)
  <2>1. config.limit \in Nat /\ next \in Nat /\ InState("running") \subseteq chunk
    BY ConfigFacts DEF IInv, ShapeInv, OnlyLastChunkIsAbandoned
  <2>2. IsFiniteSet(chunk) /\ Cardinality(chunk) = config.limit
    <3>1. /\ next - config.limit \in Int /\ next - 1 \in Int
          /\ config.limit > 0
      BY <2>1, ConfigFacts DEF IInv
    <3> DEFINE a == next - config.limit
               z == next - 1
    <3>2. IsFiniteSet(a..z) /\ Cardinality(a..z) = IF a > z THEN 0 ELSE z - a + 1
      BY <3>1, FS_Interval
    <3> QED BY <2>1, <3>1, <3>2
  <2>3. /\ Cardinality(InState("running")) \in Nat
        /\ Cardinality(InState("running")) <= Cardinality(chunk)
    BY <2>1, <2>2, FS_Subset, FS_CardinalityType
  <2> QED BY <2>2, <2>3
<1> QED BY <1>1, Invariance, PTL

\* Both: what runs at once and what is left behind.
THEOREM RunsBounded == Spec => []RunsAreBounded
<1>1. ConcurrencyIsCapped /\ OnlyLastChunkIsAbandoned => RunsAreBounded
  BY DEF RunsAreBounded
<1> QED BY AbandonedCorrect, CapCorrect, <1>1, PTL

-----------------------------------------------------------------------------
(***************************************************************************)
(* What the merge keeps.                                                   *)
(***************************************************************************)
\* Every variable keeps its type, and a run at work is at a node.
TypeInv == TypeOK /\ \A b \in Runs : run[b].state = "running" => run[b].at \in Nodes

\* What a node has merged, it merged from runs that are over.
MergedOnce ==
  node = "resolved" =>
    /\ patch = Merged(results)
    /\ \A i \in DOMAIN results : run[results[i]].state = "ok"

\* A branch has of a key what it wrote itself, or what was there before.
BranchContexts ==
  config.kind = "parallel" =>
    \A b \in Runs, k \in Keys : run[b].ctx[k] \in {0, b}

\* v is the last of the runs up to b that wrote k, or 0 if none did.
LastUpTo(b, k, v) ==
  \/ v = 0 /\ \A c \in 1..b : run[c].ctx[k] # c
  \/ /\ v \in 1..b
     /\ run[v].ctx[k] = v
     /\ \A c \in 1..b : c > v => run[c].ctx[k] # c

\* An iteration of a sequential loop has of a key what the last iteration up
\* to it wrote.
IterationContexts ==
  config.kind # "parallel" /\ config.limit = 1 =>
    /\ node = "resolved" => results = FirstRuns(next - 1)
    /\ \A b \in Runs, k \in Keys : b < next => LastUpTo(b, k, run[b].ctx[k])

MergeInv ==
  IInv /\ TypeInv /\ MergedOnce /\ BranchContexts /\ IterationContexts

\* A set of naturals has a least element.
LEMMA WithMinimum ==
  ASSUME NEW T, T \subseteq Nat, T # {}
  PROVE  \E x \in T : \A y \in T : x <= y
<1>1. PICK x \in T : \A y \in T : ~ (<<y, x>> \in OpToRel(<, Nat))
  BY WFMin, NatLessThanWellFounded
<1>2. \A y \in T : ~ (y < x)
  BY <1>1 DEF OpToRel
<1> QED BY <1>2

\* The last of some positions in a sequence.
LEMMA MaxOfPositions ==
  ASSUME NEW n \in Nat, NEW S, S \subseteq 1..n, S # {}
  PROVE  Max(S) \in S /\ \A y \in S : y <= Max(S)
<1> DEFINE T == {n - i : i \in S}
<1>1. T \subseteq Nat /\ T # {}
  OBVIOUS
<1>2. PICK x \in T : \A y \in T : x <= y
  BY <1>1, WithMinimum
<1>3. PICK m \in S : x = n - m
  BY <1>2
<1>4. \A y \in S : m >= y
  BY <1>2, <1>3
<1>5. \E z \in S : \A y \in S : z >= y
  BY <1>4
<1> QED BY <1>5 DEF Max

\* Max is the one that is not before another.
LEMMA LastPosition ==
  ASSUME NEW n \in Nat, NEW S, S \subseteq 1..n, NEW m \in S, \A y \in S : y <= m
  PROVE  Max(S) = m
<1>1. Max(S) \in S /\ \A y \in S : y <= Max(S)
  BY MaxOfPositions
<1>2. Max(S) <= m /\ m <= Max(S) /\ Max(S) \in 1..n /\ m \in 1..n
  BY <1>1
<1> QED BY <1>2

\* The numbers of a finite set, in their order, are a sequence of them.
LEMMA AscendingIsSeq ==
  ASSUME NEW T, NEW S, S \subseteq T, IsFiniteSet(S), NEW s \in Ascending(S)
  PROVE  /\ s \in Seq(T) /\ Cardinality(S) \in Nat
         /\ DOMAIN s = 1..Cardinality(S)
         /\ \A i \in DOMAIN s : s[i] \in S
<1>1. Cardinality(S) \in Nat
  BY FS_CardinalityType
<1>2. s \in [1..Cardinality(S) -> S]
  BY DEF Ascending
<1> QED BY <1>1, <1>2

\* The value a merge takes is that of the last run that has the key.
LEMMA MergeFacts ==
  ASSUME TypeOK, NEW s \in Seq(Runs), NEW k \in Keys
  PROVE  LET having == {i \in DOMAIN s : Has(run[s[i]].ctx, k)}
         IN  /\ Merged(s)[k] = IF having = {} THEN 0 ELSE run[s[Max(having)]].ctx[k]
             /\ Len(s) \in Nat /\ DOMAIN s = 1..Len(s)
             /\ having # {} => Max(having) \in having /\ \A i \in having : i <= Max(having)
             /\ Merged(s)[k] \in 0..N
<1> DEFINE having == {i \in DOMAIN s : Has(run[s[i]].ctx, k)}
<1>1. Merged(s)[k] = IF having = {} THEN 0 ELSE run[s[Max(having)]].ctx[k]
  BY DEF Merged
<1>2. Len(s) \in Nat /\ DOMAIN s = 1..Len(s) /\ having \subseteq 1..Len(s)
  OBVIOUS
<1>3. having # {} => Max(having) \in having /\ \A i \in having : i <= Max(having)
  <2> HIDE DEF having
  <2> QED BY <1>2, MaxOfPositions
<1>4. Merged(s)[k] \in 0..N
  <2>1. CASE having = {}
    BY <1>1, <2>1, NodeExecutorAssumption
  <2>2. CASE having # {}
    <3>1. Max(having) \in DOMAIN s
      BY <1>2, <1>3, <2>2
    <3>2. s[Max(having)] \in Runs
      BY <3>1
    <3>3. run[s[Max(having)]].ctx \in [Keys -> 0..N]
      BY <3>2 DEF TypeOK, RunStates, Contexts
    <3> HIDE DEF having
    <3> QED BY <1>1, <2>2, <3>3
  <2> QED BY <2>1, <2>2
<1> QED BY <1>1, <1>2, <1>3, <1>4

LEMMA MergedIsContext ==
  ASSUME TypeOK, NEW s \in Seq(Runs)
  PROVE  Merged(s) \in Contexts
<1>1. Merged(s) = [k \in Keys |-> Merged(s)[k]]
  BY DEF Merged
<1>2. \A k \in Keys : Merged(s)[k] \in 0..N
  BY MergeFacts
<1> QED BY <1>1, <1>2 DEF Contexts

LEMMA FirstRunsIsSeq ==
  ASSUME NEW n \in 0..N
  PROVE  FirstRuns(n) \in Seq(Runs) /\ DOMAIN FirstRuns(n) = 1..n
BY NodeExecutorAssumption DEF FirstRuns, Runs

\* Where a run that has come to id is.
LEMMA ArrivedType ==
  ASSUME NEW r \in RunStates, r.state = "running", NEW id \in Ids \cup {NoNode}
  PROVE  /\ Arrived(r, id) \in RunStates
         /\ Arrived(r, id).ctx = r.ctx
         /\ Arrived(r, id).state \in {"running", "ok", "failed"}
         /\ Arrived(r, id).state = "running" => Arrived(r, id).at \in Nodes
<1>1. /\ r.state \in {"idle", "running", "ok", "failed"} /\ r.at \in Ids \cup {NoNode}
      /\ r.visited \in SUBSET Ids /\ r.ctx \in Contexts
  BY DEF RunStates
<1>2. CASE id \in EndNodes \cup {NoNode}
  <2>1. Arrived(r, id) = [r EXCEPT !.state = "ok"]
    BY <1>2 DEF Arrived
  <2> QED BY <2>1 DEF RunStates
<1>3. CASE id \notin EndNodes \cup {NoNode} /\ (id \notin Nodes \/ id \in r.visited)
  <2>1. Arrived(r, id) = [r EXCEPT !.state = "failed"]
    BY <1>3 DEF Arrived
  <2> QED BY <2>1 DEF RunStates
<1>4. CASE id \notin EndNodes \cup {NoNode} /\ id \in Nodes /\ id \notin r.visited
  <2>1. Arrived(r, id) = [r EXCEPT !.at = id, !.visited = @ \cup {id}]
    BY <1>4 DEF Arrived
  <2>2. r.visited \cup {id} \in SUBSET Ids
    BY <1>1, <1>4
  <2> QED BY <1>4, <2>1, <2>2 DEF RunStates
<1> QED BY <1>2, <1>3, <1>4

-----------------------------------------------------------------------------
\* What the steps do to the runs.  Runs that start take over the context the
\* chunk starts from; a run at work goes on with its own.
LEMMA StartShape ==
  ASSUME IInv, TypeInv, StartChunk
  PROVE  /\ node = "running" /\ node' = "running"
         /\ next' = LastOfChunk + 1 /\ LastOfChunk \in next..N /\ next \in 1..N
         /\ UNCHANGED <<config, results, patch>>
         /\ \A b \in 1..(next - 1) : run[b].state = "ok"
         /\ run' \in [Runs -> RunStates]
         /\ \A b \in Runs :
              IF b \in next..LastOfChunk
              THEN /\ run'[b].ctx = StartContext
                   /\ run'[b].state = "running" => run'[b].at \in Nodes
              ELSE run'[b] = run[b]
         /\ StartContext \in Contexts
         /\ order' \in Seq(Runs)
<1>1. /\ TypeOK /\ ShapeInv /\ ChunkEnds /\ next <= N
      /\ N \in Nat \ {0} /\ next \in 1..N /\ LastOfChunk \in next..N
  BY ConfigFacts, LastOfChunkFacts DEF IInv, TypeInv, StartChunk, ShapeInv
<1> DEFINE fresh == [state |-> "running", at |-> NoNode, visited |-> {},
                     ctx |-> StartContext]
           settled == {b \in next..LastOfChunk : run'[b].state # "running"}
<1>2. /\ run' = [b \in Runs |-> IF b \in next..LastOfChunk
                                THEN Arrived(fresh, config.entry[b])
                                ELSE run[b]]
      /\ next' = LastOfChunk + 1
      /\ UNCHANGED <<config, node, results, patch>>
  BY DEF StartChunk, Start, After
<1>3. StartContext \in Contexts
  <2>1. CASE config.kind = "parallel"
    BY <2>1, <1>1 DEF StartContext, Unchanged, Contexts
  <2>2. CASE config.kind # "parallel"
    <3>1. next - 1 \in 0..N
      BY <1>1
    <3> QED BY <1>1, <2>2, <3>1, FirstRunsIsSeq, MergedIsContext DEF StartContext
  <2> QED BY <2>1, <2>2
<1>4. fresh \in RunStates /\ fresh.state = "running" /\ fresh.ctx = StartContext
  BY <1>3 DEF RunStates
<1>5. \A b \in Runs : config.entry[b] \in Ids
  BY <1>1, NodeExecutorAssumption DEF TypeOK
<1>6. \A b \in next..LastOfChunk : b \in Runs
  BY <1>1 DEF Runs
<1>7. \A b \in Runs :
        IF b \in next..LastOfChunk
        THEN /\ run'[b] \in RunStates
             /\ run'[b].ctx = StartContext
             /\ run'[b].state = "running" => run'[b].at \in Nodes
        ELSE run'[b] = run[b]
  <2> SUFFICES ASSUME NEW b \in Runs
               PROVE  IF b \in next..LastOfChunk
                      THEN /\ run'[b] \in RunStates
                           /\ run'[b].ctx = StartContext
                           /\ run'[b].state = "running" => run'[b].at \in Nodes
                      ELSE run'[b] = run[b]
    OBVIOUS
  <2>1. CASE b \in next..LastOfChunk
    <3>1. run'[b] = Arrived(fresh, config.entry[b])
      BY <1>2, <2>1
    <3> HIDE DEF fresh
    <3> QED BY <1>4, <1>5, <2>1, <3>1, ArrivedType
  <2>2. CASE b \notin next..LastOfChunk
    BY <1>2, <2>2
  <2> QED BY <2>1, <2>2
<1>8. run' \in [Runs -> RunStates]
  <2>1. run' = [b \in Runs |-> run'[b]]
    BY <1>2
  <2>2. \A b \in Runs : run'[b] \in RunStates
    BY <1>1, <1>7 DEF TypeOK
  <2> QED BY <2>1, <2>2
<1>9. order' \in Seq(Runs)
  <2>1. \E s \in Ascending(settled) : order' = order \o s
    <3>1. settled = {b \in next..LastOfChunk :
                       [c \in Runs |-> IF c \in next..LastOfChunk
                                       THEN Arrived(fresh, config.entry[c])
                                       ELSE run[c]][b].state # "running"}
      BY <1>2
    <3> QED BY <3>1 DEF StartChunk, Start
  <2>2. IsFiniteSet(settled) /\ settled \subseteq Runs
    <3>1. IsFiniteSet(next..LastOfChunk)
      BY <1>1, FS_Interval
    <3> QED BY <1>6, <3>1, FS_Subset
  <2> HIDE DEF settled
  <2>3. PICK s \in Ascending(settled) : order' = order \o s
    BY <2>1
  <2>4. s \in Seq(Runs)
    BY <2>2, AscendingIsSeq
  <2>5. order \in Seq(Runs)
    BY <1>1 DEF TypeOK
  <2> QED BY <2>3, <2>4, <2>5
<1> QED
  BY <1>1, <1>2, <1>3, <1>7, <1>8, <1>9 DEF ChunkEnds

LEMMA RunShape ==
  ASSUME TypeInv, NEW b \in Runs, NodeThrows(b) \/ NodeReturns(b)
  PROVE  /\ UNCHANGED <<config, node, next, results, patch>>
         /\ run[b].state = "running"
         /\ \E r \in RunStates :
              /\ run' = [run EXCEPT ![b] = r]
              /\ r.state # "idle" /\ (r.state = "running" => r.at \in Nodes)
              /\ \A k \in Keys : r.ctx[k] \in {run[b].ctx[k], b}
         /\ order' \in Seq(Runs)
<1>1. /\ run[b] \in RunStates /\ run[b].state = "running" /\ run[b].at \in Nodes
      /\ order \in Seq(Runs)
  BY DEF TypeInv, TypeOK, NodeThrows, NodeReturns
<1>2. /\ run[b].state \in {"idle", "running", "ok", "failed"}
      /\ run[b].at \in Ids \cup {NoNode}
      /\ run[b].visited \in SUBSET Ids /\ run[b].ctx \in Contexts
  BY <1>1 DEF RunStates
<1>3. PICK r \in RunStates :
        /\ RunBecomes(b, r)
        /\ r.state # "idle" /\ (r.state = "running" => r.at \in Nodes)
        /\ \A k \in Keys : r.ctx[k] \in {run[b].ctx[k], b}
  <2>1. CASE NodeThrows(b)
    <3> DEFINE r == [run[b] EXCEPT !.state = "failed"]
    <3>1. r \in RunStates /\ r.state = "failed" /\ r.ctx = run[b].ctx
      BY <1>1 DEF RunStates
    <3>2. RunBecomes(b, r)
      BY <2>1 DEF NodeThrows
    <3> HIDE DEF r
    <3> QED BY <3>1, <3>2
  <2>2. CASE NodeReturns(b)
    <3>1. PICK w, id :
            /\ id \in Edges[run[b].at]
            /\ RunBecomes(b, Arrived([run[b] EXCEPT !.ctx = Wrote(b, w)], id))
      BY <2>2 DEF NodeReturns
    <3> DEFINE q == [run[b] EXCEPT !.ctx = Wrote(b, w)]
    <3>2. Wrote(b, w) \in Contexts /\ \A k \in Keys : Wrote(b, w)[k] \in {run[b].ctx[k], b}
      BY <1>2, NodeExecutorAssumption DEF Wrote, Contexts, Runs
    <3>3. q \in RunStates /\ q.state = "running" /\ q.ctx = Wrote(b, w)
      BY <1>1, <3>2 DEF RunStates
    <3>4. id \in Ids \cup {NoNode}
      BY <1>1, <3>1, NodeExecutorAssumption
    <3> HIDE DEF q
    <3>5. /\ Arrived(q, id) \in RunStates /\ Arrived(q, id).ctx = q.ctx
          /\ Arrived(q, id).state \in {"running", "ok", "failed"}
          /\ Arrived(q, id).state = "running" => Arrived(q, id).at \in Nodes
      BY <3>3, <3>4, ArrivedType
    <3>6. RunBecomes(b, Arrived(q, id))
      BY <3>1 DEF q
    <3> QED BY <3>2, <3>3, <3>5, <3>6
  <2> QED BY <2>1, <2>2
<1>4. run' = [run EXCEPT ![b] = r] /\ UNCHANGED <<config, node, next, results, patch>>
  BY <1>3 DEF RunBecomes
<1>5. order' \in Seq(Runs)
  BY <1>1, <1>3 DEF RunBecomes
<1> QED BY <1>1, <1>3, <1>4, <1>5

\* A node that resolves merges runs that are over, a loop all that began.
LEMMA SettleShape ==
  ASSUME IInv, TypeInv, Settle
  PROVE  /\ UNCHANGED <<config, next, run, order>>
         /\ node = "running"
         /\ \/ node' = "rejected" /\ UNCHANGED <<results, patch>>
            \/ /\ node' = "resolved"
               /\ results' \in Seq(Runs) /\ patch' = Merged(results')
               /\ \A i \in DOMAIN results' : run[results'[i]].state = "ok"
               /\ config.kind # "parallel" => results' = FirstRuns(next - 1)
<1>1. /\ N \in Nat \ {0} /\ next \in 1..(N + 1) /\ order \in Seq(Runs)
      /\ Len(order) \in Nat /\ DOMAIN order = 1..Len(order)
  BY NodeExecutorAssumption DEF TypeInv, TypeOK
<1>2. config.minRequired \in Nat
  BY NodeExecutorAssumption DEF TypeInv, TypeOK
<1>3. config.kind # "parallel" => Waits = "all"
  BY DEF Waits, Chunked
<1>4. CASE ResolveAll
  <2>1. Resolve(FirstRuns(next - 1)) /\ ChunkEnds
    BY <1>4 DEF ResolveAll
  <2>2. next - 1 \in 0..N
    BY <1>1
  <2>3. /\ FirstRuns(next - 1) \in Seq(Runs)
        /\ \A i \in DOMAIN FirstRuns(next - 1) : run[FirstRuns(next - 1)[i]].state = "ok"
    BY <2>1, <2>2, FirstRunsIsSeq DEF FirstRuns, ChunkEnds
  <2> QED BY <2>1, <2>3 DEF Resolve, ChunkEnds
<1>5. CASE ResolveAny
  <2>1. /\ Resolve(<<order[1]>>) /\ order # <<>> /\ run[order[1]].state = "ok"
        /\ node = "running" /\ Waits = "any"
    BY <1>5 DEF ResolveAny
  <2>2. order[1] \in Runs
    BY <1>1, <2>1
  <2> QED BY <1>3, <2>1, <2>2 DEF Resolve
<1>6. CASE ResolveSome
  <2>1. node = "running" /\ Waits = "n_of_m" /\ Cardinality(Succeeded) >= config.minRequired
    BY <1>6 DEF ResolveSome
  <2>2. PICK won \in Ascending(Succeeded) :
          Resolve([i \in 1..config.minRequired |-> order[won[i]]])
    BY <1>6 DEF ResolveSome
  <2>3. IsFiniteSet(Succeeded) /\ Succeeded \subseteq DOMAIN order
    <3>1. IsFiniteSet(1..Len(order))
      BY <1>1, FS_Interval
    <3> QED BY <1>1, <3>1, FS_Subset DEF Succeeded
  <2>4. /\ Cardinality(Succeeded) \in Nat /\ DOMAIN won = 1..Cardinality(Succeeded)
        /\ \A i \in DOMAIN won : won[i] \in Succeeded
    BY <2>3, AscendingIsSeq
  <2> DEFINE s == [i \in 1..config.minRequired |-> order[won[i]]]
  <2>5. \A i \in 1..config.minRequired : order[won[i]] \in Runs /\ run[order[won[i]]].state = "ok"
    <3> SUFFICES ASSUME NEW i \in 1..config.minRequired
                 PROVE  order[won[i]] \in Runs /\ run[order[won[i]]].state = "ok"
      OBVIOUS
    <3>1. won[i] \in Succeeded
      BY <1>2, <2>1, <2>4
    <3>2. won[i] \in DOMAIN order /\ run[order[won[i]]].state = "ok"
      BY <3>1 DEF Succeeded
    <3> QED BY <1>1, <3>2
  <2>6. s \in Seq(Runs) /\ \A i \in DOMAIN s : run[s[i]].state = "ok"
    BY <1>2, <2>5
  <2>7. Resolve(s)
    BY <2>2
  <2> HIDE DEF s
  <2> QED BY <1>3, <2>1, <2>6, <2>7 DEF Resolve
<1>7. CASE Reject
  BY <1>7 DEF Reject
<1> QED BY <1>4, <1>5, <1>6, <1>7 DEF Settle

-----------------------------------------------------------------------------
LEMMA TypeInit == Init => TypeInv
<1> SUFFICES ASSUME Init PROVE TypeInv
  OBVIOUS
<1>1. Unchanged \in Contexts
  BY NodeExecutorAssumption DEF Unchanged, Contexts
<1>2. [state |-> "idle", at |-> NoNode, visited |-> {}, ctx |-> Unchanged] \in RunStates
  BY <1>1 DEF RunStates
<1>3. TypeOK
  BY <1>1, <1>2, NodeExecutorAssumption DEF Init, TypeOK, Runs
<1> QED BY <1>3 DEF Init, TypeInv

LEMMA TypeStep ==
  ASSUME IInv, TypeInv, [Next]_vars
  PROVE  TypeInv'
<1>1. /\ config' \in Configs /\ node' \in {"running", "resolved", "rejected"}
      /\ next' \in 1..(N + 1)
      /\ \A b \in Runs : b >= next' <=> run'[b].state = "idle"
  BY NextInv DEF IInv, ShapeInv
<1>2. TypeOK
  BY DEF TypeInv
<1>3. CASE StartChunk
  BY <1>1, <1>2, <1>3, StartShape DEF TypeInv, TypeOK
<1>4. CASE Settle
  <2>1. CASE node' = "rejected" /\ UNCHANGED <<results, patch>>
    BY <1>1, <1>2, <1>4, <2>1, SettleShape DEF TypeInv, TypeOK
  <2>2. CASE results' \in Seq(Runs) /\ patch' = Merged(results')
    <3>1. patch' \in Contexts
      BY <1>2, <2>2, MergedIsContext
    <3> QED BY <1>1, <1>2, <1>4, <2>2, <3>1, SettleShape DEF TypeInv, TypeOK
  <2> QED BY <1>4, <2>1, <2>2, SettleShape
<1>5. ASSUME NEW b \in Runs, NodeThrows(b) \/ NodeReturns(b)
      PROVE  TypeInv'
  <2>1. PICK r \in RunStates : /\ run' = [run EXCEPT ![b] = r]
                               /\ r.state = "running" => r.at \in Nodes
    BY <1>5, RunShape
  <2>2. run' \in [Runs -> RunStates] /\ \A a \in Runs : run'[a] = IF a = b THEN r ELSE run[a]
    BY <1>2, <2>1 DEF TypeOK
  <2>3. UNCHANGED <<results, patch>> /\ order' \in Seq(Runs)
    BY <1>5, RunShape
  <2> QED BY <1>1, <1>2, <2>1, <2>2, <2>3 DEF TypeInv, TypeOK
<1>6. CASE UNCHANGED vars
  BY <1>2, <1>6 DEF vars, TypeInv, TypeOK
<1> QED BY <1>3, <1>4, <1>5, <1>6 DEF Next

\* A merge looks at the runs it merges and no others.
LEMMA MergeLooksAt ==
  ASSUME TypeOK, NEW s \in Seq(Runs), \A i \in DOMAIN s : run'[s[i]].ctx = run[s[i]].ctx
  PROVE  Merged(s)' = Merged(s)
<1>1. \A k \in Keys : {i \in DOMAIN s : Has(run'[s[i]].ctx, k)}
                        = {i \in DOMAIN s : Has(run[s[i]].ctx, k)}
  BY DEF Has
<1> SUFFICES ASSUME NEW k \in Keys
             PROVE  (LET having == {i \in DOMAIN s : Has(run'[s[i]].ctx, k)}
                     IN  IF having = {} THEN 0 ELSE run'[s[Max(having)]].ctx[k])
                    = (LET having == {i \in DOMAIN s : Has(run[s[i]].ctx, k)}
                       IN  IF having = {} THEN 0 ELSE run[s[Max(having)]].ctx[k])
  BY DEF Merged
<1> DEFINE having == {i \in DOMAIN s : Has(run[s[i]].ctx, k)}
<1>2. having # {} => Max(having) \in DOMAIN s
  BY MergeFacts
<1>3. {i \in DOMAIN s : Has(run'[s[i]].ctx, k)} = having
  BY <1>1
<1> HIDE DEF having
<1>4. having # {} => run'[s[Max(having)]].ctx = run[s[Max(having)]].ctx
  BY <1>2
<1> QED BY <1>3, <1>4 DEF having

LEMMA MergedOnceStep ==
  ASSUME IInv, TypeInv, MergedOnce, [Next]_vars
  PROVE  MergedOnce'
<1>1. TypeOK
  BY DEF TypeInv
<1>2. CASE StartChunk
  BY <1>2, StartShape DEF MergedOnce
<1>3. CASE Settle
  <2>1. CASE node' = "rejected"
    BY <2>1 DEF MergedOnce
  <2>2. CASE /\ results' \in Seq(Runs) /\ patch' = Merged(results')
             /\ \A i \in DOMAIN results' : run[results'[i]].state = "ok"
    <3>1. UNCHANGED run
      BY <1>3, SettleShape
    <3> QED BY <2>2, <3>1 DEF MergedOnce, Merged, Has
  <2> QED BY <1>3, <2>1, <2>2, SettleShape
<1>4. ASSUME NEW b \in Runs, NodeThrows(b) \/ NodeReturns(b), node = "resolved"
      PROVE  MergedOnce'
  <2>1. UNCHANGED <<results, patch>> /\ run[b].state = "running"
    BY <1>4, RunShape
  <2>2. PICK r : run' = [run EXCEPT ![b] = r]
    BY <1>4, RunShape
  <2>3. \A a \in Runs : a # b => run'[a] = run[a]
    BY <1>1, <2>2 DEF TypeOK
  <2> SUFFICES ASSUME NEW s, s = results
               PROVE  MergedOnce'
    OBVIOUS
  <2>4. s \in Seq(Runs) /\ patch = Merged(s) /\ \A i \in DOMAIN s : run[s[i]].state = "ok"
    BY <1>1, <1>4 DEF MergedOnce, TypeOK
  <2>5. \A i \in DOMAIN s : s[i] \in Runs /\ run'[s[i]] = run[s[i]]
    BY <2>1, <2>3, <2>4
  <2>6. Merged(s)' = Merged(s)
    BY <1>1, <2>4, <2>5, MergeLooksAt
  <2>7. patch' = Merged(s)' /\ \A i \in DOMAIN s : run'[s[i]].state = "ok"
    BY <2>1, <2>4, <2>5, <2>6
  <2>8. results' = s
    BY <2>1
  <2>9. Merged(s)' = Merged(results)'
    BY <2>8 DEF Merged, Has
  <2>10. patch' = Merged(results)' /\ \A i \in DOMAIN results' : run'[results'[i]].state = "ok"
    BY ONLY <2>7, <2>8, <2>9
  <2> QED BY ONLY <2>10 DEF MergedOnce
<1>5. ASSUME NEW b \in Runs, NodeThrows(b) \/ NodeReturns(b), node # "resolved"
      PROVE  MergedOnce'
  BY <1>5, RunShape DEF MergedOnce
<1>6. CASE UNCHANGED vars
  BY <1>6 DEF vars, MergedOnce, Merged, Has
<1> QED BY <1>2, <1>3, <1>4, <1>5, <1>6 DEF Next

LEMMA BranchStep ==
  ASSUME IInv, TypeInv, BranchContexts, [Next]_vars
  PROVE  BranchContexts'
<1> SUFFICES ASSUME config'.kind = "parallel", NEW b \in Runs, NEW k \in Keys
             PROVE  run'[b].ctx[k] \in {0, b}
  BY DEF BranchContexts
<1>1. TypeOK
  BY DEF TypeInv
<1>2. CASE StartChunk
  <2>1. UNCHANGED config
    BY <1>2, StartShape
  <2>2. StartContext[k] = 0
    BY <2>1 DEF StartContext, Unchanged
  <2>3. CASE b \in next..LastOfChunk
    BY <1>2, <2>2, <2>3, StartShape
  <2>4. CASE b \notin next..LastOfChunk
    BY <1>2, <2>1, <2>4, StartShape DEF BranchContexts
  <2> QED BY <2>3, <2>4
<1>3. CASE Settle
  BY <1>3, SettleShape DEF BranchContexts
<1>4. ASSUME NEW a \in Runs, NodeThrows(a) \/ NodeReturns(a)
      PROVE  run'[b].ctx[k] \in {0, b}
  <2>1. PICK r : run' = [run EXCEPT ![a] = r] /\ r.ctx[k] \in {run[a].ctx[k], a}
    BY <1>4, RunShape
  <2>2. run'[b] = IF b = a THEN r ELSE run[b]
    BY <1>1, <2>1 DEF TypeOK
  <2>3. UNCHANGED config
    BY <1>4, RunShape
  <2> QED BY <2>1, <2>2, <2>3 DEF BranchContexts
<1>5. CASE UNCHANGED vars
  BY <1>5 DEF vars, BranchContexts
<1> QED BY <1>2, <1>3, <1>4, <1>5 DEF Next

\* What the iterations up to n have merged is what the last of them has.
LEMMA MergedIterations ==
  ASSUME TypeOK, NEW n \in 0..N, NEW k \in Keys,
         \A b \in 1..n : LastUpTo(b, k, run[b].ctx[k])
  PROVE  /\ Merged(FirstRuns(n))[k] = IF n = 0 THEN 0 ELSE run[n].ctx[k]
         /\ LastUpTo(n, k, Merged(FirstRuns(n))[k])
<1> DEFINE s == FirstRuns(n)
           having == {i \in DOMAIN s : Has(run[s[i]].ctx, k)}
<1>1. /\ s \in Seq(Runs) /\ DOMAIN s = 1..n /\ n \in Nat
      /\ \A i \in 1..n : s[i] = i /\ i \in Runs
  BY FirstRunsIsSeq, NodeExecutorAssumption DEF FirstRuns, Runs
<1>2. /\ Merged(s)[k] = IF having = {} THEN 0 ELSE run[s[Max(having)]].ctx[k]
      /\ having # {} => Max(having) \in having /\ \A i \in having : i <= Max(having)
  <2> HIDE DEF s
  <2> QED BY <1>1, MergeFacts
<1>3. having = {i \in 1..n : k \in BaseKeys \/ run[i].ctx[k] # 0}
  BY <1>1 DEF Has
<1>4. Merged(FirstRuns(n))[k] = Merged(s)[k]
  OBVIOUS
<1> HIDE DEF s
<1>5. CASE n = 0
  <2>1. having = {}
    BY <1>3, <1>5
  <2>2. 1..n = {}
    BY <1>5
  <2> QED BY <1>2, <1>4, <1>5, <2>1, <2>2 DEF LastUpTo
<1>6. CASE n # 0 /\ having = {}
  <2>1. run[n].ctx[k] = 0 /\ n \in 1..n
    BY <1>1, <1>3, <1>6
  <2> QED BY <1>2, <1>4, <1>6, <2>1
<1>7. CASE n # 0 /\ having # {}
  <2>1. PICK m \in having : m = Max(having) /\ \A i \in having : i <= m
    BY <1>2, <1>7
  <2>2. m \in 1..n /\ (k \in BaseKeys \/ run[m].ctx[k] # 0)
    BY <1>3, <2>1
  <2>3. n \in 1..n /\ LastUpTo(n, k, run[n].ctx[k]) /\ LastUpTo(m, k, run[m].ctx[k])
    BY <1>1, <1>7, <2>2
  <2>4. n \in having
    <3>1. CASE k \in BaseKeys
      BY <1>3, <2>3, <3>1
    <3>2. CASE run[m].ctx[k] # 0
      <4>1. PICK v \in 1..m : run[v].ctx[k] = v
        BY <2>3, <3>2 DEF LastUpTo
      <4>2. v \in 1..n /\ v # 0
        BY <1>1, <2>2, <4>1
      <4>3. run[n].ctx[k] # 0
        <5>1. run[n].ctx[k] = 0 => run[v].ctx[k] # v
          BY <1>1, <2>3, <4>2 DEF LastUpTo
        <5> QED BY <4>1, <5>1
      <4> QED BY <1>3, <2>3, <4>3
    <3> QED BY <2>2, <3>1, <3>2
  <2>5. m = n
    <3>1. n <= m
      BY ONLY <2>1, <2>4
    <3>2. n \in Nat /\ m \in Nat /\ m <= n
      BY ONLY <1>1, <2>2
    <3> QED BY ONLY <3>1, <3>2
  <2>6. Merged(s)[k] = run[n].ctx[k]
    BY <1>1, <1>2, <1>7, <2>1, <2>2, <2>5
  <2> QED BY <1>4, <1>7, <2>3, <2>6
<1> QED BY <1>5, <1>6, <1>7

\* A sequential loop starts an iteration from what the last one has.
LEMMA IterationStep ==
  ASSUME IInv, TypeInv, IterationContexts, [Next]_vars
  PROVE  IterationContexts'
<1> SUFFICES ASSUME config'.kind # "parallel", config'.limit = 1
             PROVE  /\ node' = "resolved" => results' = FirstRuns(next' - 1)
                    /\ \A b \in Runs, k \in Keys :
                         b < next' => LastUpTo(b, k, run[b].ctx[k])'
  BY DEF IterationContexts, FirstRuns
<1>1. /\ TypeOK /\ N \in Nat \ {0} /\ next \in 1..(N + 1) /\ Runs = 1..N
      /\ UNCHANGED config
  <2>1. UNCHANGED config
    BY StartShape, SettleShape, RunShape DEF Next, vars
  <2> QED BY <2>1, NodeExecutorAssumption DEF TypeInv, TypeOK, Runs
<1>2. /\ node = "resolved" => results = FirstRuns(next - 1)
      /\ \A b \in Runs, k \in Keys : b < next => LastUpTo(b, k, run[b].ctx[k])
  BY <1>1 DEF IterationContexts
<1>3. ChunkSize = 1
  BY <1>1 DEF ChunkSize, Chunked
\* Of the runs before, nothing changes.
<1>4. ASSUME NEW b \in Runs, NEW k \in Keys, b < next,
             \A c \in 1..b : run'[c].ctx[k] = run[c].ctx[k]
      PROVE  LastUpTo(b, k, run[b].ctx[k])'
  <2>1. LastUpTo(b, k, run[b].ctx[k]) /\ b \in 1..b
    BY <1>1, <1>2, <1>4
  <2> QED BY <1>4, <2>1 DEF LastUpTo
<1>5. CASE StartChunk
  <2>1. /\ node' = "running" /\ next' = LastOfChunk + 1 /\ next \in 1..N
        /\ \A b \in Runs : IF b \in next..LastOfChunk
                           THEN run'[b].ctx = StartContext ELSE run'[b] = run[b]
    BY <1>5, StartShape
  <2>2. LastOfChunk = next
    BY <1>1, <1>3, <2>1 DEF LastOfChunk
  <2>3. \A b \in Runs : b < next => run'[b] = run[b]
    BY <1>1, <2>1, <2>2
  <2>4. ASSUME NEW b \in Runs, NEW k \in Keys, b < next'
        PROVE  LastUpTo(b, k, run[b].ctx[k])'
    <3>1. CASE b < next
      <4>1. \A c \in 1..b : c \in Runs /\ c < next
        BY <1>1, <3>1
      <4> QED BY <1>4, <2>3, <3>1, <4>1
    <3>2. CASE b = next
      <4> DEFINE v == Merged(FirstRuns(next - 1))[k]
      <4>1. run'[b].ctx[k] = v
        BY <1>1, <2>1, <2>2, <3>2 DEF StartContext
      <4>2. next - 1 \in 0..N /\ \A c \in 1..(next - 1) : c \in Runs /\ c < next
        BY <1>1, <2>1
      <4>3. LastUpTo(next - 1, k, v)
        <5> SUFFICES ASSUME NEW n \in 0..N, n = next - 1
                     PROVE  LastUpTo(n, k, Merged(FirstRuns(n))[k])
          BY <4>2
        <5> QED BY <1>1, <1>2, <4>2, MergedIterations
      <4>4. \A c \in 1..(next - 1) : run'[c].ctx[k] = run[c].ctx[k]
        BY <2>3, <4>2
      <4> HIDE DEF v
      <4>5. \/ v = 0 /\ \A c \in 1..(next - 1) : run'[c].ctx[k] # c
            \/ /\ v \in 1..(next - 1) /\ run'[v].ctx[k] = v
               /\ \A c \in 1..(next - 1) : c > v => run'[c].ctx[k] # c
        BY <4>3, <4>4 DEF LastUpTo
      <4>6. \A c \in 1..next : c \in 1..(next - 1) \/ c = next
        BY <1>1
      <4>7. v # next /\ (v \in 1..(next - 1) => v \in 1..next)
        BY <1>1, <4>5
      <4>8. \/ v = 0 /\ \A c \in 1..next : run'[c].ctx[k] # c
            \/ /\ v \in 1..next /\ run'[v].ctx[k] = v
               /\ \A c \in 1..next : c > v => run'[c].ctx[k] # c
        BY <3>2, <4>1, <4>5, <4>6, <4>7
      <4> QED BY <3>2, <4>1, <4>8 DEF LastUpTo
    <3> QED BY <1>1, <2>1, <2>2, <2>4, <3>1, <3>2
  <2> QED BY <2>1, <2>4
<1>6. CASE Settle
  <2>1. UNCHANGED <<run, next>> /\ (node' = "resolved" => results' = FirstRuns(next - 1))
    BY <1>1, <1>6, SettleShape
  <2> QED BY <1>2, <2>1 DEF LastUpTo, FirstRuns
<1>7. ASSUME NEW a \in Runs, NodeThrows(a) \/ NodeReturns(a)
      PROVE  /\ node' = "resolved" => results' = FirstRuns(next' - 1)
             /\ \A b \in Runs, k \in Keys :
                  b < next' => LastUpTo(b, k, run[b].ctx[k])'
  <2>1. UNCHANGED <<node, next, results>> /\ run[a].state = "running"
    BY <1>7, RunShape
  <2>2. PICK r : /\ run' = [run EXCEPT ![a] = r]
                 /\ \A k \in Keys : r.ctx[k] \in {run[a].ctx[k], a}
    BY <1>7, RunShape
  <2>3. \A c \in Runs : run'[c] = IF c = a THEN r ELSE run[c]
    BY <1>1, <2>2 DEF TypeOK
  <2>4. a = next - 1
    <3>1. a \in InState("running")
      BY <2>1 DEF InState
    <3>2. a \in (next - 1)..(next - 1)
      BY <1>3, <3>1 DEF IInv, OnlyLastChunkIsAbandoned
    <3> QED BY <1>1, <3>2
  <2>5. ASSUME NEW b \in Runs, NEW k \in Keys, b < next
        PROVE  LastUpTo(b, k, run[b].ctx[k])'
    <3>1. \A c \in 1..b : c \in Runs
      BY <1>1, <2>5
    <3>2. CASE b = a /\ r.ctx[k] = a
      <4>1. run'[a].ctx[k] = a /\ a \in 1..a
        BY <1>1, <2>3, <3>2
      <4>2. \A c \in 1..a : ~ (c > a)
        BY <1>1
      <4> QED BY <3>2, <4>1, <4>2 DEF LastUpTo
    <3>3. CASE b = a /\ r.ctx[k] = run[a].ctx[k]
      <4>1. \A c \in 1..b : run'[c].ctx[k] = run[c].ctx[k]
        BY <2>3, <3>1, <3>3
      <4> QED BY <1>4, <2>5, <4>1
    <3>4. CASE b # a
      <4>1. \A c \in 1..b : c # a
        BY <1>1, <2>4, <2>5, <3>4
      <4>2. \A c \in 1..b : run'[c].ctx[k] = run[c].ctx[k]
        BY <2>3, <3>1, <4>1
      <4> QED BY <1>4, <2>5, <4>2
    <3> QED BY <2>2, <3>2, <3>3, <3>4
  <2> QED BY <1>2, <2>1, <2>5 DEF FirstRuns
<1>8. CASE UNCHANGED vars
  <2>1. UNCHANGED <<node, next, results, run>>
    BY <1>8 DEF vars
  <2> QED BY <1>2, <2>1 DEF LastUpTo, FirstRuns
<1> QED BY <1>5, <1>6, <1>7, <1>8 DEF Next

LEMMA MergeStep == MergeInv /\ [Next]_vars => MergeInv'
<1> SUFFICES ASSUME MergeInv, [Next]_vars PROVE MergeInv'
  OBVIOUS
<1> QED
  BY NextInv, TypeStep, MergedOnceStep, BranchStep, IterationStep DEF MergeInv

LEMMA MergeInit == Init => MergeInv
<1> SUFFICES ASSUME Init PROVE MergeInv
  OBVIOUS
<1>1. IInv /\ TypeInv
  BY InitInv, TypeInit
<1>2. MergedOnce
  BY DEF Init, MergedOnce
<1>3. BranchContexts
  BY DEF Init, BranchContexts, Unchanged
<1>4. IterationContexts
  BY DEF Init, IterationContexts, Runs
<1> QED BY <1>1, <1>2, <1>3, <1>4 DEF MergeInv

-----------------------------------------------------------------------------
\* What the runs' contexts hold, and what a node that resolved made of them.
THEOREM MergeInvariance == Spec => []MergeInv
BY MergeInit, MergeStep, PTL DEF Spec

\* The configuration, the runs and the promises keep their types.
THEOREM TypeCorrect == Spec => []TypeOK
<1>1. MergeInv => TypeOK
  BY DEF MergeInv, TypeInv
<1> QED BY <1>1, MergeInvariance, PTL

\* mergeContext in executeParallel and executeLoop: the last merged branch
\* wins a key the branches add, the last iteration every key of a sequential
\* loop.
THEOREM PatchCorrect == Spec => []PatchIsLastWriter
<1>1. ASSUME MergeInv
      PROVE  PatchIsLastWriter
  <2> SUFFICES ASSUME node = "resolved", NEW k \in Keys,
                      \/ config.kind = "parallel" /\ k \notin BaseKeys
                      \/ config.kind # "parallel" /\ config.limit = 1
               PROVE  patch[k] = LastWriter(k)
    BY DEF PatchIsLastWriter
  <2> DEFINE writers == {i \in DOMAIN results : run[results[i]].ctx[k] = results[i]}
             having == {i \in DOMAIN results : Has(run[results[i]].ctx, k)}
  <2>1. /\ TypeOK /\ N \in Nat \ {0} /\ next \in 1..(N + 1) /\ Runs = 1..N
        /\ results \in Seq(Runs) /\ patch = Merged(results)
    BY <1>1, NodeExecutorAssumption DEF MergeInv, TypeInv, TypeOK, MergedOnce, Runs
  <2>2. LastWriter(k) = IF writers = {} THEN 0 ELSE results[Max(writers)]
    BY DEF LastWriter
  <2>3. CASE config.kind = "parallel" /\ k \notin BaseKeys
    <3>1. /\ patch[k] = IF having = {} THEN 0 ELSE run[results[Max(having)]].ctx[k]
          /\ having # {} => Max(having) \in having
      BY <2>1, MergeFacts
    <3>2. \A i \in DOMAIN results :
            results[i] \in Runs /\ run[results[i]].ctx[k] \in {0, results[i]}
      BY <1>1, <2>1, <2>3 DEF MergeInv, BranchContexts
    <3>3. \A i \in DOMAIN results :
            Has(run[results[i]].ctx, k) <=> run[results[i]].ctx[k] = results[i]
      BY <2>1, <2>3, <3>2 DEF Has
    <3>4. having = writers
      BY <3>3
    <3> QED BY <2>2, <3>1, <3>4
  <2>4. CASE config.kind # "parallel" /\ config.limit = 1
    <3> DEFINE n == next - 1
    <3>1. /\ results = FirstRuns(n)
          /\ \A b \in 1..n : LastUpTo(b, k, run[b].ctx[k])
      BY <1>1, <2>1, <2>4 DEF MergeInv, IterationContexts
    <3>2. n \in 0..N /\ DOMAIN results = 1..n /\ \A i \in 1..n : results[i] = i
      BY <2>1, <3>1 DEF FirstRuns
    <3>3. LastUpTo(n, k, patch[k])
      <4> HIDE DEF n
      <4> QED BY <2>1, <3>1, <3>2, MergedIterations
    <3>4. writers = {i \in 1..n : run[i].ctx[k] = i}
      BY <3>2
    <3>5. CASE patch[k] = 0 /\ \A c \in 1..n : run[c].ctx[k] # c
      BY <2>2, <3>4, <3>5
    <3>6. CASE /\ patch[k] \in 1..n /\ run[patch[k]].ctx[k] = patch[k]
               /\ \A c \in 1..n : c > patch[k] => run[c].ctx[k] # c
      <4> HIDE DEF n
      <4>1. /\ patch[k] \in writers /\ writers \subseteq 1..n /\ n \in Nat
            /\ \A i \in writers : i <= patch[k]
        BY <3>2, <3>4, <3>6
      <4> HIDE DEF writers
      <4>2. Max(writers) = patch[k]
        BY <4>1, LastPosition
      <4> QED BY <2>2, <3>2, <3>6, <4>1, <4>2
    <3> QED BY <3>3, <3>5, <3>6 DEF LastUpTo
  <2> QED BY <2>3, <2>4
<1> QED BY <1>1, MergeInvariance, PTL

-----------------------------------------------------------------------------
(***************************************************************************)
(* Composite nodes settle.  Every step is something that had not happened  *)
(* before, of finitely many things that may; and as long as the node has   *)
(* not settled something may happen, be it the next chunk, an answer to    *)
(* the caller or a step of a run at work.                                  *)
(***************************************************************************)
\* What may happen: the node settles, the run b begins, is over, visits n.
Events ==
  {"settled", "begun", "over", "visited"} \X ((0..N) \X (Nodes \cup {NoNode}))

Past ==
  {e \in Events :
     \/ e[1] = "settled" /\ node # "running"
     \/ e[1] = "begun" /\ e[2][1] \in 1..(next - 1)
     \/ e[1] = "over" /\ e[2][1] \in InState("ok") \cup InState("failed")
     \/ e[1] = "visited" /\ e[2][1] \in Runs /\ e[2][2] \in run[e[2][1]].visited}

StepIsNew == Past \subseteq Past' /\ Past # Past'

\* The order lists the runs that are over, each once.
OrderInv ==
  /\ \A b \in Runs :
       run[b].state \in {"ok", "failed"} <=> \E i \in DOMAIN order : order[i] = b
  /\ \A i, j \in DOMAIN order : order[i] = order[j] => i = j

\* Without chunks all branches start together.
ProgressInv ==
  /\ MergeInv
  /\ OrderInv
  /\ ~ Chunked => next \in {1, N + 1}
  /\ \A b \in Runs : /\ run[b].visited \subseteq Nodes
                     /\ run[b].state = "idle" => run[b].visited = {}

\* What StartChunk and Settle ask before they do anything.
MayGoOn ==
  \/ ChunkEnds /\ next <= N
  \/ Waits = "all" /\ ChunkEnds /\ next > N
  \/ Waits = "any" /\ order # <<>> /\ run[order[1]].state = "ok"
  \/ Waits = "n_of_m" /\ Cardinality(Succeeded) >= config.minRequired
  \/ Hopeless

\* A node all of whose runs are over is not left waiting: the next chunk
\* starts, or what it waits for has come or cannot come any more.
NodeIsNeverStuck ==
  /\ node = "running" /\ InState("running") = {}
  /\ Waits = "n_of_m" => config.minRequired <= N
  => MayGoOn

\* The numbers of a set in their order are all of them, each once.
LEMMA AscendingFacts ==
  ASSUME NEW S, S \subseteq Nat, IsFiniteSet(S), NEW s \in Ascending(S)
  PROVE  /\ \A i, j \in DOMAIN s : s[i] = s[j] => i = j
         /\ \A x \in S : \E i \in DOMAIN s : s[i] = x
<1> DEFINE n == Cardinality(S)
<1>1. /\ n \in Nat /\ s \in [1..n -> S] /\ DOMAIN s = 1..n
      /\ \A i, j \in 1..n : i < j => s[i] < s[j]
  BY FS_CardinalityType DEF Ascending
<1> HIDE DEF n
<1>2. ASSUME NEW i \in 1..n, NEW j \in 1..n, s[i] = s[j]
      PROVE  i = j
  <2>1. s[i] \in S /\ s[j] \in S
    BY <1>1
  <2>2. s[i] \in Nat /\ s[j] \in Nat
    BY <2>1
  <2>3. ~ (i < j) /\ ~ (j < i)
    BY <1>1, <1>2, <2>2
  <2>4. i \in Int /\ j \in Int
    OBVIOUS
  <2> QED BY ONLY <2>3, <2>4
<1>3. s \in Injection(1..n, S)
  BY <1>1, <1>2 DEF Injection, IsInjective
<1>n. n \in Nat
  BY <1>1
<1>4. Cardinality(1..n) = n
  <2>1. 1 \in Int /\ n \in Int
    BY ONLY <1>n
  <2>2. Cardinality(1..n) = IF 1 > n THEN 0 ELSE n - 1 + 1
    BY ONLY <2>1, FS_Interval
  <2> QED BY ONLY <1>n, <2>2
<1>5. s \in Surjection(1..n, S)
  <2>1. Cardinality(1..n) = Cardinality(S)
    BY <1>4 DEF n
  <2> QED BY ONLY <1>3, <2>1, IsFiniteSet(S), FS_Injection
<1>6. \A x \in S : \E i \in 1..n : s[i] = x
  BY <1>5 DEF Surjection
<1> QED BY <1>1, <1>2, <1>6

\* A sequence is lengthened by another that has other elements.
LEMMA LongerFacts ==
  ASSUME NEW T, NEW q \in Seq(T), NEW s \in Seq(T),
         \A i, j \in DOMAIN q : q[i] = q[j] => i = j,
         \A i, j \in DOMAIN s : s[i] = s[j] => i = j,
         \A i \in DOMAIN q, j \in DOMAIN s : q[i] # s[j]
  PROVE  LET r == q \o s
         IN  /\ \A i, j \in DOMAIN r : r[i] = r[j] => i = j
             /\ \A x : (\E i \in DOMAIN r : r[i] = x) <=>
                         \/ \E i \in DOMAIN q : q[i] = x
                         \/ \E i \in DOMAIN s : s[i] = x
<1> DEFINE r == q \o s
           m == Len(q)
           n == Len(s)
<1>1. /\ m \in Nat /\ n \in Nat /\ DOMAIN q = 1..m /\ DOMAIN s = 1..n
      /\ DOMAIN r = 1..(m + n)
      /\ \A i \in 1..m : r[i] = q[i]
      /\ \A i \in 1..(m + n) : i > m => r[i] = s[i - m]
  OBVIOUS
<1> HIDE DEF r, m, n
<1>2. \A i \in 1..(m + n) : i \in 1..m \/ (i > m /\ i - m \in 1..n)
  BY <1>1
<1>3. \A i \in 1..n : m + i \in 1..(m + n) /\ m + i > m /\ (m + i) - m = i
  BY <1>1
<1>4. \A i \in 1..m : i \in 1..(m + n)
  BY <1>1
<1>5. ASSUME NEW i \in 1..(m + n), NEW j \in 1..(m + n), r[i] = r[j]
      PROVE  i = j
  <2>1. CASE i \in 1..m /\ j \in 1..m
    BY <1>1, <1>5, <2>1
  <2>2. CASE i > m /\ j > m
    <3>1. i - m \in 1..n /\ j - m \in 1..n /\ s[i - m] = s[j - m]
      BY <1>1, <1>2, <1>5, <2>2
    <3>2. i - m = j - m
      BY <1>1, <3>1
    <3> QED BY <1>1, <3>2
  <2>3. CASE i \in 1..m /\ j > m
    BY <1>1, <1>2, <1>5, <2>3
  <2>4. CASE i > m /\ j \in 1..m
    BY <1>1, <1>2, <1>5, <2>4
  <2> QED BY <1>2, <2>1, <2>2, <2>3, <2>4
<1>6. ASSUME NEW x, NEW i \in 1..(m + n), r[i] = x
      PROVE  (\E j \in 1..m : q[j] = x) \/ \E j \in 1..n : s[j] = x
  BY <1>1, <1>2, <1>6
<1>7. ASSUME NEW x, NEW j \in 1..n, s[j] = x
      PROVE  \E i \in 1..(m + n) : r[i] = x
  <2>1. r[m + j] = x
    BY <1>1, <1>3, <1>7
  <2> QED BY <1>3, <2>1
<1>8. ASSUME NEW x, NEW j \in 1..m, q[j] = x
      PROVE  \E i \in 1..(m + n) : r[i] = x
  BY <1>1, <1>4, <1>8
<1>d. DOMAIN q = 1..m /\ DOMAIN s = 1..n /\ DOMAIN r = 1..(m + n)
  BY <1>1
<1>9. \A x : (\E i \in DOMAIN r : r[i] = x) <=>
               (\E i \in DOMAIN q : q[i] = x) \/ \E i \in DOMAIN s : s[i] = x
  BY ONLY <1>d, <1>6, <1>7, <1>8, Zenon
<1>10. \A i, j \in DOMAIN r : r[i] = r[j] => i = j
  BY <1>1, <1>5
<1> QED BY ONLY <1>9, <1>10, Zenon DEF r

\* Where a run that has come to id has been.
LEMMA ArrivedVisits ==
  ASSUME NEW r \in RunStates, r.state = "running", r.visited \subseteq Nodes, NEW id
  PROVE  /\ Arrived(r, id).visited \subseteq Nodes
         /\ \/ Arrived(r, id).state \in {"ok", "failed"} /\ Arrived(r, id).visited = r.visited
            \/ /\ Arrived(r, id).state = "running"
               /\ id \in Nodes \ r.visited
               /\ Arrived(r, id).visited = r.visited \cup {id}
<1>1. CASE id \in EndNodes \cup {NoNode}
  <2>1. Arrived(r, id) = [r EXCEPT !.state = "ok"]
    BY <1>1 DEF Arrived
  <2> QED BY <2>1 DEF RunStates
<1>2. CASE id \notin EndNodes \cup {NoNode} /\ (id \notin Nodes \/ id \in r.visited)
  <2>1. Arrived(r, id) = [r EXCEPT !.state = "failed"]
    BY <1>2 DEF Arrived
  <2> QED BY <2>1 DEF RunStates
<1>3. CASE id \notin EndNodes \cup {NoNode} /\ id \in Nodes /\ id \notin r.visited
  <2>1. Arrived(r, id) = [r EXCEPT !.at = id, !.visited = @ \cup {id}]
    BY <1>3 DEF Arrived
  <2> QED BY <1>3, <2>1 DEF RunStates
<1> QED BY <1>1, <1>2, <1>3

\* A chunk that starts: its runs had not begun, those that are over at once
\* are noted in order.
LEMMA StartsNew ==
  ASSUME ProgressInv, StartChunk
  PROVE  /\ next' = LastOfChunk + 1 /\ LastOfChunk \in next..N /\ next \in 1..N
         /\ N \in Nat
         /\ UNCHANGED <<config, node>>
         /\ \A b \in Runs :
              IF b \in next..LastOfChunk
              THEN /\ run[b].state = "idle" /\ run[b].visited = {}
                   /\ run'[b].state \in {"running", "ok", "failed"}
                   /\ run'[b].visited \subseteq Nodes
              ELSE run'[b] = run[b]
         /\ OrderInv'
<1>1. /\ next' = LastOfChunk + 1 /\ LastOfChunk \in next..N /\ next \in 1..N
      /\ UNCHANGED config /\ node' = node
      /\ \A b \in Runs : b \notin next..LastOfChunk => run'[b] = run[b]
      /\ StartContext \in Contexts
      /\ N \in Nat
  BY StartShape, NodeExecutorAssumption DEF ProgressInv, MergeInv
<1>2. /\ ShapeInv /\ OrderInv /\ order \in Seq(Runs)
      /\ \A b \in Runs : b >= next => run[b].state = "idle" /\ run[b].visited = {}
  BY DEF ProgressInv, MergeInv, IInv, ShapeInv, TypeInv, TypeOK
<1> DEFINE fresh == [state |-> "running", at |-> NoNode, visited |-> {},
                     ctx |-> StartContext]
           settled == {b \in next..LastOfChunk : run'[b].state # "running"}
<1>3. /\ run' = [b \in Runs |-> IF b \in next..LastOfChunk
                                THEN Arrived(fresh, config.entry[b])
                                ELSE run[b]]
      /\ next' = LastOfChunk + 1
  BY DEF StartChunk, Start, After
<1>4. fresh \in RunStates /\ fresh.state = "running" /\ fresh.visited \subseteq Nodes
  BY <1>1 DEF RunStates
<1>5. \A b \in next..LastOfChunk : b \in Runs /\ b >= next /\ b \in Nat
  BY <1>1 DEF Runs
<1>6. ASSUME NEW b \in next..LastOfChunk
      PROVE  /\ run'[b].state \in {"running", "ok", "failed"}
             /\ run'[b].visited \subseteq Nodes
  <2>1. run'[b] = Arrived(fresh, config.entry[b])
    BY <1>3, <1>5
  <2> HIDE DEF fresh
  <2> QED BY <1>4, <2>1, ArrivedVisits
<1>7. PICK s \in Ascending(settled) : order' = order \o s
  <2>1. settled = {b \in next..LastOfChunk :
                     [c \in Runs |-> IF c \in next..LastOfChunk
                                     THEN Arrived(fresh, config.entry[c])
                                     ELSE run[c]][b].state # "running"}
    BY <1>3
  <2> QED BY <2>1 DEF StartChunk, Start
<1>8. IsFiniteSet(settled) /\ settled \subseteq Runs /\ settled \subseteq Nat
  <2>1. IsFiniteSet(next..LastOfChunk)
    <3>1. next \in Int /\ LastOfChunk \in Int
      BY <1>1
    <3> QED BY ONLY <3>1, FS_Interval
  <2> QED BY <1>5, <2>1, FS_Subset
<1>9. /\ s \in Seq(Runs)
      /\ \A i \in DOMAIN s : s[i] \in settled
      /\ \A i, j \in DOMAIN s : s[i] = s[j] => i = j
      /\ \A x \in settled : \E i \in DOMAIN s : s[i] = x
  <2> HIDE DEF settled
  <2> QED BY <1>8, AscendingIsSeq, AscendingFacts
<1>10. \A b \in settled : b \in Runs /\ run[b].state = "idle"
  BY <1>2, <1>5
<1>11. \A i \in DOMAIN order, j \in DOMAIN s : order[i] # s[j]
  <2> SUFFICES ASSUME NEW i \in DOMAIN order, NEW j \in DOMAIN s, order[i] = s[j]
               PROVE  FALSE
    OBVIOUS
  <2>1. s[j] \in Runs /\ run[s[j]].state = "idle"
    BY <1>9, <1>10
  <2>2. run[s[j]].state \in {"ok", "failed"}
    BY <1>2, <2>1 DEF OrderInv
  <2> QED BY <2>1, <2>2
<1>12. /\ \A i, j \in DOMAIN order' : order'[i] = order'[j] => i = j
       /\ \A x : (\E i \in DOMAIN order' : order'[i] = x) <=>
                   \/ \E i \in DOMAIN order : order[i] = x
                   \/ \E i \in DOMAIN s : s[i] = x
  <2>1. \A i, j \in DOMAIN order : order[i] = order[j] => i = j
    BY <1>2 DEF OrderInv
  <2> DEFINE r == order \o s
  <2>2. /\ \A i, j \in DOMAIN r : r[i] = r[j] => i = j
        /\ \A x : (\E i \in DOMAIN r : r[i] = x) <=>
                    \/ \E i \in DOMAIN order : order[i] = x
                    \/ \E i \in DOMAIN s : s[i] = x
    BY <1>2, <1>9, <1>11, <2>1, LongerFacts
  <2>3. order' = r
    BY <1>7
  <2> HIDE DEF r
  <2> QED BY <2>2, <2>3
<1>13. OrderInv'
  <2> SUFFICES ASSUME NEW b \in Runs
               PROVE  run'[b].state \in {"ok", "failed"} <=>
                        \E i \in DOMAIN order' : order'[i] = b
    BY <1>12 DEF OrderInv
  <2>1. b \in settled <=> \E i \in DOMAIN s : s[i] = b
    BY <1>9
  <2>2. run[b].state \in {"ok", "failed"} <=> \E i \in DOMAIN order : order[i] = b
    BY <1>2 DEF OrderInv
  <2>3. CASE b \in next..LastOfChunk
    <3>1. run[b].state = "idle"
      BY <1>2, <1>5, <2>3
    <3>2. b \in settled <=> run'[b].state \in {"ok", "failed"}
      BY <1>6, <2>3
    <3> HIDE DEF settled
    <3> QED BY <1>12, <2>1, <2>2, <3>1, <3>2
  <2>4. CASE b \notin next..LastOfChunk
    <3>1. b \notin settled /\ run'[b] = run[b]
      BY <1>1, <2>4
    <3> HIDE DEF settled
    <3> QED BY <1>12, <2>1, <2>2, <3>1
  <2> QED BY <2>3, <2>4
<1> QED BY <1>1, <1>2, <1>5, <1>6, <1>13

\* A step of a run: it is over, or has come to a node it had not visited.
LEMMA RunIsNew ==
  ASSUME ProgressInv, NEW b \in Runs, NodeThrows(b) \/ NodeReturns(b)
  PROVE  /\ UNCHANGED <<config, node, next>>
         /\ run[b].state = "running"
         /\ \A c \in Runs \ {b} : run'[c] = run[c]
         /\ run'[b].visited \subseteq Nodes
         /\ \/ /\ run'[b].state \in {"ok", "failed"}
               /\ run'[b].visited = run[b].visited
            \/ /\ run'[b].state = "running"
               /\ \E n \in Nodes \ run[b].visited :
                    run'[b].visited = run[b].visited \cup {n}
         /\ OrderInv'
<1>1. /\ run \in [Runs -> RunStates] /\ OrderInv /\ order \in Seq(Runs)
      /\ run[b] \in RunStates /\ run[b].visited \subseteq Nodes
  BY DEF ProgressInv, MergeInv, TypeInv, TypeOK
<1>2. run[b].state = "running"
  BY DEF NodeThrows, NodeReturns
<1>3. PICK r : /\ RunBecomes(b, r)
               /\ r.visited \subseteq Nodes
               /\ \/ r.state \in {"ok", "failed"} /\ r.visited = run[b].visited
                  \/ /\ r.state = "running"
                     /\ \E n \in Nodes \ run[b].visited : r.visited = run[b].visited \cup {n}
  <2>1. CASE NodeThrows(b)
    <3> DEFINE r == [run[b] EXCEPT !.state = "failed"]
    <3>1. r.state = "failed" /\ r.visited = run[b].visited
      BY <1>1 DEF RunStates
    <3>2. RunBecomes(b, r)
      BY <2>1 DEF NodeThrows
    <3> HIDE DEF r
    <3> QED BY <1>1, <3>1, <3>2
  <2>2. CASE NodeReturns(b)
    <3>1. PICK w, id : RunBecomes(b, Arrived([run[b] EXCEPT !.ctx = Wrote(b, w)], id))
      BY <2>2 DEF NodeReturns
    <3> DEFINE q == [run[b] EXCEPT !.ctx = Wrote(b, w)]
    <3>2. Wrote(b, w) \in Contexts
      BY <1>1, NodeExecutorAssumption DEF Wrote, Contexts, Runs, RunStates
    <3>3. q \in RunStates /\ q.state = "running" /\ q.visited = run[b].visited
      BY <1>1, <1>2, <3>2 DEF RunStates
    <3>4. RunBecomes(b, Arrived(q, id))
      BY <3>1
    <3> HIDE DEF q
    <3>5. /\ Arrived(q, id).visited \subseteq Nodes
          /\ \/ Arrived(q, id).state \in {"ok", "failed"} /\ Arrived(q, id).visited = q.visited
             \/ /\ Arrived(q, id).state = "running"
                /\ id \in Nodes \ q.visited
                /\ Arrived(q, id).visited = q.visited \cup {id}
      BY <1>1, <3>3, ArrivedVisits
    <3> QED BY <3>3, <3>4, <3>5
  <2> QED BY <2>1, <2>2
<1>4. run' = [run EXCEPT ![b] = r] /\ UNCHANGED <<config, node, next>>
  BY <1>3 DEF RunBecomes
<1>5. run'[b] = r /\ \A c \in Runs \ {b} : run'[c] = run[c]
  BY <1>1, <1>4
<1>6. OrderInv'
  <2>0. \A i \in DOMAIN order : order[i] # b
    BY <1>1, <1>2 DEF OrderInv
  <2>1. CASE r.state = "running"
    <3>1. order' = order
      BY <1>3, <2>1 DEF RunBecomes
    <3> QED BY <1>1, <1>2, <1>5, <2>1, <3>1 DEF OrderInv
  <2>2. CASE r.state # "running"
    <3>1. order' = Append(order, b) /\ r.state \in {"ok", "failed"}
      BY <1>3, <2>2 DEF RunBecomes
    <3>2. /\ DOMAIN order = 1..Len(order) /\ Len(order) \in Nat
          /\ DOMAIN order' = 1..(Len(order) + 1)
          /\ \A i \in 1..Len(order) : order'[i] = order[i]
          /\ order'[Len(order) + 1] = b
      BY <1>1, <3>1
    <3>3. \A i \in 1..(Len(order) + 1) : i = Len(order) + 1 \/ i \in 1..Len(order)
      BY <3>2
    <3>4. /\ Len(order) + 1 \in DOMAIN order'
          /\ \A i \in DOMAIN order : i \in DOMAIN order'
      BY <3>2
    <3>5. \A i, j \in DOMAIN order' : order'[i] = order'[j] => i = j
      BY <1>1, <2>0, <3>2, <3>3 DEF OrderInv
    <3>6. ASSUME NEW c \in Runs
          PROVE  (\E i \in DOMAIN order' : order'[i] = c) <=>
                   c = b \/ \E i \in DOMAIN order : order[i] = c
      BY <3>2, <3>3, <3>4
    <3>7. \A c \in Runs : run'[c].state \in {"ok", "failed"} <=>
                            c = b \/ run[c].state \in {"ok", "failed"}
      BY <1>5, <3>1
    <3> QED BY <1>1, <3>5, <3>6, <3>7 DEF OrderInv
  <2> QED BY <2>1, <2>2
<1> QED BY <1>2, <1>3, <1>4, <1>5, <1>6

LEMMA ProgressInit == Init => ProgressInv
<1> SUFFICES ASSUME Init PROVE ProgressInv
  OBVIOUS
<1>1. \A b \in Runs : run[b].state = "idle" /\ run[b].visited = {}
  BY DEF Init
<1>2. order = <<>> /\ next = 1 /\ DOMAIN order = {}
  BY DEF Init
<1>3. OrderInv
  BY <1>1, <1>2 DEF OrderInv
<1> QED BY <1>1, <1>2, <1>3, MergeInit DEF ProgressInv

\* What a chunk that is not one of several begins with and where it ends.
LEMMA AllAtOnce ==
  ASSUME ProgressInv, StartChunk, ~ Chunked
  PROVE  LastOfChunk = N
<1>1. next = 1 /\ ChunkSize = N /\ N \in Nat
  BY StartsNew DEF ProgressInv, ChunkSize
<1> QED BY <1>1 DEF LastOfChunk

LEMMA ProgressStep == ProgressInv /\ [Next]_vars => ProgressInv'
<1> SUFFICES ASSUME ProgressInv, [Next]_vars
             PROVE  ProgressInv'
  OBVIOUS
<1>0. MergeInv'
  BY MergeStep DEF ProgressInv
<1>1. CASE StartChunk
  <2>1. /\ next' = LastOfChunk + 1 /\ config' = config /\ OrderInv'
        /\ \A b \in Runs :
             IF b \in next..LastOfChunk
             THEN run'[b].state # "idle" /\ run'[b].visited \subseteq Nodes
             ELSE run'[b] = run[b]
    BY <1>1, StartsNew
  <2>2. ~ Chunked' => next' = N + 1
    BY <1>1, <2>1, AllAtOnce DEF Chunked
  <2>3. \A b \in Runs : /\ run'[b].visited \subseteq Nodes
                        /\ run'[b].state = "idle" => run'[b].visited = {}
    BY <2>1 DEF ProgressInv
  <2> QED BY <1>0, <2>1, <2>2, <2>3 DEF ProgressInv
<1>2. CASE Settle
  <2>1. UNCHANGED <<config, next, run, order>>
    BY <1>2, SettleShape DEF ProgressInv, MergeInv
  <2> QED BY <1>0, <2>1 DEF ProgressInv, OrderInv, Chunked
<1>3. ASSUME NEW b \in Runs, NodeThrows(b) \/ NodeReturns(b)
      PROVE  ProgressInv'
  <2>1. /\ UNCHANGED <<config, next>> /\ OrderInv'
        /\ \A c \in Runs \ {b} : run'[c] = run[c]
        /\ run'[b].visited \subseteq Nodes /\ run'[b].state # "idle"
    BY <1>3, RunIsNew
  <2>2. \A c \in Runs : /\ run'[c].visited \subseteq Nodes
                        /\ run'[c].state = "idle" => run'[c].visited = {}
    BY <2>1 DEF ProgressInv
  <2> QED BY <1>0, <2>1, <2>2 DEF ProgressInv, Chunked
<1>4. CASE UNCHANGED vars
  BY <1>0, <1>4 DEF vars, ProgressInv, OrderInv, Chunked
<1> QED BY <1>1, <1>2, <1>3, <1>4 DEF Next

THEOREM ProgressInvariance == Spec => []ProgressInv
BY ProgressInit, ProgressStep, PTL DEF Spec

LEMMA MoreHaveBegun ==
  ASSUME NEW a \in Int, NEW z \in Int, z >= a
  PROVE  1..(a - 1) \subseteq 1..(z - 1)
OBVIOUS

\* Nothing that happened is undone, and every step of the node and of its
\* runs is new.
LEMMA StepsAreNew ==
  ASSUME ProgressInv, Next
  PROVE  StepIsNew
<1>0. /\ N \in Nat /\ next \in 1..(N + 1)
      /\ \A b \in Runs : run[b].visited \subseteq Nodes /\ b \in 0..N
  BY NodeExecutorAssumption DEF ProgressInv, MergeInv, TypeInv, TypeOK, Runs
<1> DEFINE Ev(k, b, n) == <<k, <<b, n>>>>
<1>1. ASSUME NEW b \in 0..N, NEW n \in Nodes \cup {NoNode},
             NEW k \in {"settled", "begun", "over", "visited"}
      PROVE  /\ Ev(k, b, n) \in Events
             /\ Ev(k, b, n)[1] = k /\ Ev(k, b, n)[2][1] = b /\ Ev(k, b, n)[2][2] = n
  BY DEF Events
<1>2. ASSUME next' >= next /\ next' \in Int,
             node # "running" => node' # "running",
             \A b \in Runs : run[b].state \in {"ok", "failed"} => run'[b].state \in {"ok", "failed"},
             \A b \in Runs : run[b].visited \subseteq run'[b].visited
      PROVE  Past \subseteq Past'
  <2>1. InState("ok") \cup InState("failed") \subseteq (InState("ok") \cup InState("failed"))'
    BY <1>2 DEF InState
  <2>2. 1..(next - 1) \subseteq 1..(next' - 1)
    <3>1. next \in Int /\ next' \in Int /\ next' >= next
      BY <1>0, <1>2
    <3> QED BY <3>1, MoreHaveBegun
  <2> QED BY <1>2, <2>1, <2>2 DEF Past
<1>3. CASE StartChunk
  <2>1. /\ next' = LastOfChunk + 1 /\ LastOfChunk \in next..N /\ next \in 1..N
        /\ node' = node
        /\ \A b \in Runs :
             IF b \in next..LastOfChunk
             THEN run[b].state = "idle" /\ run[b].visited = {}
             ELSE run'[b] = run[b]
    BY <1>3, StartsNew
  <2>2. next' > next /\ next' \in Int /\ next \in 0..N
    BY <1>0, <2>1
  <2>3. /\ \A b \in Runs : run[b].state \in {"ok", "failed"} => run'[b].state \in {"ok", "failed"}
        /\ \A b \in Runs : run[b].visited \subseteq run'[b].visited
    BY <2>1
  <2>4. Past \subseteq Past'
    BY <1>2, <2>1, <2>2, <2>3
  <2> DEFINE e == Ev("begun", next, NoNode)
  <2>5. e \in Events /\ e[1] = "begun" /\ e[2][1] = next
    BY <1>1, <2>2
  <2>6. next \in 1..(next' - 1) /\ next \notin 1..(next - 1)
    BY <1>0, <2>2
  <2> HIDE DEF e
  <2>7. e \in Past' /\ e \notin Past
    BY <2>5, <2>6 DEF Past, Events
  <2> QED BY <2>4, <2>7 DEF StepIsNew
<1>4. CASE Settle
  <2>1. UNCHANGED <<next, run>> /\ node = "running" /\ node' # "running"
    BY <1>4, SettleShape DEF ProgressInv, MergeInv
  <2>2. Past \subseteq Past'
    BY <1>0, <1>2, <2>1
  <2> DEFINE e == Ev("settled", 0, NoNode)
  <2>0. 0 \in 0..N
    BY <1>0
  <2>3. e \in Events /\ e[1] = "settled"
    BY <1>1, <2>0
  <2> HIDE DEF e
  <2>4. e \in Past' /\ e \notin Past
    BY <2>1, <2>3 DEF Past, Events
  <2> QED BY <2>2, <2>4 DEF StepIsNew
<1>5. ASSUME NEW b \in Runs, NodeThrows(b) \/ NodeReturns(b)
      PROVE  StepIsNew
  <2>1. /\ UNCHANGED <<node, next>>
        /\ run[b].state = "running"
        /\ \A c \in Runs \ {b} : run'[c] = run[c]
        /\ \/ /\ run'[b].state \in {"ok", "failed"}
              /\ run'[b].visited = run[b].visited
           \/ /\ run'[b].state = "running"
              /\ \E n \in Nodes \ run[b].visited :
                   run'[b].visited = run[b].visited \cup {n}
    BY <1>5, RunIsNew
  <2>2. /\ \A c \in Runs : run[c].state \in {"ok", "failed"} => run'[c].state \in {"ok", "failed"}
        /\ \A c \in Runs : run[c].visited \subseteq run'[c].visited
    BY <2>1
  <2>3. Past \subseteq Past'
    BY <1>0, <1>2, <2>1, <2>2
  <2>4. CASE run'[b].state \in {"ok", "failed"}
    <3> DEFINE e == Ev("over", b, NoNode)
    <3>1. e \in Events /\ e[1] = "over" /\ e[2][1] = b
      BY <1>0, <1>1
    <3> HIDE DEF e
    <3>2. e \in Past' /\ e \notin Past
      BY <2>1, <2>4, <3>1 DEF Past, Events, InState
    <3> QED BY <2>3, <3>2 DEF StepIsNew
  <2>5. CASE run'[b].state = "running"
    <3>1. PICK n \in Nodes \ run[b].visited : run'[b].visited = run[b].visited \cup {n}
      BY <2>1, <2>5
    <3> DEFINE e == Ev("visited", b, n)
    <3>2. e \in Events /\ e[1] = "visited" /\ e[2][1] = b /\ e[2][2] = n
      BY <1>0, <1>1
    <3> HIDE DEF e
    <3>3. e \in Past' /\ e \notin Past
      BY <3>1, <3>2 DEF Past, Events
    <3> QED BY <2>3, <3>3 DEF StepIsNew
  <2> QED BY <2>1, <2>4, <2>5
<1> QED BY <1>3, <1>4, <1>5 DEF Next

\* The theorem: every step of executeParallel and executeLoop, and of the
\* runs they leave behind, is something new.
THEOREM EveryStepIsNew == Spec => [][StepIsNew]_vars
<1>1. ProgressInv /\ [Next]_vars => [StepIsNew]_vars
  BY StepsAreNew
<1> QED BY <1>1, ProgressInvariance, PTL DEF Spec

\* There are finitely many things that may happen, so that the steps are as
\* many at most.
THEOREM EventsAreFinite ==
  ASSUME IsFiniteSet(Nodes)
  PROVE  /\ IsFiniteSet(Events) /\ Past \subseteq Events
         /\ Cardinality(Events) = 4 * ((N + 1) * Cardinality(Nodes \cup {NoNode}))
<1> DEFINE K == {"settled", "begun", "over", "visited"}
           B == 0..N
           M == Nodes \cup {NoNode}
<1>1. IsFiniteSet(K) /\ Cardinality(K) = 4
  <2>1. K = ({"settled"} \cup {"begun"}) \cup ({"over"} \cup {"visited"})
    OBVIOUS
  <2>2. \A x : IsFiniteSet({x}) /\ Cardinality({x}) = 1
    BY FS_Singleton
  <2> DEFINE K1 == {"settled"} \cup {"begun"}
             K2 == {"over"} \cup {"visited"}
  <2>3. IsFiniteSet(K1) /\ Cardinality(K1) = 2
    <3>1. /\ IsFiniteSet(K1)
          /\ Cardinality(K1) = Cardinality({"settled"}) + Cardinality({"begun"})
                                 - Cardinality({"settled"} \cap {"begun"})
      BY <2>2, FS_Union
    <3>2. {"settled"} \cap {"begun"} = {}
      OBVIOUS
    <3>3. Cardinality({"settled"} \cap {"begun"}) = 0
      BY <3>2, FS_EmptySet
    <3>4. Cardinality({"settled"}) = 1 /\ Cardinality({"begun"}) = 1
      BY <2>2
    <3> QED BY <3>1, <3>3, <3>4
  <2>4. IsFiniteSet(K2) /\ Cardinality(K2) = 2
    <3>1. /\ IsFiniteSet(K2)
          /\ Cardinality(K2) = Cardinality({"over"}) + Cardinality({"visited"})
                                 - Cardinality({"over"} \cap {"visited"})
      BY <2>2, FS_Union
    <3>2. {"over"} \cap {"visited"} = {}
      OBVIOUS
    <3>3. Cardinality({"over"} \cap {"visited"}) = 0
      BY <3>2, FS_EmptySet
    <3>4. Cardinality({"over"}) = 1 /\ Cardinality({"visited"}) = 1
      BY <2>2
    <3> QED BY <3>1, <3>3, <3>4
  <2>5. K1 \cap K2 = {}
    OBVIOUS
  <2> HIDE DEF K1, K2
  <2>6. IsFiniteSet(K1 \cup K2) /\ Cardinality(K1 \cup K2) = 4
    BY <2>3, <2>4, <2>5, FS_Union, FS_EmptySet
  <2> QED BY <2>1, <2>6 DEF K1, K2
<1>2. IsFiniteSet(B) /\ Cardinality(B) = N + 1
  <2>1. 0 \in Int /\ N \in Int /\ N \in Nat
    BY NodeExecutorAssumption
  <2>2. IsFiniteSet(0..N) /\ Cardinality(0..N) = IF 0 > N THEN 0 ELSE N - 0 + 1
    BY ONLY <2>1, FS_Interval
  <2> QED BY <2>1, <2>2
<1>3. IsFiniteSet(M)
  BY FS_Singleton, FS_Union
<1> HIDE DEF K, B, M
<1>4. IsFiniteSet(B \X M) /\ Cardinality(B \X M) = (N + 1) * Cardinality(M)
  BY <1>2, <1>3, FS_Product
<1>5. /\ IsFiniteSet(K \X (B \X M))
      /\ Cardinality(K \X (B \X M)) = Cardinality(K) * Cardinality(B \X M)
  BY <1>1, <1>4, FS_Product
<1>6. Events = K \X (B \X M)
  BY DEF Events, K, B, M
<1>7. Past \subseteq Events
  BY DEF Past
<1> QED BY <1>1, <1>4, <1>5, <1>6, <1>7 DEF M

\* As many branches succeeded as the order has places of them.
LEMMA SucceededFacts ==
  ASSUME ProgressInv
  PROVE  /\ IsFiniteSet(InState("ok"))
         /\ Cardinality(Succeeded) = Cardinality(InState("ok"))
<1>1. OrderInv /\ order \in Seq(Runs)
  BY DEF ProgressInv, MergeInv, TypeInv, TypeOK
<1>2. IsFiniteSet(Succeeded) /\ Succeeded \subseteq DOMAIN order
  <2>1. DOMAIN order = 1..Len(order) /\ 1 \in Int /\ Len(order) \in Int
    BY <1>1
  <2>2. IsFiniteSet(1..Len(order))
    BY ONLY <2>1, FS_Interval
  <2>3. Succeeded \subseteq DOMAIN order
    BY DEF Succeeded
  <2> QED BY <2>1, <2>2, <2>3, FS_Subset
<1> DEFINE f == [i \in Succeeded |-> order[i]]
           S == Succeeded
           T == InState("ok")
<1>3. f \in [S -> T]
  BY <1>1, <1>2 DEF Succeeded, InState
<1>4. \A i, j \in S : f[i] = f[j] => i = j
  BY <1>1, <1>2 DEF OrderInv
<1>5. ASSUME NEW b \in T
      PROVE  \E i \in S : f[i] = b
  <2>1. b \in Runs /\ run[b].state = "ok"
    BY <1>5 DEF InState
  <2>2. PICK i \in DOMAIN order : order[i] = b
    BY <1>1, <2>1 DEF OrderInv
  <2>3. i \in S
    BY <2>1, <2>2 DEF Succeeded
  <2> QED BY <2>2, <2>3
<1> HIDE DEF f, S, T
<1>6. f \in Bijection(S, T)
  BY <1>3, <1>4, <1>5 DEF Bijection, Injection, IsInjective, Surjection
<1>7. IsFiniteSet(S)
  BY <1>2 DEF S
<1>8. IsFiniteSet(T) /\ Cardinality(T) = Cardinality(S)
  BY <1>6, <1>7, FS_Bijection DEF ExistsBijection
<1> QED BY <1>8 DEF S, T

\* The theorem: Promise.all, Promise.race and raceN settle, or the next chunk
\* starts, once every run is over; but for a minRequired that is more than
\* the branches, of which none failed.
THEOREM NeverStuck == Spec => []NodeIsNeverStuck
<1>1. ASSUME ProgressInv, node = "running", InState("running") = {},
             Waits = "n_of_m" => config.minRequired <= N
      PROVE  MayGoOn
  <2>1. /\ N \in Nat \ {0} /\ next \in 1..(N + 1)
        /\ \A b \in Runs : /\ run[b].state \in {"idle", "running", "ok", "failed"}
                           /\ b >= next <=> run[b].state = "idle"
        /\ config.minRequired \in Nat /\ config.wait \in {"all", "any", "n_of_m"}
        /\ OrderInv /\ order \in Seq(Runs)
    BY <1>1, NodeExecutorAssumption
       DEF ProgressInv, MergeInv, TypeInv, TypeOK, RunStates
  <2>2. \A b \in Runs : run[b].state # "running"
    BY <1>1 DEF InState
  <2>3. Waits \in {"all", "any", "n_of_m"}
    BY <2>1 DEF Waits
  <2>4. CASE Waits = "all"
    <3>1. CASE InState("failed") # {}
      BY <2>4, <3>1 DEF MayGoOn, Hopeless
    <3>2. CASE InState("failed") = {}
      <4>1. ASSUME NEW b \in 1..(next - 1)
            PROVE  run[b].state = "ok"
        <5>1. b \in Runs /\ ~ (b >= next)
          BY <2>1 DEF Runs
        <5>2. run[b].state # "failed"
          BY <3>2, <5>1 DEF InState
        <5> QED BY <2>1, <2>2, <5>1, <5>2
      <4>2. ChunkEnds
        BY <1>1, <4>1 DEF ChunkEnds
      <4>3. next <= N \/ next > N
        BY <2>1
      <4> QED BY <2>4, <4>2, <4>3 DEF MayGoOn
    <3> QED BY <3>1, <3>2
  <2>5. CASE Waits # "all"
    <3>1. ~ Chunked /\ next \in {1, N + 1}
      BY <1>1, <2>5 DEF Waits, ProgressInv
    <3>2. CASE next = 1
      <4>1. ChunkEnds /\ next <= N
        BY <1>1, <2>1, <3>2 DEF ChunkEnds
      <4> QED BY <4>1 DEF MayGoOn
    <3>3. CASE next = N + 1
      <4>1. \A b \in Runs : run[b].state \in {"ok", "failed"}
        BY <2>1, <2>2, <3>3 DEF Runs
      <4>2. CASE Waits = "any"
        <5>1. 1 \in Runs
          BY <2>1 DEF Runs
        <5>2. PICK i \in DOMAIN order : order[i] = 1
          BY <2>1, <4>1, <5>1 DEF OrderInv
        <5>3. order # <<>> /\ 1 \in DOMAIN order
          BY <2>1, <5>2
        <5>4. run[order[1]].state \in {"ok", "failed"}
          BY <2>1, <4>1, <5>3
        <5> QED BY <4>2, <5>3, <5>4 DEF MayGoOn, Hopeless
      <4>3. CASE Waits = "n_of_m"
        <5> DEFINE O == InState("ok")
                   F == InState("failed")
        <5>1. O \cup F = Runs /\ O \cap F = {}
          BY <4>1 DEF InState
        <5>2. IsFiniteSet(Runs) /\ Cardinality(Runs) = N
          <6>1. 1 \in Int /\ N \in Int /\ N \in Nat \ {0}
            BY <2>1
          <6>2. IsFiniteSet(1..N) /\ Cardinality(1..N) = IF 1 > N THEN 0 ELSE N - 1 + 1
            BY ONLY <6>1, FS_Interval
          <6> QED BY <6>1, <6>2 DEF Runs
        <5> HIDE DEF O, F
        <5>3. IsFiniteSet(O) /\ IsFiniteSet(F)
          BY <5>1, <5>2, FS_Subset
        <5>4. Cardinality(O) \in Nat /\ Cardinality(F) \in Nat
          BY <5>3, FS_CardinalityType
        <5>5. Cardinality(O) + Cardinality(F) = N
          <6>1. Cardinality(O \cap F) = 0
            BY <5>1, FS_EmptySet
          <6>2. Cardinality(O \cup F) =
                  Cardinality(O) + Cardinality(F) - Cardinality(O \cap F)
            BY ONLY <5>3, FS_Union
          <6> QED BY <5>1, <5>2, <5>4, <6>1, <6>2
        <5>6. Cardinality(Succeeded) = Cardinality(O)
          BY <1>1, SucceededFacts DEF O
        <5>7. CASE Cardinality(O) >= config.minRequired
          BY <4>3, <5>6, <5>7 DEF MayGoOn
        <5>8. CASE ~ (Cardinality(O) >= config.minRequired)
          <6>1. Cardinality(F) > N - config.minRequired
            BY <2>1, <5>4, <5>5, <5>8
          <6>2. F # {}
            <7>1. Cardinality(F) > 0
              BY <1>1, <2>1, <4>3, <5>4, <6>1
            <7> QED BY <7>1, FS_EmptySet
          <6> QED BY <4>3, <6>1, <6>2 DEF MayGoOn, Hopeless, F
        <5> QED BY <5>7, <5>8
      <4> QED BY <2>3, <2>5, <4>2, <4>3
    <3> QED BY <3>1, <3>2, <3>3
  <2> QED BY <2>4, <2>5
<1>2. ProgressInv => NodeIsNeverStuck
  BY <1>1 DEF NodeIsNeverStuck
<1> QED BY <1>2, ProgressInvariance, PTL

=============================================================================
