----------------------------- MODULE NodeExecutor -----------------------------
(***************************************************************************)
(* One call of executeParallel or executeLoop and the runs of a subgraph   *)
(* it makes: a branch of a parallel node each, or an iteration of a loop   *)
(* each.  Runs are started in chunks; a parallel node without a limit has  *)
(* one chunk and a choice of what it waits for.  A run that nobody waits   *)
(* for any more goes on.                                                   *)
(*                                                                         *)
(* Abstracted: a context is, for each key, the last run that wrote it, 0   *)
(* standing for the value before the node; what a handler writes and what  *)
(* a condition chooses are nondeterministic; a composite node inside a     *)
(* subgraph is a node whose call takes a while.                            *)
(***************************************************************************)
EXTENDS Integers, Sequences, FiniteSets, FiniteSetsExt

CONSTANTS
  N,               (* how many branches, or iterations at most                *)
  Nodes,           (* the nodes of the definition but for the end nodes       *)
  EndNodes,
  Ids,             (* what may be referred to: some ids may dangle            *)
  NoNode,          (* undefined                                               *)
  Edges,           (* the next ids a node may choose                          *)
  Writes,          (* the context keys a node's handler may write             *)
  Keys,
  BaseKeys,        (* those of them the context has before the node           *)
  Configs          (* the parallelConfigs and loopConfigs looked at           *)

Runs == 1..N

Kinds == {"parallel", "for_each", "count", "while"}

ASSUME NodeExecutorAssumption ==
  /\ N \in Nat \ {0}
  /\ Nodes \cup EndNodes \subseteq Ids
  /\ Nodes \cap EndNodes = {}
  /\ NoNode \notin Ids
  /\ Edges \in [Nodes -> SUBSET (Ids \cup {NoNode})]
  /\ Writes \in [Nodes -> SUBSET Keys]
  /\ BaseKeys \subseteq Keys
  /\ \A c \in Configs :
       /\ c.kind \in Kinds
       /\ c.wait \in {"all", "any", "n_of_m"}
       /\ c.minRequired \in Nat
       /\ c.limit \in Nat
       /\ c.kind # "parallel" => c.limit > 0
       /\ c.entry \in [Runs -> Ids]

VARIABLES
  config,          (* the node's configuration: set once                      *)
  node,            (* the promise of executeNode                              *)
  next,            (* the first run that has not started                      *)
  run,             (* each run: its state, node, visited set and context      *)
  order,           (* the runs that settled, in that order                    *)
  results,         (* the runs whose contexts were merged, in that order      *)
  patch            (* the contextPatch of a node that resolved                *)

vars == <<config, node, next, run, order, results, patch>>

Contexts == [Keys -> 0..N]

Unchanged == [k \in Keys |-> 0]

RunStates == [state : {"idle", "running", "ok", "failed"},
              at : Ids \cup {NoNode}, visited : SUBSET Ids, ctx : Contexts]

\* The runs in state s.
InState(s) == {b \in Runs : run[b].state = s}

(***************************************************************************)
(* Merging.                                                                *)
(***************************************************************************)
\* Whether a context c has the key k.
Has(c, k) == k \in BaseKeys \/ c[k] # 0

\* mergeContext over whole contexts: for each key the last one that has it.
\* Mutant: the first one.
Merged_FirstWins(s) ==
  [k \in Keys |->
     LET having == {i \in DOMAIN s : Has(run[s[i]].ctx, k)}
     IN  IF having = {} THEN 0 ELSE run[s[Min(having)]].ctx[k]]

Merged(s) ==
  [k \in Keys |->
     LET having == {i \in DOMAIN s : Has(run[s[i]].ctx, k)}
     IN  IF having = {} THEN 0 ELSE run[s[Max(having)]].ctx[k]]

\* The first n runs, in the order of the branches or items.
FirstRuns(n) == [i \in 1..n |-> i]

\* The numbers of a set as a sequence, in their order: there is one.
Ascending(S) ==
  {s \in [1..Cardinality(S) -> S] : \A i, j \in DOMAIN s : i < j => s[i] < s[j]}

\* The context a chunk of runs starts from: a branch clones the node's own,
\* an iteration what the iterations before its chunk have merged.
StartContext ==
  IF config.kind = "parallel" THEN Unchanged ELSE Merged(FirstRuns(next - 1))

(***************************************************************************)
(* runSubgraph.                                                            *)
(***************************************************************************)
\* The run r has come to id.
Arrived(r, id) ==
  IF id \in EndNodes \cup {NoNode} THEN [r EXCEPT !.state = "ok"]
  ELSE IF id \notin Nodes \/ id \in r.visited THEN [r EXCEPT !.state = "failed"]
  ELSE [r EXCEPT !.at = id, !.visited = @ \cup {id}]

\* The context of the run b after its node wrote the keys w.
Wrote(b, w) == [k \in Keys |-> IF k \in w THEN b ELSE run[b].ctx[k]]

\* The run b becomes r, and may have settled with it.
RunBecomes(b, r) ==
  /\ run' = [run EXCEPT ![b] = r]
  /\ order' = IF r.state = "running" THEN order ELSE Append(order, b)
  /\ UNCHANGED <<config, node, next, results, patch>>

\* The node a run is at throws, which ends the run.
NodeThrows(b) ==
  /\ run[b].state = "running"
  /\ RunBecomes(b, [run[b] EXCEPT !.state = "failed"])

\* The node returns a patch and the next id.
NodeReturns(b) ==
  /\ run[b].state = "running"
  /\ \E w \in SUBSET Writes[run[b].at], id \in Edges[run[b].at] :
       RunBecomes(b, Arrived([run[b] EXCEPT !.ctx = Wrote(b, w)], id))

(***************************************************************************)
(* executeParallel and executeLoop.                                        *)
(***************************************************************************)
\* Whether runs are started in chunks that are waited for with Promise.all.
Chunked == config.kind # "parallel" \/ config.limit \in 1..(N - 1)

ChunkSize == IF Chunked THEN config.limit ELSE N

\* What the node waits for once a chunk runs; a limit overrides the strategy.
Waits ==
  IF Chunked \/ (config.wait = "n_of_m" /\ config.minRequired = 0)
  THEN "all" ELSE config.wait

\* Where the chunk that starts at next ends.
LastOfChunk ==
  IF next + ChunkSize - 1 < N THEN next + ChunkSize - 1 ELSE N

\* Every run that was started has succeeded, and a failed one ends it all.
ChunkEnds == node = "running" /\ \A b \in 1..(next - 1) : run[b].state = "ok"

\* The runs after the chunk that ends with last, once it has begun.
After(last) == last + 1

\* The runs from next up to last start together, each at once up to its
\* first await.
Start(last) ==
  LET fresh == [state |-> "running", at |-> NoNode, visited |-> {},
                ctx |-> StartContext]
      started == [b \in Runs |-> IF b \in next..last
                                 THEN Arrived(fresh, config.entry[b])
                                 ELSE run[b]]
      settled == {b \in next..last : started[b].state # "running"}
  IN  /\ run' = started
      /\ \E s \in Ascending(settled) : order' = order \o s
      /\ next' = After(last)
      /\ UNCHANGED <<config, node, results, patch>>

\* Mutants: a chunk is cut one run too long; the next chunk starts once all
\* of the last have settled, whatever they came to.
StartChunk_OneMore ==
  /\ ChunkEnds
  /\ next <= N
  /\ Start(Min({N, next + ChunkSize}))

StartChunk ==
  /\ ChunkEnds
  /\ next <= N
  /\ Start(LastOfChunk)

Resolve(s) ==
  /\ node' = "resolved"
  /\ results' = s
  /\ patch' = Merged(s)
  /\ UNCHANGED <<config, next, run, order>>

\* Promise.all of the last chunk, or a while loop's condition is false.
ResolveAll ==
  /\ Waits = "all"
  /\ ChunkEnds
  /\ next > N \/ config.kind = "while"
  /\ Resolve(FirstRuns(next - 1))

\* The places in the order of the runs that succeeded.
Succeeded == {i \in DOMAIN order : run[order[i]].state = "ok"}

\* Promise.race: the first branch that settled succeeded.
ResolveAny ==
  /\ node = "running"
  /\ Waits = "any"
  /\ order # <<>>
  /\ run[order[1]].state = "ok"
  /\ Resolve(<<order[1]>>)

\* raceN: minRequired branches succeeded.
ResolveSome ==
  /\ node = "running"
  /\ Waits = "n_of_m"
  /\ Cardinality(Succeeded) >= config.minRequired
  /\ \E won \in Ascending(Succeeded) :
       Resolve([i \in 1..config.minRequired |-> order[won[i]]])

\* Mutant: raceN waits for one failure more than it can bear.
Hopeless_OneMore ==
  CASE Waits = "all"    -> InState("failed") # {}
    [] Waits = "any"    -> order # <<>> /\ run[order[1]].state = "failed"
    [] Waits = "n_of_m" ->
         /\ InState("failed") # {}
         /\ Cardinality(InState("failed")) > N - config.minRequired + 1

\* The promise combinator rejects: raceN counts when a branch fails, so that
\* it is silent about branches there are not, as long as none does.
Hopeless ==
  CASE Waits = "all"    -> InState("failed") # {}
    [] Waits = "any"    -> order # <<>> /\ run[order[1]].state = "failed"
    [] Waits = "n_of_m" ->
         /\ InState("failed") # {}
         /\ Cardinality(InState("failed")) > N - config.minRequired

\* The node rejects; a collection may also turn out not to be an array.
Reject ==
  /\ node = "running"
  /\ Hopeless \/ (config.kind = "for_each" /\ next = 1)
  /\ node' = "rejected"
  /\ UNCHANGED <<config, next, run, order, results, patch>>

-----------------------------------------------------------------------------
Init ==
  /\ config \in Configs
  /\ node = "running"
  /\ next = 1
  /\ run = [b \in Runs |-> [state |-> "idle", at |-> NoNode, visited |-> {},
                            ctx |-> Unchanged]]
  /\ order = <<>>
  /\ results = <<>>
  /\ patch = Unchanged

Settle == ResolveAll \/ ResolveAny \/ ResolveSome \/ Reject

Next ==
  \/ StartChunk
  \/ Settle
  \/ \E b \in Runs : NodeThrows(b) \/ NodeReturns(b)

Spec == Init /\ [][Next]_vars

\* The event loop runs what is ready, and the handlers answer.
FairSpec ==
  /\ Spec
  /\ WF_vars(StartChunk \/ Settle)
  /\ \A b \in Runs : WF_vars(NodeThrows(b) \/ NodeReturns(b))

-----------------------------------------------------------------------------
(***************************************************************************)
(* Properties.                                                             *)
(***************************************************************************)
\* Every variable keeps its type, and the runs from next on are idle.
TypeOK ==
  /\ config \in Configs
  /\ node \in {"running", "resolved", "rejected"}
  /\ next \in 1..(N + 1)
  /\ run \in [Runs -> RunStates]
  /\ \A b \in Runs : b >= next <=> run[b].state = "idle"
  /\ order \in Seq(Runs)
  /\ results \in Seq(Runs)
  /\ patch \in Contexts

\* maxConcurrency and concurrency are kept to, by the runs of a node that
\* has settled included.
ConcurrencyIsCapped ==
  Chunked => Cardinality(InState("running")) <= config.limit

\* Only what the configuration allows is left running behind a settled node:
\* nothing where it waited for all and resolved, the rest of one chunk where
\* it rejected.
OnlyLastChunkIsAbandoned ==
  /\ node = "resolved" /\ Waits = "all" => InState("running") = {}
  /\ InState("running") \cup InState("failed") \subseteq (next - ChunkSize)..(next - 1)

\* How much runs at once, and how much is left behind, is bounded by the
\* configuration (Promise.all of a chunk rejects while the rest goes on).
RunsAreBounded == ConcurrencyIsCapped /\ OnlyLastChunkIsAbandoned

\* The run whose write of k comes last in the order of the merged results.
LastWriter(k) ==
  LET writers == {i \in DOMAIN results : run[results[i]].ctx[k] = results[i]}
  IN  IF writers = {} THEN 0 ELSE results[Max(writers)]

\* A key the branches add keeps the last merged branch's value, and a
\* sequential loop keeps the last iteration's value of every key.
PatchIsLastWriter ==
  node = "resolved" =>
    \A k \in Keys :
      \/ config.kind = "parallel" /\ k \notin BaseKeys
      \/ config.kind # "parallel" /\ config.limit = 1
      => patch[k] = LastWriter(k)

\* A node settles if its handlers answer, unless it asks for more branches
\* than it has.
NodeSettles ==
  node = "running" /\ (Waits = "n_of_m" => config.minRequired <= N)
    ~> node \in {"resolved", "rejected"}

\* Every run ends if its handlers answer, in a cyclic subgraph and behind a
\* settled node too.
RunsEnd ==
  \A b \in Runs : run[b].state = "running" ~> run[b].state \in {"ok", "failed"}

\* No node and no run waits for ever on something that cannot come any more
\* (raceN's count of failures, the visited set of runSubgraph).
NodeAndRunsEnd == NodeSettles /\ RunsEnd
=============================================================================
