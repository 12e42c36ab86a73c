-------------------------- MODULE WorkflowDefinitions --------------------------
(***************************************************************************)
(* A workflow definition from WorkflowBuilder, from JSON or from a         *)
(* template, what WorkflowValidator says of it, and where its execution    *)
(* goes: runWorkflow along the top level, runSubgraph through the bodies   *)
(* of loops and the branches of parallel nodes.                            *)
(*                                                                         *)
(* The execution is one thread of control: of the branches of a parallel   *)
(* node it follows one and then, as all do, what comes after the node.     *)
(* What conditions and loops decide is nondeterministic, and any node may  *)
(* throw.                                                                  *)
(***************************************************************************)
EXTENDS WorkflowTemplates, FiniteSets, Functions

CONSTANTS
  BuilderIds,      (* ids the builder's caller gives to nodes                 *)
  NodesFor(_),     (* the nodes it may add under an id                        *)
  Parsed,          (* definitions that may be parsed from JSON                *)
  EntryIds,        (* ids it may name as the entry                            *)
  MaxIterations,   (* bound: iterations of a loop                             *)
  MaxDepth         (* bound: subgraphs inside subgraphs                       *)

ASSUME DefinitionsAssumption ==
  /\ \A d \in Parsed : IsFiniteSet(DOMAIN d.nodes)
  /\ MaxIterations \in Nat
  /\ MaxDepth \in Nat \ {0}

VARIABLES
  draft,           (* the builder's definition                                *)
  built,           (* the definition that was built, parsed or chosen         *)
  checked,         (* it was validated first                                  *)
  frames,          (* the execution: the top level and the subgraphs in it    *)
  ran,             (* history: the nodes that were executed                   *)
  outcome          (* of the execution                                        *)

definitionVars == <<draft, built, checked, frames, ran, outcome>>

NoDefinition == Definition(NoRef, <<>>)

NodeIds(d) == DOMAIN d.nodes

-----------------------------------------------------------------------------
(***************************************************************************)
(* WorkflowValidator.                                                      *)
(***************************************************************************)
Optional(refs) == refs \ {NoRef}

\* The references of a node that are looked up: an optional one if it is
\* there, a required one always.
\* Mutant: the body of a loop is not.
RefsChecked_NoBody(x) ==
  CASE x.type = "trigger"   -> {x.next}
    [] x.type = "action"    -> Optional({x.next, x.onError})
    [] x.type = "condition" -> IF "config" \in x.lacks THEN {}
                               ELSE Range(x.branches) \cup Optional({x.default})
    [] x.type = "loop"      -> Optional({x.next})
    [] x.type = "parallel"  -> Range(x.branches) \cup Optional({x.next})
    [] OTHER                -> {}

RefsChecked(x) ==
  CASE x.type = "trigger"   -> {x.next}
    [] x.type = "action"    -> Optional({x.next, x.onError})
    [] x.type = "condition" -> IF "config" \in x.lacks THEN {}
                               ELSE Range(x.branches) \cup Optional({x.default})
    [] x.type = "loop"      -> {x.body} \cup Optional({x.next})
    [] x.type = "parallel"  -> Range(x.branches) \cup Optional({x.next})
    [] OTHER                -> {}

\* What else is wrong with a node: what it lacks, and empty branches, which
\* a condition without a configuration is not asked for.
NodeErrors(x) ==
  IF x.type = "condition" /\ "config" \in x.lacks THEN x.lacks \ {"branches"}
  ELSE IF x.type \in {"condition", "parallel"} /\ x.branches = <<>>
  THEN x.lacks \cup {"branches"}
  ELSE x.lacks

\* validateNodeRef finds the reference r in order: an empty one never is,
\* whatever the nodes of a text are called.
Exists(d, r) == r # NoRef /\ r \in NodeIds(d)

\* validateTopLevel.
TopLevelErrors(d) ==
  \/ d.lacks # {}
  \/ ~ Exists(d, d.entry)
  \/ d.nodes[d.entry].type # "trigger"

Errors(d) ==
  \/ TopLevelErrors(d)
  \/ \E n \in NodeIds(d) :
       \/ NodeErrors(d.nodes[n]) # {}
       \/ \E r \in RefsChecked(d.nodes[n]) : ~ Exists(d, r)

\* What a trigger and a loop refer to is followed without a look at it.
Required(x) ==
  IF x.type = "trigger" THEN {x.next}
  ELSE IF x.type = "loop" THEN {x.body} ELSE {}

\* getSuccessors, of a node that is not in the definition none.
\* Mutant: the nodes that branches lead to are forgotten.
Successors_NoBranches(d, n) ==
  IF n \notin NodeIds(d) THEN {}
  ELSE LET x == d.nodes[n]
       IN  Required(x) \cup Optional({x.next, x.onError, x.default})

Successors(d, n) ==
  IF n \notin NodeIds(d) THEN {}
  ELSE LET x == d.nodes[n]
       IN  Range(x.branches) \cup Required(x)
             \cup Optional({x.next, x.onError, x.default})

\* The ids that a queue which begins with those of S has had after i rounds,
\* in each of which every node adds its successors.
Rounds(d, S, succ) ==
  LET round[i \in 0..Cardinality(NodeIds(d))] ==
        IF i = 0 THEN S
        ELSE round[i - 1] \cup UNION {succ[n] : n \in round[i - 1] \cap NodeIds(d)}
  IN  round

\* validateReachability's loop: the queue is worked off until nothing is new.
Closure(d, S, succ) == Rounds(d, S, succ)[Cardinality(NodeIds(d))]

Following(d) == [n \in NodeIds(d) |-> Successors(d, n)]

\* validateReachability, which an entry that is missing ends at once.
Reachable(d) ==
  IF Exists(d, d.entry) THEN Closure(d, {d.entry}, Following(d)) ELSE NodeIds(d)

\* The nodes a warning calls unreachable.
UnreachableWarnings(d) == NodeIds(d) \ Reachable(d)

\* validate does not return: getSuccessors reads what the checks before it
\* found missing, and so does validateNodes of a definition without nodes.
Crashes(d) ==
  \/ "nodes" \in d.lacks
  \/ \E n \in Reachable(d) \cap NodeIds(d) :
       \/ d.nodes[n].type = "condition"
            /\ d.nodes[n].lacks \cap {"config", "branches"} # {}
       \/ d.nodes[n].type = "parallel" /\ "branches" \in d.nodes[n].lacks

\* validateAndReturn, and build(true): the definition is passed on.
Accepted(d) == ~ Crashes(d) /\ ~ Errors(d)

(***************************************************************************)
(* WorkflowBuilder and WorkflowBuilderService.                             *)
(***************************************************************************)
Building == built = NoDefinition

\* The node x is added under n, which nothing else may have.
Added(n, x) ==
  /\ Building
  /\ n \notin NodeIds(draft)
  /\ draft' = Definition(
       IF x.type = "trigger" /\ draft.entry = NoRef THEN n ELSE draft.entry,
       [m \in NodeIds(draft) \cup {n} |-> IF m = n THEN x ELSE draft.nodes[m]])
  /\ UNCHANGED <<built, checked, frames, ran, outcome>>

\* addTrigger: the first trigger becomes the entry.
AddTrigger ==
  \E n \in BuilderIds : \E x \in NodesFor(n) : x.type = "trigger" /\ Added(n, x)

\* addAction, addCondition, addLoop, addParallel and addEnd.
AddNode ==
  \E n \in BuilderIds : \E x \in NodesFor(n) : x.type # "trigger" /\ Added(n, x)

\* entry: nothing asks whether there is such a node.
SetEntry ==
  /\ Building
  /\ \E n \in EntryIds \ {draft.entry} : draft' = Definition(n, draft.nodes)
  /\ UNCHANGED <<built, checked, frames, ran, outcome>>

\* build and fromJson return d, checked first or not; the copy that build
\* returns does not change with the builder, so the builder is let go.
Returned(d, validate) ==
  /\ validate => Accepted(d)
  /\ built' = d
  /\ checked' = validate
  /\ draft' = NoDefinition
  /\ UNCHANGED <<frames, ran, outcome>>

Build == Building /\ \E validate \in BOOLEAN : Returned(draft, validate)

FromJson == Building /\ \E d \in Parsed : Returned(d, TRUE)

\* getTemplate, and clone of what it returns.
FromTemplate == Building /\ \E d \in Templates : Returned(d, FALSE)

(***************************************************************************)
(* Execution.                                                              *)
(***************************************************************************)
Frame(n) == [at |-> n, visited |-> {n}, back |-> FALSE, left |-> MaxIterations]

Running == outcome = "running"

Top == frames[Len(frames)]

Node == built.nodes[Top.at]

TopLevel == Len(frames) = 1

Begin ==
  /\ ~ Building
  /\ outcome = "none"
  /\ frames' = <<Frame(built.entry)>>
  /\ outcome' = "running"
  /\ UNCHANGED <<draft, built, checked, ran>>

Ends(how) ==
  /\ outcome' = how
  /\ UNCHANGED <<draft, built, checked, frames, ran>>

\* runWorkflow and runSubgraph: the id names no node.
Missing ==
  /\ Running
  /\ Top.at # NoRef /\ Top.at \notin NodeIds(built)
  /\ Ends("missing")

\* A parallel node waits for more branches than it has, and those have come to
\* their end: neither Promise.race of none nor raceN then ever settles.
WaitsForMore(x) == x.type = "parallel" /\ x.needs > Len(x.branches)

BranchesOver == Node.type = "parallel" /\ (Top.back \/ Node.branches = <<>>)

Hangs ==
  /\ Node.lacks \cap {"config", "branches"} = {}
  /\ WaitsForMore(Node) /\ BranchesOver

\* The node throws: an action's handler, or a node that lacks what its
\* execution reads.
Throws ==
  /\ Running
  /\ Exists(built, Top.at)
  /\ ~ Hangs
  /\ Ends("thrown")

\* A node that has a next id to give, and has given it.
Executed == ran' = ran \cup {Top.at}

Works ==
  /\ Running
  /\ Exists(built, Top.at)
  /\ Node.type \in {"trigger", "end"} \/ Node.lacks \cap {"config", "branches"} = {}

\* A subgraph is over: its loop or parallel node goes on.
Popped ==
  LET rest == SubSeq(frames, 1, Len(frames) - 1)
  IN  [rest EXCEPT ![Len(rest)].back = TRUE]

\* Mutant: a subgraph remembers nothing.
GoesTo_NoCycleCheck(id) ==
  \/ /\ id = NoRef /\ TopLevel
     /\ outcome' = "done" /\ UNCHANGED frames
  \/ /\ id = NoRef /\ ~ TopLevel
     /\ frames' = Popped /\ UNCHANGED outcome
  \/ /\ id # NoRef
     /\ frames' = [frames EXCEPT ![Len(frames)] = Frame(id)]
     /\ UNCHANGED outcome

\* The thread goes from its node to id: the top level ends or goes on, a
\* subgraph ends, goes on, or comes back to a node, which is an error.
GoesTo(id) ==
  \/ /\ id = NoRef /\ TopLevel
     /\ outcome' = "done" /\ UNCHANGED frames
  \/ /\ id = NoRef /\ ~ TopLevel
     /\ frames' = Popped /\ UNCHANGED outcome
  \/ /\ id # NoRef
     /\ TopLevel \/ id \notin Top.visited
     /\ frames' = [frames EXCEPT ![Len(frames)] =
                     [Frame(id) EXCEPT !.visited = IF TopLevel THEN {id}
                                                   ELSE Top.visited \cup {id}]]
     /\ UNCHANGED outcome
  \/ /\ id # NoRef /\ ~ TopLevel /\ id \in Top.visited
     /\ outcome' = "cycle" /\ UNCHANGED frames

\* An entry or a body that refers to nothing is run as nothing at all.
RunNothing ==
  /\ Running
  /\ Top.at = NoRef
  /\ GoesTo(NoRef)
  /\ UNCHANGED <<draft, built, checked, ran>>

\* Mutant: the id a condition chose is not what the engine goes to.
Chooses_NextOnly(x) == {x.next}

\* executeTrigger, executeAction and executeCondition: the error route of an
\* action is not among the ids it may give.
Chooses(x) ==
  IF x.type = "condition" THEN Range(x.branches) \cup {x.default} ELSE {x.next}

Route ==
  /\ Works
  /\ Node.type \in {"trigger", "action", "condition"}
  /\ \E id \in Chooses(Node) : GoesTo(id)
  /\ Executed
  /\ UNCHANGED <<draft, built, checked>>

\* executeEnd at the top level; in a subgraph the node is not executed.
End ==
  /\ Works
  /\ Node.type = "end"
  /\ IF TopLevel THEN Executed ELSE UNCHANGED ran
  /\ GoesTo(NoRef)
  /\ UNCHANGED <<draft, built, checked>>

\* The subgraph from n begins, one of a loop's at most MaxIterations.
Enter(n) ==
  /\ Len(frames) <= MaxDepth
  /\ frames' = Append([frames EXCEPT ![Len(frames)].left = @ - 1], Frame(n))
  /\ Executed
  /\ UNCHANGED <<draft, built, checked, outcome>>

Iterate ==
  /\ Works
  /\ Node.type = "loop"
  /\ Top.left > 0
  /\ Enter(Node.body)

Fork ==
  /\ Works
  /\ Node.type = "parallel"
  /\ ~ Top.back
  /\ \E n \in Range(Node.branches) : Enter(n)

\* A loop may have no iteration; a parallel node that waits for all resolves
\* without branches, too.
Leave ==
  /\ Works
  /\ \/ Node.type = "loop"
     \/ BranchesOver /\ ~ WaitsForMore(Node)
  /\ GoesTo(Node.next)
  /\ Executed
  /\ UNCHANGED <<draft, built, checked>>

-----------------------------------------------------------------------------
DefinitionsInit ==
  /\ draft = NoDefinition /\ built = NoDefinition
  /\ checked = FALSE
  /\ frames = <<>> /\ ran = {}
  /\ outcome = "none"

Runs ==
  \/ Begin \/ RunNothing \/ Missing \/ Throws
  \/ Route \/ End \/ Iterate \/ Fork \/ Leave

DefinitionsNext ==
  \/ AddTrigger \/ AddNode \/ SetEntry
  \/ Build \/ FromJson \/ FromTemplate
  \/ Runs

DefinitionsSpec == DefinitionsInit /\ [][DefinitionsNext]_definitionVars

\* An execution that has begun goes on: its nodes answer or throw.
FairDefinitionsSpec == DefinitionsSpec /\ WF_definitionVars(Runs)

-----------------------------------------------------------------------------
(***************************************************************************)
(* Properties.                                                             *)
(***************************************************************************)
\* An execution of a validated definition never comes to an id that names no
\* node, whatever its conditions choose and in whichever subgraph.
AcceptedNeverDangles == checked => outcome # "missing"

\* No node that the validator warns of as unreachable is ever executed, in
\* definitions it refuses or was not asked about too.
UnreachableNeverRuns == ran \cap UnreachableWarnings(built) = {}

\* Where the thread may go from a node at the top level.
Onward(d) == [n \in NodeIds(d) |-> Chooses(d.nodes[n]) \ {NoRef}]

\* From a node the thread may come back to it at the top level, by next ids alone.
TopLevelCycle(d) ==
  \E n \in Closure(d, {d.entry}, Onward(d)) \cap NodeIds(d) :
    n \in Closure(d, Onward(d)[n], Onward(d))

\* The nodes that the subgraphs of x begin at.
Into(x) ==
  Optional({x.body} \cup (IF x.type = "parallel" THEN Range(x.branches) ELSE {}))

\* What is in the subgraphs of n, and in theirs.
Inside(d, n) == Closure(d, Into(d.nodes[n]), Following(d))

\* The subgraphs of a node lead to it again, in themselves or in theirs.
NestsItself(d) == \E n \in NodeIds(d) : n \in Inside(d, n)

\* Every execution ends, and a cycle inside a subgraph is one of its ends:
\* unless the top level may go round, a loop or parallel node is inside itself,
\* or a parallel node waits for more branches than it has, of which validation
\* finds no more than the node without branches.
RunsEnd ==
  /\ Running /\ ~ TopLevelCycle(built) /\ ~ NestsItself(built)
  /\ \A n \in NodeIds(built) : ~ WaitsForMore(built.nodes[n])
  ~> ~ Running

\* The templates do what they are for: an execution whose nodes do not throw
\* comes to an end node, and no subgraph of it has a cycle.
TemplatesReachTheirEnd ==
  built \in Templates =>
    /\ outcome \notin {"missing", "cycle"}
    /\ outcome = "done" => Node.type = "end"
=============================================================================
