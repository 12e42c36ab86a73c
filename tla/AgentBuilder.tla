----------------------------- MODULE AgentBuilder -----------------------------
(***************************************************************************)
(* The agent builder: AgentStorageService with its versions, the tool      *)
(* registry, the six-step wizard and the simulator it tests against.       *)
(*                                                                         *)
(* Every service is in process and most of their methods are async, so a   *)
(* call runs up to an await and goes on one microtask later.  Microtasks   *)
(* run first in, first out: queue is theirs.  A call may be made at any    *)
(* point of it, from a request or from the continuation of another call.   *)
(***************************************************************************)
EXTENDS Naturals, Sequences, FiniteSets

CONSTANTS
  Names,           (* names an agent may be given                             *)
  Prompts,         (* system prompts: [text, unclosed |-> BOOLEAN]            *)
  Configs,         (* model configurations: [temperature, maxTokens |-> Nat]  *)
  Patches,         (* what update may be given; activate, archive and         *)
                   (* setTesting give a status                                *)
  ToolIds,
  Sessions,        (* wizard sessions                                         *)
  None,            (* no id, or no value                                      *)
  MaxAgents,       (* bound: agents ever created                              *)
  MaxVersion,      (* bound: versions of an agent                             *)
  MaxPending,      (* bound: continuations in the queue                       *)
  MaxCalls         (* bound: calls, but for those that only change a session  *)

User == "user"
Tester == "wizard-test"
UnnamedTest == "Unnamed (test)"
EmptyPrompt == [text |-> "", unclosed |-> FALSE]
DefaultPrompt == [text |-> "You are a helpful assistant.", unclosed |-> FALSE]
DefaultConfig == [temperature |-> 1, maxTokens |-> 2048]

Ids == 1..MaxAgents
Statuses == {"draft", "active", "archived", "testing"}
AllPrompts == Prompts \cup {EmptyPrompt, DefaultPrompt}
AllConfigs == Configs \cup {DefaultConfig}

\* CustomAgent, and how a wizard's session begins and goes on.
Agents ==
  [name : Names \cup {"", UnnamedTest}, prompt : AllPrompts,
   tools : SUBSET ToolIds, config : AllConfigs, creator : {User, Tester},
   status : Statuses, version : 1..MaxVersion]

WizardSessions ==
  [listed : BOOLEAN, name : Names \cup {""}, prompt : AllPrompts,
   selected : SUBSET ToolIds, config : AllConfigs, deployed : BOOLEAN,
   agentId : Ids \cup {None}]

\* A patch has values for some of an agent's fields.
IsPatch(p) ==
  /\ DOMAIN p \subseteq {"name", "prompt", "tools", "config", "status"}
  /\ "name" \in DOMAIN p => p.name \in Names
  /\ "prompt" \in DOMAIN p => p.prompt \in Prompts
  /\ "tools" \in DOMAIN p => p.tools \subseteq ToolIds
  /\ "config" \in DOMAIN p => p.config \in Configs
  /\ "status" \in DOMAIN p => p.status \in Statuses

ASSUME BuilderAssumption ==
  /\ MaxAgents \in Nat /\ MaxVersion \in Nat \ {0}
  /\ MaxPending \in Nat /\ MaxCalls \in Nat
  /\ None \notin Ids /\ None # "nobody" /\ {None, "nobody"} \cap Sessions = {}
  /\ \A p \in Patches : IsPatch(p)

VARIABLES
  agents,          (* AgentStorageService.agents                              *)
  versions,        (* AgentStorageService.versions: snapshots in order        *)
  tools,           (* ToolRegistryService.tools                               *)
  wizard,          (* BuilderWizardService.sessions                           *)
  queue,           (* the microtask queue                                     *)
  calls,           (* what is left of MaxCalls                                *)
  maker,           (* history: who created each agent, a session or None      *)
  raced,           (* history: agents written over something not read         *)
  overlapped,      (* history: sessions with two calls under way at once      *)
  edited           (* history: sessions saved after their agent was made      *)

storage == <<agents, versions, maker, raced>>
history == <<overlapped, edited>>
vars == <<agents, versions, tools, wizard, queue, calls, maker, raced,
          overlapped, edited>>

NoAgent == [status |-> "none"]

-----------------------------------------------------------------------------
(***************************************************************************)
(* The queue.  A continuation says what goes on, for which session and     *)
(* which agent, and what it holds from before the await.                   *)
(***************************************************************************)
Then(kind, s, id, held) == [kind |-> kind, s |-> s, id |-> id, held |-> held]

Room == Len(queue) < MaxPending
Await(k) == Room /\ queue' = Append(queue, k)

\* The continuation at the head of the queue, and what follows it.
Resumes(kind) == queue # <<>> /\ Head(queue).kind = kind
Ends == queue' = Tail(queue)
Goes(k) == queue' = Append(Tail(queue), k)

Call == calls > 0 /\ calls' = calls - 1

Busy(s) == \E i \in DOMAIN queue : queue[i].s = s

-----------------------------------------------------------------------------
(***************************************************************************)
(* AgentStorageService.                                                    *)
(***************************************************************************)
Stored(id) == agents[id] # NoAgent

\* recordVersion: a copy of the agent, whose version says which it is.
Record(h, agent) == Append(h, agent)

\* The agent's version and its place in the history are set together.
Write(id, agent) ==
  /\ agents' = [agents EXCEPT ![id] = agent]
  /\ versions' = [versions EXCEPT ![id] = Record(@, agent)]

\* create, up to its return: one user's names are unique.
Taken(name, creator) ==
  \E a \in Ids : Stored(a) /\ agents[a].name = name /\ agents[a].creator = creator

NewAgent(data, creator) ==
  [name |-> data.name, prompt |-> data.prompt, tools |-> data.tools,
   config |-> data.config, creator |-> creator, status |-> "draft",
   version |-> 1]

Create(id, data, creator, s) ==
  /\ maker[id] = "nobody" /\ \A a \in 1..(id - 1) : maker[a] # "nobody"
  /\ ~Taken(data.name, creator)
  /\ Write(id, NewAgent(data, creator))
  /\ maker' = [maker EXCEPT ![id] = s]
  /\ UNCHANGED raced

\* A caller of its own creates an agent.
CreateAgent ==
  /\ Call
  /\ \E id \in Ids, name \in Names :
       Create(id, [name |-> name, prompt |-> DefaultPrompt, tools |-> {},
                   config |-> DefaultConfig], User, None)
  /\ UNCHANGED <<tools, wizard, queue, history>>

\* update, to its await: findById throws if there is no agent, and the call
\* ends; it returns a copy otherwise.
Update ==
  /\ Call
  /\ \E id \in Ids, patch \in Patches :
       /\ Stored(id) /\ agents[id].version < MaxVersion
       /\ Await(Then("write", None, id, <<agents[id], patch>>))
  /\ UNCHANGED <<storage, tools, wizard, history>>

\* The patch over the agent, which has all of its fields, and the version.
Updated(current, patch) ==
  [f \in DOMAIN current |->
     IF f = "version" THEN current.version + 1
     ELSE IF f \in DOMAIN patch THEN patch[f] ELSE current[f]]

Restored(current, snapshot) ==
  [snapshot EXCEPT !.version = current.version + 1]

\* What is written was made from a copy that may be out of date by now.
Race(id, current) ==
  raced' = IF agents[id] = current THEN raced ELSE raced \cup {id}

\* Mutant: restoring does not record a version.
RestoreWrite_Unrecorded ==
  /\ Resumes("restore")
  /\ LET k == Head(queue) IN
       /\ agents' = [agents EXCEPT ![k.id] = Restored(k.held[1], k.held[2])]
       /\ Race(k.id, k.held[1])
  /\ Ends
  /\ UNCHANGED <<calls, versions, maker, tools, wizard, history>>

\* restoreVersion, as it goes on from its second await.
RestoreWrite ==
  /\ Resumes("restore")
  /\ LET k == Head(queue) IN
       /\ Write(k.id, Restored(k.held[1], k.held[2]))
       /\ Race(k.id, k.held[1])
  /\ Ends
  /\ UNCHANGED <<calls, maker, tools, wizard, history>>

\* update, as it goes on; the deploy that called it through activate waits
\* for it.
UpdateWrite ==
  /\ Resumes("write")
  /\ LET k == Head(queue) IN
       /\ Write(k.id, Updated(k.held[1], k.held[2]))
       /\ Race(k.id, k.held[1])
       /\ IF k.s = None THEN Ends ELSE Goes(Then("deployed", k.s, k.id, None))
  /\ UNCHANGED <<calls, maker, tools, wizard, history>>

\* delete.
Delete ==
  /\ Call
  /\ \E id \in Ids :
       /\ Stored(id)
       /\ agents' = [agents EXCEPT ![id] = NoAgent]
       /\ versions' = [versions EXCEPT ![id] = <<>>]
  /\ UNCHANGED <<maker, raced, tools, wizard, queue, history>>

\* restoreVersion: getVersion calls getVersionHistory, which calls findById,
\* and each awaits the next.
Restore ==
  /\ Call
  /\ \E id \in Ids, v \in 1..MaxVersion :
       /\ Stored(id) /\ agents[id].version < MaxVersion
       /\ Await(Then("history", None, id, v))
  /\ UNCHANGED <<storage, tools, wizard, history>>

\* getVersionHistory goes on and copies the history; getVersion then looks
\* for the first snapshot of the version in it, and throws if there is none.
ReadHistory ==
  /\ Resumes("history")
  /\ LET k == Head(queue)
         h == versions[k.id]
         found == {i \in DOMAIN h : h[i].version = k.held}
     IN \/ found = {} /\ Ends
        \/ \E i \in found : /\ \A j \in found : i <= j
                            /\ Goes(Then("found", None, k.id, h[i]))
  /\ UNCHANGED <<calls, storage, tools, wizard, history>>

Found ==
  /\ Resumes("found")
  /\ LET k == Head(queue) IN Goes(Then("snapshot", None, k.id, k.held))
  /\ UNCHANGED <<calls, storage, tools, wizard, history>>

\* restoreVersion goes on with the snapshot and reads the agent.
ReadCurrent ==
  /\ Resumes("snapshot")
  /\ LET k == Head(queue) IN
       IF Stored(k.id) /\ agents[k.id].version < MaxVersion
         THEN Goes(Then("restore", None, k.id, <<agents[k.id], k.held>>))
         ELSE Ends
  /\ UNCHANGED <<calls, storage, tools, wizard, history>>

-----------------------------------------------------------------------------
(***************************************************************************)
(* ToolRegistryService.                                                    *)
(***************************************************************************)
\* register, of an id that is not taken.
Register ==
  /\ Call
  /\ \E t \in ToolIds, available \in {"on", "off"} :
       /\ tools[t] = "absent"
       /\ tools' = [tools EXCEPT ![t] = available]
  /\ UNCHANGED <<storage, wizard, queue, history>>

\* update, of a registered tool's availability.
UpdateTool ==
  /\ Call
  /\ \E t \in ToolIds, available \in {"on", "off"} :
       /\ tools[t] # "absent"
       /\ tools' = [tools EXCEPT ![t] = available]
  /\ UNCHANGED <<storage, wizard, queue, history>>

\* unregister.
Unregister ==
  /\ Call
  /\ \E t \in ToolIds :
       /\ tools[t] # "absent"
       /\ tools' = [tools EXCEPT ![t] = "absent"]
  /\ UNCHANGED <<storage, wizard, queue, history>>

Has(t) == tools[t] # "absent"

\* getAvailableForAgent: what is gone or unavailable is left out.
ResolveTools(ids) == {t \in ids : tools[t] = "on"}

-----------------------------------------------------------------------------
(***************************************************************************)
(* BuilderWizardService.  No method reads the status of a step or the      *)
(* current one: only whether the last step is completed is kept.           *)
(***************************************************************************)
NewSession ==
  [listed |-> TRUE, name |-> "", prompt |-> EmptyPrompt, selected |-> {},
   config |-> DefaultConfig, deployed |-> FALSE, agentId |-> None]

Unborn == [NewSession EXCEPT !.listed = FALSE]

CreateSession(s) ==
  /\ wizard[s] = Unborn
  /\ wizard' = [wizard EXCEPT ![s] = NewSession]
  /\ UNCHANGED <<calls, storage, tools, queue, history>>

\* deleteSession: a call under way still has the session's object.
DeleteSession(s) ==
  /\ wizard[s].listed
  /\ wizard' = [wizard EXCEPT ![s].listed = FALSE]
  /\ UNCHANGED <<calls, storage, tools, queue, history>>

\* A save, of a session that is there; what is saved after the session's
\* agent was made does not reach that agent.
Save(s, session) ==
  /\ wizard[s].listed
  /\ wizard' = [wizard EXCEPT ![s] = session]
  /\ edited' = IF wizard[s].agentId # None \/ Busy(s) THEN edited \cup {s}
                                                      ELSE edited
  /\ UNCHANGED <<calls, storage, tools, queue, overlapped>>

SaveStep1(s) ==
  \E n \in Names :
    n # "" /\ Save(s, [wizard[s] EXCEPT !.name = n])

\* validate: an empty prompt or an unclosed placeholder is an error.
Valid(p) == p.text # "" /\ ~p.unclosed

SaveStep2(s) ==
  \E p \in Prompts : Valid(p) /\ Save(s, [wizard[s] EXCEPT !.prompt = p])

SaveStep3(s) ==
  \E ids \in SUBSET ToolIds :
    /\ \A t \in ids : Has(t)
    /\ Save(s, [wizard[s] EXCEPT !.selected = ids])

InRange(c) == c.temperature \in 0..2 /\ c.maxTokens \in 1..128000

SaveStep4(s) ==
  \E c \in Configs :
    /\ InRange(c)
    /\ Save(s, [wizard[s] EXCEPT !.config = c])

\* goToStep, where the step is the last: it is active again.
GoToStep(s) ==
  /\ wizard[s].listed
  /\ wizard' = [wizard EXCEPT ![s].deployed = FALSE]
  /\ UNCHANGED <<calls, storage, tools, queue, history>>

Or(x, empty, default) == IF x = empty THEN default ELSE x

\* Mutant: the temporary agent gets the default prompt.
TempDto_Default(session) ==
  [name |-> Or(session.name, "", UnnamedTest), prompt |-> DefaultPrompt,
   tools |-> ResolveTools(session.selected), config |-> session.config]

TempDto(session) ==
  [name |-> Or(session.name, "", UnnamedTest),
   prompt |-> Or(session.prompt, EmptyPrompt, DefaultPrompt),
   tools |-> ResolveTools(session.selected), config |-> session.config]

FinalDto(session) ==
  [name |-> session.name, prompt |-> session.prompt,
   tools |-> ResolveTools(session.selected), config |-> session.config]

\* runTest and deploy begin with a session that is there.
Begin(s) ==
  /\ Call
  /\ wizard[s].listed
  /\ overlapped' = IF Busy(s) THEN overlapped \cup {s} ELSE overlapped
  /\ UNCHANGED <<tools, wizard, edited>>

\* runTest of a session without an agent, which makes one; create throws on
\* a name another session's test has taken.
TestNew(s) ==
  /\ Begin(s)
  /\ wizard[s].agentId = None
  /\ \E id \in Ids :
       /\ Create(id, TempDto(wizard[s]), Tester, s)
       /\ Await(Then("tested", s, id, None))

\* runTest of a session that has an agent; simulate throws if it is gone.
TestAgain(s) ==
  /\ Begin(s)
  /\ wizard[s].agentId # None
  /\ Stored(wizard[s].agentId)
  /\ Await(Then("simulated", s, wizard[s].agentId, None))
  /\ UNCHANGED storage

\* Mutant: the session does not keep the id of its temporary agent.
Tested_Forgets ==
  /\ Resumes("tested")
  /\ LET k == Head(queue) IN
       /\ wizard' = wizard
       /\ IF Stored(k.id) THEN Goes(Then("simulated", k.s, k.id, None)) ELSE Ends
  /\ UNCHANGED <<calls, storage, tools, history>>

\* runTest goes on with the agent it made, and simulates.
Tested ==
  /\ Resumes("tested")
  /\ LET k == Head(queue) IN
       /\ wizard' = [wizard EXCEPT ![k.s].agentId = k.id]
       /\ IF Stored(k.id) THEN Goes(Then("simulated", k.s, k.id, None)) ELSE Ends
  /\ UNCHANGED <<calls, storage, tools, history>>

\* simulate has answered each message; none of its paths notes an error, so
\* the last step is the active one.
Simulated ==
  /\ Resumes("simulated")
  /\ wizard' = [wizard EXCEPT ![Head(queue).s].deployed = FALSE]
  /\ Ends
  /\ UNCHANGED <<calls, storage, tools, history>>

\* deploy, confirmed, of a session without an agent.
DeployNew(s) ==
  /\ Begin(s)
  /\ wizard[s].agentId = None
  /\ \E id \in Ids :
       /\ Create(id, FinalDto(wizard[s]), User, s)
       /\ Await(Then("made", s, id, None))

Activation(s, id) ==
  Then("write", s, id, <<agents[id], [status |-> "active"]>>)

\* deploy, confirmed, of a session that has an agent: activate reads it at
\* once, and throws if it is gone.
DeployAgain(s) ==
  /\ Begin(s)
  /\ LET id == wizard[s].agentId IN
       /\ id # None
       /\ Stored(id) /\ agents[id].version < MaxVersion
       /\ Await(Activation(s, id))
  /\ UNCHANGED storage

\* deploy goes on with the agent it made, and activates it.
Made ==
  /\ Resumes("made")
  /\ LET k == Head(queue) IN
       /\ wizard' = [wizard EXCEPT ![k.s].agentId = k.id]
       /\ IF Stored(k.id) /\ agents[k.id].version < MaxVersion
            THEN Goes(Activation(k.s, k.id))
            ELSE Ends
  /\ UNCHANGED <<calls, storage, tools, history>>

Deployed ==
  /\ Resumes("deployed")
  /\ wizard' = [wizard EXCEPT ![Head(queue).s].deployed = TRUE]
  /\ Ends
  /\ UNCHANGED <<calls, storage, tools, history>>

\* simulate awaits a timer for each tool it calls, and activate's promise
\* takes more than one microtask to settle: others go first.
Later ==
  /\ queue # <<>> /\ Head(queue).kind \in {"simulated", "deployed"}
  /\ Goes(Head(queue))
  /\ UNCHANGED <<calls, storage, tools, wizard, history>>

-----------------------------------------------------------------------------
Init ==
  /\ agents = [id \in Ids |-> NoAgent]
  /\ versions = [id \in Ids |-> <<>>]
  /\ tools = [t \in ToolIds |-> "on"]
  /\ wizard = [s \in Sessions |-> Unborn]
  /\ queue = <<>>
  /\ calls = MaxCalls
  /\ maker = [id \in Ids |-> "nobody"]
  /\ raced = {} /\ overlapped = {} /\ edited = {}

Wizard(s) ==
  \/ CreateSession(s) \/ DeleteSession(s) \/ GoToStep(s)
  \/ SaveStep1(s) \/ SaveStep2(s) \/ SaveStep3(s) \/ SaveStep4(s)
  \/ TestNew(s) \/ TestAgain(s) \/ DeployNew(s) \/ DeployAgain(s)

Microtask ==
  \/ UpdateWrite \/ ReadHistory \/ Found \/ ReadCurrent \/ RestoreWrite
  \/ Tested \/ Simulated \/ Made \/ Deployed \/ Later

Next ==
  \/ \E s \in Sessions : Wizard(s)
  \/ Microtask
  \/ CreateAgent \/ Update \/ Delete \/ Restore
  \/ Register \/ UpdateTool \/ Unregister

Spec == Init /\ [][Next]_vars

-----------------------------------------------------------------------------
\* What each kind of continuation is about and holds: a copy of an agent that
\* may be written, and what of it is to change; a snapshot; a version.
IsCopy(a) == a \in Agents /\ a.version < MaxVersion

IsContinuation(k) ==
  /\ k.id \in Ids
  /\ \/ k.kind = "write" /\ IsCopy(k.held[1]) /\ IsPatch(k.held[2])
        /\ \/ k.s = None
           \/ k.s \in Sessions /\ k.held[2] = [status |-> "active"]
     \/ k.kind = "restore" /\ k.s = None
        /\ IsCopy(k.held[1]) /\ k.held[2] \in Agents
     \/ k.kind = "history" /\ k.s = None /\ k.held \in 1..MaxVersion
     \/ k.kind \in {"found", "snapshot"} /\ k.s = None /\ k.held \in Agents
     \/ k.kind \in {"tested", "simulated", "made", "deployed"} /\ k.s \in Sessions

TypeOK ==
  /\ agents \in [Ids -> Agents \cup {NoAgent}]
  /\ versions \in [Ids -> Seq(Agents)]
  /\ tools \in [ToolIds -> {"on", "off", "absent"}]
  /\ wizard \in [Sessions -> WizardSessions]
  /\ Len(queue) <= MaxPending
  /\ \A i \in DOMAIN queue : IsContinuation(queue[i])
  /\ calls \in 0..MaxCalls
  /\ maker \in [Ids -> Sessions \cup {None, "nobody"}]
  /\ raced \subseteq Ids /\ overlapped \subseteq Sessions /\ edited \subseteq Sessions

\* However the calls on an agent interleave, deletes and restores included,
\* an agent is stored exactly when it has a history, and the last snapshot
\* of its history is the agent (AgentStorageService writes two maps).
HistoryEndsInStore ==
  \A id \in Ids :
    IF Stored(id)
      THEN versions[id] # <<>> /\ versions[id][Len(versions[id])] = agents[id]
      ELSE versions[id] = <<>>

\* From one snapshot to the next the version goes up by one; where two calls
\* read the same agent before either wrote, they share a version, but it
\* never goes back and never leaves one out (update, restoreVersion).
VersionsClimb ==
  \A id \in Ids : \A i \in 1..(Len(versions[id]) - 1) :
    LET step == [from |-> versions[id][i].version,
                 to |-> versions[id][i + 1].version]
    IN \/ step.to = step.from + 1
       \/ id \in raced /\ step.to = step.from

\* The history of an agent tells what became of it: both of the above.
HistoryIsFaithful == HistoryEndsInStore /\ VersionsClimb

\* A session whose calls never overlapped has made one agent at most and
\* still knows it: a test and a deployment are of the same agent, and no
\* temporary agent is left behind (runTest and deploy read agentId before
\* an await and set it after).
SessionsOwnOneAgent ==
  \A s \in Sessions \ overlapped :
    ~Busy(s) => {id \in Ids : maker[id] = s} = {wizard[s].agentId} \ {None}

\* A deployment that is complete activated the session's agent, and if
\* nothing was saved since the agent was made, by a test or the deployment,
\* then the agent began with all that the session holds, but for tools that
\* were not available and the names a test makes up.
DeployedAsBuilt ==
  \A s \in Sessions \ overlapped :
    LET w == wizard[s]
        h == versions[w.agentId]
    IN w.deployed /\ w.agentId \notin raced /\ h # <<>> =>
         /\ \E i \in DOMAIN h : h[i].status = "active"
         /\ s \notin edited =>
              /\ h[1].name \in {w.name, Or(w.name, "", UnnamedTest)}
              /\ h[1].prompt \in {w.prompt, Or(w.prompt, EmptyPrompt, DefaultPrompt)}
              /\ h[1].config = w.config
              /\ h[1].tools \subseteq w.selected
=============================================================================
