--------------------------- MODULE AgentBuilderProofs ---------------------------
(***************************************************************************)
(* Proofs about the agent builder, for any number of agents, versions,     *)
(* sessions, tools and continuations.                                      *)
(***************************************************************************)
EXTENDS AgentBuilder, SequenceTheorems, TLAPS

\* The queue is a sequence, whatever it holds.
IsQueue == queue \in Seq({queue[i] : i \in 1..Len(queue)})

Writes(k) == k.kind \in {"write", "restore"}
FromTo(v, w) == w \in {v, v + 1}

\* What is to be written was read no more than one version ago, and what is
\* first in the queue was read first.
ClimbInv ==
  /\ \A id \in Ids : Stored(id) => maker[id] # "nobody"
  /\ \A i \in DOMAIN queue :
       /\ maker[queue[i].id] # "nobody"
       /\ Writes(queue[i]) /\ Stored(queue[i].id) =>
            FromTo(queue[i].held[1].version, agents[queue[i].id].version)
  /\ \A i, j \in DOMAIN queue :
       i < j /\ Writes(queue[i]) /\ Writes(queue[j]) /\ queue[i].id = queue[j].id =>
         FromTo(queue[i].held[1].version, queue[j].held[1].version)

MadeBy(s) == {id \in Ids : maker[id] = s}
Makes(k) == k.kind \in {"tested", "made"}

\* One call of the session is under way at most; one that has made an agent
\* has yet to tell the session, which has made no other.
Owns(s) ==
  /\ \A i, j \in DOMAIN queue : queue[i].s = s /\ queue[j].s = s => i = j
  /\ (\A i \in DOMAIN queue : queue[i].s = s => ~ Makes(queue[i])) =>
       MadeBy(s) = {wizard[s].agentId} \ {None}
  /\ \A i \in DOMAIN queue : queue[i].s = s =>
       IF Makes(queue[i])
       THEN wizard[s].agentId = None /\ MadeBy(s) = {queue[i].id}
       ELSE wizard[s].agentId = queue[i].id

OwnInv == \A s \in Sessions \ overlapped : Owns(s)

\* An agent whose history is whole was active once.
Activated(id) ==
  id \notin raced /\ versions[id] # <<>> =>
    \E i \in DOMAIN versions[id] : versions[id][i].status = "active"

\* The agent a is what the session w has described.
BeganAs(w, a) ==
  /\ a.name \in {w.name, Or(w.name, "", UnnamedTest)}
  /\ a.prompt \in {w.prompt, Or(w.prompt, EmptyPrompt, DefaultPrompt)}
  /\ a.config = w.config
  /\ a.tools \subseteq w.selected

\* A deployment that is complete, or about to be, was activated, and what the
\* session made began as the session is, unless that was edited since.
Builds(s) ==
  /\ \A i \in DOMAIN queue :
       queue[i].s = s /\ queue[i].kind = "deployed" => Activated(queue[i].id)
  /\ wizard[s].deployed => wizard[s].agentId # None /\ Activated(wizard[s].agentId)
  /\ s \notin edited => \A id \in MadeBy(s) :
       id \notin raced /\ versions[id] # <<>> => BeganAs(wizard[s], versions[id][1])

BuiltInv == \A s \in Sessions \ overlapped : Builds(s)

BuilderInv == TypeOK /\ IsQueue /\ HistoryIsFaithful /\ ClimbInv /\ OwnInv /\ BuiltInv

-----------------------------------------------------------------------------
(***************************************************************************)
(* What the operators return.                                              *)
(***************************************************************************)
\* An agent has its fields, which a deleted one has not.
LEMMA AgentFields ==
  ASSUME NEW a \in Agents
  PROVE  /\ DOMAIN a =
              {"name", "prompt", "tools", "config", "creator", "status", "version"}
         /\ a = [f \in DOMAIN a |-> a[f]]
         /\ a # NoAgent
<1>1. /\ DOMAIN a =
           {"name", "prompt", "tools", "config", "creator", "status", "version"}
      /\ a = [f \in DOMAIN a |-> a[f]]
  BY DEF Agents
<1>2. "version" \notin DOMAIN NoAgent
  BY DEF NoAgent
<1> QED
  BY <1>1, <1>2

\* There is room for the version that follows a copy.
LEMMA NextVersion ==
  ASSUME NEW a, IsCopy(a)
  PROVE  a.version \in Nat /\ a.version + 1 \in 1..MaxVersion
<1>1. MaxVersion \in Nat
  BY BuilderAssumption
<1>2. a.version \in 1..MaxVersion /\ a.version < MaxVersion
  BY DEF IsCopy, Agents
<1> QED
  BY <1>1, <1>2

\* An update keeps the type, and its version is the next.
LEMMA UpdatedAgent ==
  ASSUME NEW a, IsCopy(a), NEW p, IsPatch(p)
  PROVE  /\ Updated(a, p) \in Agents
         /\ Updated(a, p).version = a.version + 1
         /\ p = [status |-> "active"] => Updated(a, p).status = "active"
<1> DEFINE u == Updated(a, p)
<1>1. /\ DOMAIN a = {"name", "prompt", "tools", "config", "creator", "status", "version"}
      /\ a = [f \in DOMAIN a |-> a[f]]
      /\ a.version + 1 \in 1..MaxVersion
  BY AgentFields, NextVersion DEF IsCopy
<1>2. /\ u.version = a.version + 1 /\ u.creator = a.creator
      /\ u.name = IF "name" \in DOMAIN p THEN p.name ELSE a.name
      /\ u.prompt = IF "prompt" \in DOMAIN p THEN p.prompt ELSE a.prompt
      /\ u.tools = IF "tools" \in DOMAIN p THEN p.tools ELSE a.tools
      /\ u.config = IF "config" \in DOMAIN p THEN p.config ELSE a.config
      /\ u.status = IF "status" \in DOMAIN p THEN p.status ELSE a.status
  BY <1>1 DEF Updated, IsPatch
<1>3. u = [name |-> u.name, prompt |-> u.prompt, tools |-> u.tools, config |-> u.config,
           creator |-> u.creator, status |-> u.status, version |-> u.version]
  BY <1>1 DEF Updated
<1> HIDE DEF u
<1>4. u \in Agents
  BY <1>1, <1>2, <1>3 DEF Agents, IsPatch, IsCopy, AllPrompts, AllConfigs
<1> QED
  BY <1>2, <1>4 DEF u

\* So does a restored snapshot.
LEMMA RestoredAgent ==
  ASSUME NEW a, IsCopy(a), NEW b \in Agents
  PROVE  Restored(a, b) \in Agents /\ Restored(a, b).version = a.version + 1
<1>1. a.version + 1 \in 1..MaxVersion
  BY NextVersion
<1> QED
  BY <1>1 DEF Restored, Agents

\* What the DTOs of a session make.
LEMMA BuiltAgents ==
  ASSUME NEW w \in WizardSessions, NEW dto \in {TempDto(w), FinalDto(w)},
         NEW creator \in {User, Tester}
  PROVE  NewAgent(dto, creator) \in Agents /\ BeganAs(w, NewAgent(dto, creator))
<1>1. /\ dto.name \in {w.name, Or(w.name, "", UnnamedTest)}
      /\ dto.prompt \in {w.prompt, Or(w.prompt, EmptyPrompt, DefaultPrompt)}
      /\ dto.config = w.config
      /\ dto.tools \subseteq w.selected
  <2>1. CASE dto = TempDto(w)
    BY <2>1 DEF TempDto, ResolveTools
  <2>2. CASE dto = FinalDto(w)
    BY <2>2 DEF FinalDto, ResolveTools
  <2> QED
    BY <2>1, <2>2
<1>2. /\ dto.name \in Names \cup {"", UnnamedTest} /\ dto.prompt \in AllPrompts
      /\ dto.config \in AllConfigs /\ dto.tools \subseteq ToolIds
  BY <1>1 DEF WizardSessions, Or, AllPrompts
<1>3. 1 \in 1..MaxVersion
  BY BuilderAssumption
<1> QED
  BY <1>1, <1>2, <1>3 DEF NewAgent, Agents, BeganAs, Statuses

-----------------------------------------------------------------------------
(***************************************************************************)
(* The queue.  In a step it loses the first n of its continuations and     *)
(* gains the one in new, if any, at its end.                               *)
(***************************************************************************)
QueueStep(n, new) ==
  /\ IsQueue'
  /\ \A i \in 1..Len(queue') :
       \/ i + n \in 1..Len(queue) /\ queue'[i] = queue[i + n]
       \/ i + n = Len(queue) + 1 /\ queue'[i] \in new
  /\ \A i \in 1..Len(queue) :
       i > n => i - n \in 1..Len(queue') /\ queue'[i - n] = queue[i]
  /\ \A k \in new : Len(queue') \in 1..Len(queue') /\ queue'[Len(queue')] = k

LEMMA SeqOfItself ==
  ASSUME NEW S, NEW q \in Seq(S)
  PROVE  q \in Seq({q[i] : i \in 1..Len(q)})
<1>1. Len(q) \in Nat /\ q \in [1..Len(q) -> S]
  BY LenProperties
<1>2. q \in [1..Len(q) -> {q[i] : i \in 1..Len(q)}]
  BY <1>1
<1> QED
  BY <1>1, <1>2, SeqDef

LEMMA QueueFacts ==
  ASSUME IsQueue
  PROVE  /\ Len(queue) \in Nat /\ DOMAIN queue = 1..Len(queue)
         /\ queue # <<>> => 1 \in DOMAIN queue /\ Head(queue) = queue[1]
<1>1. Len(queue) \in Nat /\ DOMAIN queue = 1..Len(queue)
  BY LenProperties DEF IsQueue
<1>2. queue # <<>> => Len(queue) \in Nat \ {0}
  BY EmptySeq DEF IsQueue
<1> QED
  BY <1>1, <1>2

LEMMA QueueStays ==
  ASSUME IsQueue, queue' = queue
  PROVE  QueueStep(0, {})
BY QueueFacts DEF QueueStep, IsQueue

LEMMA QueueAwait ==
  ASSUME IsQueue, NEW k, Await(k)
  PROVE  QueueStep(0, {k})
<1> DEFINE S == {queue[i] : i \in 1..Len(queue)} \cup {k}
<1>1. queue \in Seq(S)
  BY SeqMonotonic DEF IsQueue
<1>2. Len(queue) \in Nat
  BY QueueFacts
<1> HIDE DEF S
<1>3. k \in S
  BY DEF S
<1>4. /\ queue' \in Seq(S) /\ Len(queue') = Len(queue) + 1
      /\ \A i \in 1..Len(queue) : queue'[i] = queue[i]
      /\ queue'[Len(queue) + 1] = k
  BY <1>1, <1>2, <1>3 DEF Await
<1>5. IsQueue'
  BY SMTT(30), <1>4, SeqOfItself DEF IsQueue
<1> QED
  BY <1>2, <1>4, <1>5 DEF QueueStep

LEMMA QueueEnds ==
  ASSUME IsQueue, queue # <<>>, Ends
  PROVE  QueueStep(1, {})
<1> DEFINE S == {queue[i] : i \in 1..Len(queue)}
<1>1. queue \in Seq(S) /\ Len(queue) \in Nat \ {0}
  BY QueueFacts, EmptySeq DEF IsQueue
<1> HIDE DEF S
<1>2. /\ queue' \in Seq(S) /\ Len(queue') = Len(queue) - 1
      /\ \A i \in 1..Len(queue') : queue'[i] = queue[i + 1]
  BY <1>1, HeadTailProperties DEF Ends
<1>3. IsQueue'
  BY SMTT(30), <1>2, SeqOfItself DEF IsQueue
<1> QED
  BY <1>1, <1>2, <1>3 DEF QueueStep

LEMMA QueueGoes ==
  ASSUME IsQueue, queue # <<>>, NEW k, Goes(k)
  PROVE  QueueStep(1, {k})
<1> DEFINE S == {queue[i] : i \in 1..Len(queue)} \cup {k}
           t == Tail(queue)
<1>1. queue \in Seq(S) /\ Len(queue) \in Nat \ {0}
  BY QueueFacts, EmptySeq, SeqMonotonic DEF IsQueue
<1>2. k \in S
  OBVIOUS
<1> HIDE DEF S
<1>3. /\ t \in Seq(S) /\ Len(t) = Len(queue) - 1
      /\ \A i \in 1..Len(t) : t[i] = queue[i + 1]
  BY <1>1, HeadTailProperties
<1>4. queue' = Append(t, k)
  BY DEF Goes
<1> HIDE DEF t
<1>5. /\ queue' \in Seq(S) /\ Len(queue') = Len(t) + 1
      /\ \A i \in 1..Len(t) : queue'[i] = t[i]
      /\ queue'[Len(t) + 1] = k
  BY <1>1, <1>2, <1>3, <1>4
<1>6. IsQueue'
  BY <1>5, SeqOfItself DEF IsQueue
<1> QED
  BY <1>1, <1>3, <1>5, <1>6 DEF QueueStep

\* What holds of each continuation goes on if it does of those that are new.
LEMMA QueueKeeps ==
  ASSUME IsQueue, NEW n \in {0, 1}, NEW new, QueueStep(n, new)
  PROVE  \A i \in DOMAIN queue' :
           \/ i + n \in DOMAIN queue /\ queue'[i] = queue[i + n]
           \/ i + n = Len(queue) + 1 /\ queue'[i] \in new
<1>1. DOMAIN queue = 1..Len(queue)
  BY QueueFacts
<1>2. DOMAIN queue' = 1..Len(queue')
  BY LenProperties DEF QueueStep, IsQueue
<1> QED
  BY <1>1, <1>2 DEF QueueStep

-----------------------------------------------------------------------------
(***************************************************************************)
(* What a step may do, whichever action it is: who is in the queue, what   *)
(* becomes of the storage and of the session.                              *)
(***************************************************************************)
Front == Head(queue)

\* A continuation that is new and will write holds the agent as it is.
Fresh(k) ==
  /\ IsContinuation(k)
  /\ Writes(k) => Stored(k.id) /\ k.held[1] = agents[k.id]

Joins(k) == Len(queue) < MaxPending /\ QueueStep(0, {k}) /\ Fresh(k)

\* The front of the queue goes on: it ends, or another takes its place.
Follows(new) ==
  /\ queue # <<>> /\ QueueStep(1, new)
  /\ \A k \in new : Fresh(k) /\ k.s = Front.s /\ k.id = Front.id

\* The session begins a call.
Begins(s) ==
  /\ overlapped' = IF Busy(s) THEN overlapped \cup {s} ELSE overlapped
  /\ UNCHANGED <<wizard, edited>>

Draft(w) == <<w.name, w.prompt, w.selected, w.config>>

SessionChanges(s) ==
  /\ UNCHANGED <<storage, queue, overlapped>>
  /\ \E w \in WizardSessions :
       /\ wizard' = [wizard EXCEPT ![s] = w]
       /\ w.agentId = wizard[s].agentId
       /\ w.deployed => wizard[s].deployed
       /\ edited \subseteq edited' /\ edited' \subseteq edited \cup {s}
       /\ \/ s \in edited'
          \/ wizard[s].agentId = None /\ ~ Busy(s)
          \/ Draft(w) = Draft(wizard[s])

CallJoins ==
  /\ \E k : Joins(k) /\ k.s = None /\ Stored(k.id)
  /\ UNCHANGED <<storage, wizard, history>>

SessionCallJoins(s) ==
  /\ Begins(s) /\ UNCHANGED storage
  /\ \E k : /\ Joins(k) /\ ~ Makes(k) /\ k.kind # "deployed"
            /\ k.s = s /\ k.id = wizard[s].agentId /\ Stored(k.id)

Creation(id, s) ==
  /\ maker[id] = "nobody" /\ maker' = [maker EXCEPT ![id] = s]
  /\ UNCHANGED raced
  /\ \E a \in Agents : /\ a.version = 1 /\ Write(id, a)
                       /\ s \in Sessions => BeganAs(wizard[s], a)

SessionCreates(s) ==
  /\ Begins(s)
  /\ wizard[s].agentId = None
  /\ \E id \in Ids : /\ Creation(id, s)
                     /\ \E k : Joins(k) /\ Makes(k) /\ k.s = s /\ k.id = id

CallCreates ==
  /\ \E id \in Ids : Creation(id, None)
  /\ UNCHANGED <<wizard, queue, history>>

Overwrites ==
  /\ UNCHANGED <<maker, wizard, history>>
  /\ Writes(Front)
  /\ \E a \in Agents :
       /\ a.version = Front.held[1].version + 1 /\ Write(Front.id, a)
       /\ Front.s \in Sessions => a.status = "active"
  /\ Race(Front.id, Front.held[1])
  /\ \E new : Follows(new) /\ \A k \in new : k.kind = "deployed"

Reads ==
  /\ UNCHANGED <<storage, wizard, history>>
  /\ Front.s = None
  /\ \E new : Follows(new)

SessionLearns ==
  /\ UNCHANGED <<storage, history>>
  /\ Makes(Front)
  /\ wizard' = [wizard EXCEPT ![Front.s].agentId = Front.id]
  /\ \E new : Follows(new) /\ \A k \in new : ~ Makes(k) /\ k.kind # "deployed"

SessionEnds(deployed) ==
  /\ UNCHANGED <<storage, history>>
  /\ ~ Makes(Front) /\ Front.s \in Sessions
  /\ deployed => Front.kind = "deployed"
  /\ wizard' = [wizard EXCEPT ![Front.s].deployed = deployed]
  /\ Follows({})

Waits ==
  /\ UNCHANGED <<storage, wizard, history>>
  /\ ~ Makes(Front)
  /\ Follows({Front})

Deletion ==
  /\ \E id \in Ids : /\ agents' = [agents EXCEPT ![id] = NoAgent]
                     /\ versions' = [versions EXCEPT ![id] = <<>>]
  /\ UNCHANGED <<maker, raced, wizard, queue, history>>

NothingChanges == UNCHANGED <<storage, wizard, queue, history>>

Shape ==
  \/ \E s \in Sessions :
       SessionChanges(s) \/ SessionCallJoins(s) \/ SessionCreates(s)
  \/ CallJoins \/ CallCreates \/ Overwrites \/ Reads \/ SessionLearns
  \/ SessionEnds(TRUE) \/ SessionEnds(FALSE) \/ Waits \/ Deletion
  \/ NothingChanges

LEMMA FrontIsContinuation ==
  ASSUME TypeOK, IsQueue, queue # <<>>
  PROVE  IsContinuation(Front) /\ Front = queue[1] /\ 1 \in DOMAIN queue
BY QueueFacts DEF TypeOK, Front

LEMMA SessionStepHasShape ==
  ASSUME TypeOK, IsQueue, NEW s \in Sessions, Wizard(s)
  PROVE  Shape
<1> USE DEF history, storage
<1>w. wizard[s] \in WizardSessions
  BY DEF TypeOK
<1>1. CASE CreateSession(s)
  <2>1. NewSession \in WizardSessions
    BY DEF NewSession, WizardSessions, AllPrompts, AllConfigs
  <2>2. wizard[s].agentId = None /\ Draft(NewSession) = Draft(wizard[s])
    BY <1>1 DEF CreateSession, Unborn, NewSession, Draft
  <2>3. NewSession.agentId = None /\ ~ NewSession.deployed
    BY DEF NewSession
  <2> QED
    BY <1>1, <2>1, <2>2, <2>3 DEF CreateSession, SessionChanges, Shape
<1>2. CASE DeleteSession(s)
  <2> DEFINE w == [wizard[s] EXCEPT !.listed = FALSE]
  <2>1. /\ w \in WizardSessions /\ w.agentId = wizard[s].agentId
        /\ w.deployed = wizard[s].deployed /\ Draft(w) = Draft(wizard[s])
    BY <1>w DEF WizardSessions, Draft
  <2>2. wizard' = [wizard EXCEPT ![s] = w]
    BY <1>2 DEF DeleteSession, TypeOK
  <2> HIDE DEF w
  <2> QED
    BY <1>2, <2>1, <2>2 DEF DeleteSession, SessionChanges, Shape
<1>3. CASE GoToStep(s)
  <2> DEFINE w == [wizard[s] EXCEPT !.deployed = FALSE]
  <2>1. /\ w \in WizardSessions /\ w.agentId = wizard[s].agentId
        /\ ~ w.deployed /\ Draft(w) = Draft(wizard[s])
    BY <1>w DEF WizardSessions, Draft
  <2>2. wizard' = [wizard EXCEPT ![s] = w]
    BY <1>3 DEF GoToStep, TypeOK
  <2> HIDE DEF w
  <2> QED
    BY <1>3, <2>1, <2>2 DEF GoToStep, SessionChanges, Shape
<1>4. ASSUME NEW w \in WizardSessions, w.agentId = wizard[s].agentId,
             w.deployed = wizard[s].deployed, Save(s, w)
      PROVE  Shape
  <2>1. UNCHANGED <<storage, queue, overlapped>> /\ wizard' = [wizard EXCEPT ![s] = w]
    BY <1>4 DEF Save
  <2>2. /\ edited \subseteq edited' /\ edited' \subseteq edited \cup {s}
        /\ s \in edited' \/ (wizard[s].agentId = None /\ ~ Busy(s))
    BY <1>4 DEF Save
  <2>3. SessionChanges(s)
    BY <1>4, <2>1, <2>2 DEF SessionChanges
  <2> QED
    BY <2>3 DEF Shape
<1>5. CASE SaveStep1(s)
  <2>1. PICK n \in Names : Save(s, [wizard[s] EXCEPT !.name = n])
    BY <1>5 DEF SaveStep1
  <2> DEFINE w == [wizard[s] EXCEPT !.name = n]
  <2>2. w \in WizardSessions /\ w.agentId = wizard[s].agentId /\ w.deployed = wizard[s].deployed
    BY <1>w DEF WizardSessions
  <2> HIDE DEF w
  <2> QED
    BY <1>4, <2>1, <2>2 DEF w
<1>6. CASE SaveStep2(s)
  <2>1. PICK p \in Prompts : Save(s, [wizard[s] EXCEPT !.prompt = p])
    BY <1>6 DEF SaveStep2
  <2> DEFINE w == [wizard[s] EXCEPT !.prompt = p]
  <2>2. w \in WizardSessions /\ w.agentId = wizard[s].agentId /\ w.deployed = wizard[s].deployed
    BY <1>w DEF WizardSessions, AllPrompts
  <2> HIDE DEF w
  <2> QED
    BY <1>4, <2>1, <2>2 DEF w
<1>7. CASE SaveStep3(s)
  <2>1. PICK ids \in SUBSET ToolIds : Save(s, [wizard[s] EXCEPT !.selected = ids])
    BY <1>7 DEF SaveStep3
  <2> DEFINE w == [wizard[s] EXCEPT !.selected = ids]
  <2>2. w \in WizardSessions /\ w.agentId = wizard[s].agentId /\ w.deployed = wizard[s].deployed
    BY <1>w DEF WizardSessions
  <2> HIDE DEF w
  <2> QED
    BY <1>4, <2>1, <2>2 DEF w
<1>8. CASE SaveStep4(s)
  <2>1. PICK c \in Configs : Save(s, [wizard[s] EXCEPT !.config = c])
    BY <1>8 DEF SaveStep4
  <2> DEFINE w == [wizard[s] EXCEPT !.config = c]
  <2>2. w \in WizardSessions /\ w.agentId = wizard[s].agentId /\ w.deployed = wizard[s].deployed
    BY <1>w DEF WizardSessions, AllConfigs
  <2> HIDE DEF w
  <2> QED
    BY <1>4, <2>1, <2>2 DEF w
<1>9. ASSUME NEW dto \in {TempDto(wizard[s]), FinalDto(wizard[s])},
             NEW creator \in {User, Tester}, NEW id \in Ids, NEW kind \in {"tested", "made"},
             wizard[s].agentId = None, Begin(s), Create(id, dto, creator, s),
             Await(Then(kind, s, id, None))
      PROVE  Shape
  <2> DEFINE k == Then(kind, s, id, None)
             a == NewAgent(dto, creator)
  <2>1. IsContinuation(k) /\ Makes(k) /\ ~ Writes(k) /\ k.s = s /\ k.id = id
    BY DEF Then, IsContinuation, Makes, Writes
  <2>2. a \in Agents /\ BeganAs(wizard[s], a) /\ a.version = 1
    BY <1>w, BuiltAgents DEF NewAgent
  <2>3. Write(id, a) /\ maker[id] = "nobody" /\ maker' = [maker EXCEPT ![id] = s] /\ UNCHANGED raced
    BY <1>9 DEF Create
  <2> HIDE DEF a
  <2>4. Creation(id, s)
    BY <2>2, <2>3 DEF Creation
  <2>5. Joins(k)
    BY <1>9, <2>1, QueueAwait DEF Joins, Fresh, Await, Room
  <2>6. Begins(s)
    BY <1>9 DEF Begin, Begins
  <2> HIDE DEF k
  <2>7. SessionCreates(s)
    BY <1>9, <2>1, <2>4, <2>5, <2>6 DEF SessionCreates
  <2> QED
    BY <2>7 DEF Shape
<1>10. CASE TestNew(s)
  <2>1. PICK id \in Ids : /\ Create(id, TempDto(wizard[s]), Tester, s)
                          /\ Await(Then("tested", s, id, None))
    BY <1>10 DEF TestNew
  <2>2. Begin(s) /\ wizard[s].agentId = None
    BY <1>10 DEF TestNew
  <2> QED
    BY <1>9, <2>1, <2>2
<1>11. CASE DeployNew(s)
  <2>1. PICK id \in Ids : /\ Create(id, FinalDto(wizard[s]), User, s)
                          /\ Await(Then("made", s, id, None))
    BY <1>11 DEF DeployNew
  <2>2. Begin(s) /\ wizard[s].agentId = None
    BY <1>11 DEF DeployNew
  <2> QED
    BY <1>9, <2>1, <2>2
<1>12. CASE TestAgain(s)
  <2> DEFINE k == Then("simulated", s, wizard[s].agentId, None)
  <2>1. /\ Await(k) /\ Begins(s) /\ UNCHANGED storage
        /\ wizard[s].agentId \in Ids /\ Stored(wizard[s].agentId)
    BY <1>w, <1>12 DEF TestAgain, Begin, Begins, WizardSessions
  <2>2. /\ IsContinuation(k) /\ ~ Makes(k) /\ ~ Writes(k) /\ k.kind # "deployed"
        /\ k.s = s /\ k.id = wizard[s].agentId
    BY <2>1 DEF Then, IsContinuation, Makes, Writes
  <2>3. Joins(k)
    BY <2>1, <2>2, QueueAwait DEF Joins, Fresh, Await, Room
  <2> HIDE DEF k
  <2>4. SessionCallJoins(s)
    BY <2>1, <2>2, <2>3 DEF SessionCallJoins
  <2> QED
    BY <2>4 DEF Shape
<1>13. CASE DeployAgain(s)
  <2> DEFINE id == wizard[s].agentId
             k == Activation(s, id)
  <2>1. /\ Await(k) /\ Begins(s) /\ UNCHANGED storage /\ id \in Ids
        /\ Stored(id) /\ agents[id].version < MaxVersion
    BY <1>w, <1>13 DEF DeployAgain, Begin, Begins, WizardSessions
  <2>2. agents[id] \in Agents
    BY <2>1 DEF TypeOK, Stored
  <2>3. /\ IsContinuation(k) /\ ~ Makes(k) /\ k.kind # "deployed"
        /\ k.s = s /\ k.id = id /\ k.held[1] = agents[id]
    BY <2>1, <2>2 DEF Activation, Then, IsContinuation, IsCopy, IsPatch, Makes, Statuses
  <2>4. Joins(k)
    BY <2>1, <2>3, QueueAwait DEF Joins, Fresh, Await, Room
  <2> HIDE DEF k
  <2>5. SessionCallJoins(s)
    BY <2>1, <2>3, <2>4 DEF SessionCallJoins
  <2> QED
    BY <2>5 DEF Shape
<1> QED
  BY <1>1, <1>2, <1>3, <1>5, <1>6, <1>7, <1>8, <1>10, <1>11, <1>12, <1>13 DEF Wizard

LEMMA MicrotaskHasShape ==
  ASSUME TypeOK, IsQueue, Microtask
  PROVE  Shape
<1> USE DEF history, storage
<1> DEFINE k == Front
<1>1. queue # <<>>
  BY DEF Microtask, UpdateWrite, ReadHistory, Found, ReadCurrent, RestoreWrite,
         Tested, Simulated, Made, Deployed, Later, Resumes
<1>2. IsContinuation(k)
  BY <1>1, FrontIsContinuation
<1>3. Ends => Follows({})
  BY <1>1, QueueEnds DEF Follows
<1>4. ASSUME NEW n, Fresh(n), n.s = k.s, n.id = k.id, Goes(n)
      PROVE  Follows({n})
  BY <1>1, <1>4, QueueGoes DEF Follows
<1>5. ASSUME NEW id \in Ids, Stored(id), agents[id].version < MaxVersion
      PROVE  IsCopy(agents[id])
  BY <1>5 DEF TypeOK, Stored, IsCopy
<1> HIDE DEF k
<1>6. CASE UpdateWrite
  <2> DEFINE a == Updated(k.held[1], k.held[2])
             n == Then("deployed", k.s, k.id, None)
  <2>1. /\ k.kind = "write" /\ Write(k.id, a) /\ Race(k.id, k.held[1])
        /\ IF k.s = None THEN Ends ELSE Goes(n)
        /\ UNCHANGED <<maker, wizard, history>>
    BY <1>6 DEF UpdateWrite, Resumes, k, Front
  <2>2. /\ IsCopy(k.held[1]) /\ IsPatch(k.held[2]) /\ k.id \in Ids
        /\ k.s = None \/ (k.s \in Sessions /\ k.held[2] = [status |-> "active"])
    BY <1>2, <2>1 DEF IsContinuation
  <2>3. /\ a \in Agents /\ a.version = k.held[1].version + 1
        /\ k.s \in Sessions => a.status = "active"
    BY <2>2, UpdatedAgent, BuilderAssumption
  <2>4. \E new : Follows(new) /\ \A m \in new : m.kind = "deployed"
    <3>1. CASE k.s = None
      BY <1>3, <2>1, <3>1
    <3>2. CASE k.s # None
      <4>1. Fresh(n) /\ n.s = k.s /\ n.id = k.id /\ n.kind = "deployed"
        BY <2>2, <3>2 DEF Fresh, IsContinuation, Then, Writes
      <4> HIDE DEF n
      <4>2. Follows({n})
        BY <1>4, <2>1, <3>2, <4>1
      <4> QED
        BY <4>1, <4>2
    <3> QED
      BY <3>1, <3>2
  <2> HIDE DEF a, n
  <2>5. Overwrites
    BY <2>1, <2>3, <2>4 DEF Overwrites, Writes, k
  <2> QED
    BY <2>5 DEF Shape
<1>7. CASE RestoreWrite
  <2> DEFINE a == Restored(k.held[1], k.held[2])
  <2>1. /\ k.kind = "restore" /\ Write(k.id, a) /\ Race(k.id, k.held[1]) /\ Ends
        /\ UNCHANGED <<maker, wizard, history>>
    BY <1>7 DEF RestoreWrite, Resumes, k, Front
  <2>2. k.s = None /\ IsCopy(k.held[1]) /\ k.held[2] \in Agents
    BY <1>2, <2>1 DEF IsContinuation
  <2>3. /\ a \in Agents /\ a.version = k.held[1].version + 1
        /\ k.s \notin Sessions
    BY <2>2, RestoredAgent, BuilderAssumption
  <2> HIDE DEF a
  <2>4. Overwrites
    BY <1>3, <2>1, <2>3 DEF Overwrites, Writes, k
  <2> QED
    BY <2>4 DEF Shape
<1>8. ASSUME UNCHANGED <<storage, wizard, history>>, k.s = None, NEW new, Follows(new)
      PROVE  Shape
  BY <1>8 DEF Reads, Shape, k
<1>9. CASE ReadHistory
  <2> DEFINE h == versions[k.id]
             n(i) == Then("found", None, k.id, h[i])
  <2>1. /\ k.kind = "history" /\ UNCHANGED <<storage, wizard, history>>
        /\ Ends \/ \E i \in DOMAIN h : Goes(n(i))
    BY <1>9 DEF ReadHistory, Resumes, k, Front
  <2>2. k.s = None /\ k.id \in Ids
    BY <1>2, <2>1 DEF IsContinuation
  <2>3. CASE Ends
    BY <1>3, <1>8, <2>1, <2>2, <2>3
  <2>4. CASE \E i \in DOMAIN h : Goes(n(i))
    <3>1. PICK i \in DOMAIN h : Goes(n(i))
      BY <2>4
    <3>2. h \in Seq(Agents)
      BY <2>2 DEF TypeOK
    <3>3. h[i] \in Agents
      BY <3>2, LenProperties, ElementOfSeq
    <3>4. Fresh(n(i)) /\ n(i).s = k.s /\ n(i).id = k.id
      BY <2>2, <3>3 DEF Fresh, IsContinuation, Then, Writes
    <3> HIDE DEF n
    <3> QED
      BY <1>4, <1>8, <2>1, <2>2, <3>1, <3>4
  <2> QED
    BY <2>1, <2>3, <2>4
<1>10. CASE Found
  <2> DEFINE n == Then("snapshot", None, k.id, k.held)
  <2>1. k.kind = "found" /\ UNCHANGED <<storage, wizard, history>> /\ Goes(n)
    BY <1>10 DEF Found, Resumes, k, Front
  <2>2. k.s = None /\ k.id \in Ids /\ k.held \in Agents
    BY <1>2, <2>1 DEF IsContinuation
  <2>3. Fresh(n) /\ n.s = k.s /\ n.id = k.id
    BY <2>2 DEF Fresh, IsContinuation, Then, Writes
  <2> HIDE DEF n
  <2> QED
    BY <1>4, <1>8, <2>1, <2>2, <2>3
<1>11. CASE ReadCurrent
  <2> DEFINE n == Then("restore", None, k.id, <<agents[k.id], k.held>>)
  <2>1. /\ k.kind = "snapshot" /\ UNCHANGED <<storage, wizard, history>>
        /\ IF Stored(k.id) /\ agents[k.id].version < MaxVersion THEN Goes(n) ELSE Ends
    BY <1>11 DEF ReadCurrent, Resumes, k, Front
  <2>2. k.s = None /\ k.id \in Ids /\ k.held \in Agents
    BY <1>2, <2>1 DEF IsContinuation
  <2>3. CASE Stored(k.id) /\ agents[k.id].version < MaxVersion
    <3>1. Fresh(n) /\ n.s = k.s /\ n.id = k.id
      BY <1>5, <2>2, <2>3 DEF Fresh, IsContinuation, Then, Writes
    <3> HIDE DEF n
    <3> QED
      BY <1>4, <1>8, <2>1, <2>2, <2>3, <3>1
  <2>4. CASE ~ (Stored(k.id) /\ agents[k.id].version < MaxVersion)
    BY <1>3, <1>8, <2>1, <2>2, <2>4
  <2> QED
    BY <2>3, <2>4
<1>12. ASSUME UNCHANGED <<storage, history>>, Makes(k),
              wizard' = [wizard EXCEPT ![k.s].agentId = k.id],
              NEW new, Follows(new), \A n \in new : ~ Makes(n) /\ n.kind # "deployed"
       PROVE  Shape
  BY <1>12 DEF SessionLearns, Shape, k
<1>13. CASE Tested
  <2> DEFINE n == Then("simulated", k.s, k.id, None)
  <2>1. /\ k.kind = "tested" /\ UNCHANGED <<storage, history>>
        /\ wizard' = [wizard EXCEPT ![k.s].agentId = k.id]
        /\ IF Stored(k.id) THEN Goes(n) ELSE Ends
    BY <1>13 DEF Tested, Resumes, k, Front
  <2>2. Fresh(n) /\ n.s = k.s /\ n.id = k.id /\ ~ Makes(n) /\ n.kind # "deployed"
    BY <1>2, <2>1 DEF Fresh, IsContinuation, Then, Writes, Makes
  <2> HIDE DEF n
  <2>3. CASE Stored(k.id)
    BY <1>4, <1>12, <2>1, <2>2, <2>3 DEF Makes
  <2>4. CASE ~ Stored(k.id)
    BY <1>3, <1>12, <2>1, <2>4 DEF Makes
  <2> QED
    BY <2>3, <2>4
<1>14. CASE Made
  <2> DEFINE n == Activation(k.s, k.id)
  <2>1. /\ k.kind = "made" /\ UNCHANGED <<storage, history>>
        /\ wizard' = [wizard EXCEPT ![k.s].agentId = k.id]
        /\ IF Stored(k.id) /\ agents[k.id].version < MaxVersion THEN Goes(n) ELSE Ends
    BY <1>14 DEF Made, Resumes, k, Front
  <2>2. k.id \in Ids /\ k.s \in Sessions
    BY <1>2, <2>1 DEF IsContinuation
  <2>3. CASE Stored(k.id) /\ agents[k.id].version < MaxVersion
    <3>1. Fresh(n) /\ n.s = k.s /\ n.id = k.id /\ ~ Makes(n) /\ n.kind # "deployed"
      BY <1>5, <2>2, <2>3
         DEF Activation, Fresh, IsContinuation, IsPatch, Statuses, Then, Writes, Makes
    <3> HIDE DEF n
    <3> QED
      BY <1>4, <1>12, <2>1, <2>3, <3>1 DEF Makes
  <2>4. CASE ~ (Stored(k.id) /\ agents[k.id].version < MaxVersion)
    BY <1>3, <1>12, <2>1, <2>4 DEF Makes
  <2> QED
    BY <2>3, <2>4
<1>15. CASE Simulated
  <2>1. /\ k.kind = "simulated" /\ UNCHANGED <<storage, history>> /\ Ends
        /\ wizard' = [wizard EXCEPT ![k.s].deployed = FALSE]
    BY <1>15 DEF Simulated, Resumes, k, Front
  <2>2. k.s \in Sessions /\ ~ Makes(k)
    BY <1>2, <2>1 DEF IsContinuation, Makes
  <2>3. SessionEnds(FALSE)
    BY <1>3, <2>1, <2>2 DEF SessionEnds, k
  <2> QED
    BY <2>3 DEF Shape
<1>16. CASE Deployed
  <2>1. /\ k.kind = "deployed" /\ UNCHANGED <<storage, history>> /\ Ends
        /\ wizard' = [wizard EXCEPT ![k.s].deployed = TRUE]
    BY <1>16 DEF Deployed, Resumes, k, Front
  <2>2. k.s \in Sessions /\ ~ Makes(k)
    BY <1>2, <2>1 DEF IsContinuation, Makes
  <2>3. SessionEnds(TRUE)
    BY <1>3, <2>1, <2>2 DEF SessionEnds, k
  <2> QED
    BY <2>3 DEF Shape
<1>17. CASE Later
  <2>1. /\ k.kind \in {"simulated", "deployed"} /\ UNCHANGED <<storage, wizard, history>>
        /\ Goes(k)
    BY <1>17 DEF Later, k, Front
  <2>2. Fresh(k) /\ ~ Makes(k)
    BY <1>2, <2>1 DEF Fresh, Writes, Makes
  <2>3. Waits
    BY <1>4, <2>1, <2>2 DEF Waits, k
  <2> QED
    BY <2>3 DEF Shape
<1> QED
  BY <1>6, <1>7, <1>9, <1>10, <1>11, <1>13, <1>14, <1>15, <1>16, <1>17 DEF Microtask

LEMMA StepHasShape ==
  ASSUME TypeOK, IsQueue, [Next]_vars
  PROVE  Shape
<1> USE DEF history, storage
<1>1. CASE \E s \in Sessions : Wizard(s)
  BY <1>1, SessionStepHasShape
<1>2. CASE Microtask
  BY <1>2, MicrotaskHasShape
<1>3. CASE CreateAgent
  <2>1. PICK id \in Ids, name \in Names :
          Create(id, [name |-> name, prompt |-> DefaultPrompt, tools |-> {},
                      config |-> DefaultConfig], User, None)
    BY <1>3 DEF CreateAgent
  <2> DEFINE a == NewAgent([name |-> name, prompt |-> DefaultPrompt, tools |-> {},
                            config |-> DefaultConfig], User)
  <2>2. 1 \in 1..MaxVersion
    BY BuilderAssumption
  <2>3. a \in Agents /\ a.version = 1
    BY <2>2 DEF NewAgent, Agents, AllPrompts, AllConfigs, Statuses
  <2>4. /\ Write(id, a) /\ maker[id] = "nobody" /\ UNCHANGED raced
        /\ maker' = [maker EXCEPT ![id] = None]
    BY <2>1 DEF Create
  <2> HIDE DEF a
  <2>5. Creation(id, None)
    BY <2>3, <2>4, BuilderAssumption DEF Creation
  <2> QED
    BY <1>3, <2>5 DEF CreateAgent, CallCreates, Shape
<1>4. CASE Update
  <2>1. PICK id \in Ids, patch \in Patches :
          /\ Stored(id) /\ agents[id].version < MaxVersion
          /\ Await(Then("write", None, id, <<agents[id], patch>>))
    BY <1>4 DEF Update
  <2> DEFINE k == Then("write", None, id, <<agents[id], patch>>)
  <2>2. agents[id] \in Agents /\ IsPatch(patch)
    BY <2>1, BuilderAssumption DEF TypeOK, Stored
  <2>3. Fresh(k) /\ k.s = None /\ Stored(k.id)
    BY <2>1, <2>2 DEF Fresh, IsContinuation, IsCopy, Then, Writes
  <2> HIDE DEF k
  <2>4. Joins(k)
    BY <2>1, <2>3, QueueAwait DEF Joins, Await, Room, k
  <2> QED
    BY <1>4, <2>3, <2>4 DEF Update, CallJoins, Shape
<1>5. CASE Restore
  <2>1. PICK id \in Ids, v \in 1..MaxVersion :
          Stored(id) /\ Await(Then("history", None, id, v))
    BY <1>5 DEF Restore
  <2> DEFINE k == Then("history", None, id, v)
  <2>2. Fresh(k) /\ k.s = None /\ Stored(k.id)
    BY <2>1 DEF Fresh, IsContinuation, Then, Writes
  <2> HIDE DEF k
  <2>3. Joins(k)
    BY <2>1, <2>2, QueueAwait DEF Joins, Await, Room, k
  <2> QED
    BY <1>5, <2>2, <2>3 DEF Restore, CallJoins, Shape
<1>6. CASE Delete
  BY <1>6 DEF Delete, Deletion, Shape
<1>7. CASE Register \/ UpdateTool \/ Unregister \/ UNCHANGED vars
  BY <1>7 DEF Register, UpdateTool, Unregister, vars, NothingChanges, Shape
<1> QED
  BY <1>1, <1>2, <1>3, <1>4, <1>5, <1>6, <1>7 DEF Next

-----------------------------------------------------------------------------
(***************************************************************************)
(* Types.                                                                  *)
(***************************************************************************)
\* Whatever the step, at most one continuation comes to the queue.
LEMMA ShapeOfQueue ==
  ASSUME IsQueue, Shape
  PROVE  \E n \in {0, 1} : \E new :
           /\ QueueStep(n, new)
           /\ \A k \in new : Fresh(k)
           /\ n = 0 /\ new # {} => Len(queue) < MaxPending
<1> DEFINE Goal == \E n \in {0, 1} : \E new :
                     /\ QueueStep(n, new)
                     /\ \A k \in new : Fresh(k)
                     /\ n = 0 /\ new # {} => Len(queue) < MaxPending
<1>1. ASSUME queue' = queue PROVE Goal
  BY <1>1, QueueStays
<1>2. ASSUME NEW k, Joins(k) PROVE Goal
  BY <1>2 DEF Joins
<1>3. ASSUME NEW new, Follows(new) PROVE Goal
  <2>1. QueueStep(1, new) /\ \A k \in new : Fresh(k)
    BY <1>3 DEF Follows
  <2> QED
    BY <2>1
<1> HIDE DEF Goal
<1> SUFFICES Goal
  BY DEF Goal
<1>4. CASE \E s \in Sessions :
             SessionChanges(s) \/ SessionCallJoins(s) \/ SessionCreates(s)
  BY <1>1, <1>2, <1>4 DEF SessionChanges, SessionCallJoins, SessionCreates
<1>5. CASE CallJoins \/ CallCreates
  BY <1>1, <1>2, <1>5 DEF CallJoins, CallCreates
<1>6. CASE Overwrites \/ Reads
  BY <1>3, <1>6 DEF Overwrites, Reads
<1>7. CASE SessionLearns \/ SessionEnds(TRUE) \/ SessionEnds(FALSE) \/ Waits
  BY <1>3, <1>7 DEF SessionLearns, SessionEnds, Waits
<1>8. CASE Deletion \/ NothingChanges
  BY <1>1, <1>8 DEF Deletion, NothingChanges
<1> QED
  BY <1>4, <1>5, <1>6, <1>7, <1>8 DEF Shape

LEMMA QueueTypes ==
  ASSUME TypeOK, IsQueue, Shape
  PROVE  /\ IsQueue' /\ Len(queue') <= MaxPending
         /\ \A i \in DOMAIN queue' : IsContinuation(queue'[i])
<1>0. PICK n \in {0, 1} : \E new : /\ QueueStep(n, new)
                                   /\ \A k \in new : Fresh(k)
                                   /\ n = 0 /\ new # {} => Len(queue) < MaxPending
  BY ShapeOfQueue
<1>1. PICK new : /\ QueueStep(n, new)
                 /\ \A k \in new : Fresh(k)
                 /\ n = 0 /\ new # {} => Len(queue) < MaxPending
  BY <1>0
<1>2. \A k \in new : IsContinuation(k)
  BY <1>1 DEF Fresh
<1>3. \A i \in DOMAIN queue' : \/ i + n \in DOMAIN queue /\ queue'[i] = queue[i + n]
                               \/ i + n = Len(queue) + 1 /\ queue'[i] \in new
  BY <1>1, QueueKeeps
<1>4. \A i \in DOMAIN queue' : IsContinuation(queue'[i])
  BY <1>2, <1>3 DEF TypeOK
<1>5. IsQueue' /\ DOMAIN queue' = 1..Len(queue') /\ Len(queue') \in Nat
  BY <1>1, LenProperties DEF QueueStep, IsQueue
<1>6. Len(queue') <= MaxPending
  <2>1. MaxPending \in Nat /\ Len(queue) \in Nat /\ Len(queue) <= MaxPending
        /\ DOMAIN queue = 1..Len(queue)
    BY BuilderAssumption, QueueFacts DEF TypeOK
  <2>2. CASE Len(queue') = 0
    BY <2>1, <2>2
  <2>3. CASE Len(queue') # 0
    <3>1. Len(queue') \in DOMAIN queue'
      BY <1>5, <2>3
    <3>2. \/ Len(queue') + n \in 1..Len(queue)
          \/ Len(queue') + n = Len(queue) + 1 /\ new # {}
      BY <1>3, <2>1, <3>1
    <3> QED
      BY <1>1, <1>5, <2>1, <3>2
  <2> QED
    BY <2>2, <2>3
<1> QED
  BY <1>4, <1>5, <1>6

Histories ==
  /\ agents \in [Ids -> Agents \cup {NoAgent}]
  /\ versions \in [Ids -> Seq(Agents)]
  /\ maker \in [Ids -> Sessions \cup {None, "nobody"}]
  /\ raced \subseteq Ids

\* A write stores the agent and appends it to its history.
LEMMA WriteTypes ==
  ASSUME TypeOK, NEW id \in Ids, NEW a \in Agents, Write(id, a)
  PROVE  /\ agents' \in [Ids -> Agents \cup {NoAgent}]
         /\ versions' \in [Ids -> Seq(Agents)]
         /\ agents'[id] = a /\ \A i \in Ids \ {id} : agents'[i] = agents[i]
         /\ \A i \in Ids \ {id} : versions'[i] = versions[i]
         /\ Len(versions[id]) \in Nat /\ Len(versions'[id]) = Len(versions[id]) + 1
         /\ versions'[id][Len(versions[id]) + 1] = a
         /\ \A i \in 1..Len(versions[id]) : versions'[id][i] = versions[id][i]
         /\ versions'[id] # <<>>
<1> DEFINE h == versions[id]
           g == Append(h, a)
<1>1. h \in Seq(Agents)
  BY DEF TypeOK
<1>2. versions' = [versions EXCEPT ![id] = g] /\ agents' = [agents EXCEPT ![id] = a]
  BY DEF Write, Record
<1> HIDE DEF h
<1>3. /\ g \in Seq(Agents) /\ Len(h) \in Nat /\ Len(g) = Len(h) + 1
      /\ g[Len(h) + 1] = a /\ \A i \in 1..Len(h) : g[i] = h[i]
  BY <1>1, LenProperties
<1>4. g # <<>>
  BY <1>3, EmptySeq
<1> HIDE DEF g
<1>5. versions'[id] = g /\ versions' \in [Ids -> Seq(Agents)]
      /\ \A i \in Ids \ {id} : versions'[i] = versions[i]
  BY <1>2, <1>3 DEF TypeOK
<1>6. /\ agents' \in [Ids -> Agents \cup {NoAgent}] /\ agents'[id] = a
      /\ \A i \in Ids \ {id} : agents'[i] = agents[i]
  BY <1>2 DEF TypeOK
<1> QED
  BY <1>3, <1>4, <1>5, <1>6 DEF h

LEMMA StorageTypes ==
  ASSUME TypeOK, IsQueue, Shape
  PROVE  Histories'
<1>1. ASSUME UNCHANGED storage PROVE Histories'
  BY <1>1 DEF storage, TypeOK, Histories
<1>2. ASSUME NEW id \in Ids, NEW s \in Sessions \cup {None}, Creation(id, s)
      PROVE  Histories'
  BY <1>2, WriteTypes DEF Creation, TypeOK, Histories
<1>3. CASE Overwrites
  <2>1. queue # <<>> /\ UNCHANGED maker
    BY <1>3 DEF Overwrites, Follows
  <2>2. Front.id \in Ids
    BY <2>1, FrontIsContinuation DEF IsContinuation
  <2>3. raced' \subseteq Ids
    BY <1>3, <2>2 DEF Overwrites, Race, TypeOK
  <2> QED
    BY <1>3, <2>1, <2>2, <2>3, WriteTypes DEF Overwrites, TypeOK, Histories
<1>4. CASE Deletion
  BY <1>4, EmptySeq DEF Deletion, TypeOK, Histories
<1>5. CASE \E s \in Sessions :
             SessionChanges(s) \/ SessionCallJoins(s) \/ SessionCreates(s)
  BY <1>1, <1>2, <1>5 DEF SessionChanges, SessionCallJoins, SessionCreates
<1> QED
  BY <1>1, <1>2, <1>3, <1>4, <1>5
     DEF Shape, CallJoins, CallCreates, Reads, SessionLearns, SessionEnds, Waits,
         NothingChanges

WizardTypes ==
  /\ wizard \in [Sessions -> WizardSessions]
  /\ overlapped \subseteq Sessions /\ edited \subseteq Sessions

LEMMA WizardKeepsTypes ==
  ASSUME TypeOK, IsQueue, Shape
  PROVE  WizardTypes'
<1> USE DEF WizardTypes, history
<1>1. ASSUME UNCHANGED <<wizard, history>> PROVE WizardTypes'
  BY <1>1 DEF TypeOK
<1>2. ASSUME NEW s \in Sessions, Begins(s) PROVE WizardTypes'
  BY <1>2 DEF Begins, TypeOK
<1>3. ASSUME NEW s \in Sessions, SessionChanges(s) PROVE WizardTypes'
  <2>1. PICK w \in WizardSessions : wizard' = [wizard EXCEPT ![s] = w]
    BY <1>3 DEF SessionChanges
  <2>2. edited' \subseteq Sessions /\ overlapped' = overlapped
    BY <1>3 DEF SessionChanges, TypeOK
  <2> QED
    BY <2>1, <2>2 DEF TypeOK
<1>4. CASE SessionLearns
  <2>1. queue # <<>>
    BY <1>4 DEF SessionLearns, Follows
  <2>2. Front.id \in Ids /\ Front.s \in Sessions
    BY <1>4, <2>1, FrontIsContinuation DEF IsContinuation, SessionLearns, Makes
  <2> DEFINE w == [wizard[Front.s] EXCEPT !.agentId = Front.id]
  <2>3. w \in WizardSessions
    <3>1. wizard[Front.s] \in WizardSessions
      BY <2>2 DEF TypeOK
    <3> QED
      BY <2>2, <3>1 DEF WizardSessions
  <2>4. wizard' = [wizard EXCEPT ![Front.s] = w]
    BY <1>4, <2>2 DEF SessionLearns, TypeOK
  <2> HIDE DEF w
  <2> QED
    BY <1>4, <2>2, <2>3, <2>4 DEF SessionLearns, TypeOK
<1>5. ASSUME NEW d \in BOOLEAN, SessionEnds(d) PROVE WizardTypes'
  <2> DEFINE w == [wizard[Front.s] EXCEPT !.deployed = d]
  <2>1. Front.s \in Sessions /\ UNCHANGED history
    BY <1>5 DEF SessionEnds
  <2>2. w \in WizardSessions
    <3>1. wizard[Front.s] \in WizardSessions
      BY <2>1 DEF TypeOK
    <3> QED
      BY <3>1 DEF WizardSessions
  <2>3. wizard' = [wizard EXCEPT ![Front.s] = w]
    BY <1>5, <2>1 DEF SessionEnds, TypeOK
  <2> HIDE DEF w
  <2> QED
    BY <2>1, <2>2, <2>3 DEF TypeOK
<1> QED
  BY <1>1, <1>2, <1>3, <1>4, <1>5
     DEF Shape, SessionCallJoins, SessionCreates, CallJoins, CallCreates, Overwrites,
         Reads, Waits, Deletion, NothingChanges

LEMMA CallsAndTools ==
  ASSUME TypeOK, [Next]_vars
  PROVE  calls' \in 0..MaxCalls /\ tools' \in [ToolIds -> {"on", "off", "absent"}]
<1> USE BuilderAssumption DEF TypeOK
<1>1. UNCHANGED <<calls, tools>> \/ (Call /\ UNCHANGED tools)
      \/ Register \/ UpdateTool \/ Unregister
  <2>1. CASE \E s \in Sessions : Wizard(s)
    BY <2>1 DEF Wizard, CreateSession, DeleteSession, GoToStep, SaveStep1, SaveStep2,
         SaveStep3, SaveStep4, Save, TestNew, TestAgain, DeployNew, DeployAgain, Begin
  <2>2. CASE Microtask
    BY <2>2 DEF Microtask, UpdateWrite, ReadHistory, Found, ReadCurrent, RestoreWrite,
         Tested, Simulated, Made, Deployed, Later
  <2> QED
    BY <2>1, <2>2 DEF Next, vars, CreateAgent, Update, Delete, Restore
<1>2. Call => calls' \in 0..MaxCalls
  BY DEF Call
<1>3. CASE Register \/ UpdateTool \/ Unregister
  BY <1>2, <1>3 DEF Register, UpdateTool, Unregister
<1> QED
  BY <1>1, <1>2, <1>3

LEMMA TypesStep ==
  ASSUME TypeOK, IsQueue, [Next]_vars
  PROVE  TypeOK' /\ IsQueue'
<1>1. Shape
  BY StepHasShape
<1> QED
  BY <1>1, QueueTypes, StorageTypes, WizardKeepsTypes, CallsAndTools
     DEF TypeOK, Histories, WizardTypes

-----------------------------------------------------------------------------
(***************************************************************************)
(* The history of an agent.                                                *)
(***************************************************************************)
LEMMA HistoryStep ==
  ASSUME TypeOK, IsQueue, HistoryIsFaithful, ClimbInv, Shape
  PROVE  HistoryIsFaithful'
<1> USE DEF HistoryIsFaithful, HistoryEndsInStore, VersionsClimb, Stored
<1>1. ASSUME UNCHANGED storage PROVE HistoryIsFaithful'
  BY <1>1 DEF storage
<1>2. ASSUME NEW id \in Ids, NEW s \in Sessions \cup {None}, Creation(id, s)
      PROVE  HistoryIsFaithful'
  <2>1. PICK a \in Agents : Write(id, a)
    BY <1>2 DEF Creation
  <2>2. versions[id] = <<>>
    BY <1>2 DEF Creation, ClimbInv
  <2>3. a # NoAgent
    BY AgentFields
  <2>4. Len(versions[id]) = 0
    BY <2>2
  <2>5. raced' = raced
    BY <1>2 DEF Creation
  <2>6. /\ agents'[id] = a /\ \A i \in Ids \ {id} : agents'[i] = agents[i]
        /\ \A i \in Ids \ {id} : versions'[i] = versions[i]
        /\ Len(versions'[id]) = 1 /\ versions'[id][1] = a /\ versions'[id] # <<>>
    <3>1. /\ agents'[id] = a /\ \A i \in Ids \ {id} : agents'[i] = agents[i]
          /\ \A i \in Ids \ {id} : versions'[i] = versions[i]
          /\ Len(versions'[id]) = Len(versions[id]) + 1
          /\ versions'[id][Len(versions[id]) + 1] = a /\ versions'[id] # <<>>
      BY <2>1, WriteTypes
    <3> QED
      BY <2>4, <3>1
  <2>7. HistoryEndsInStore'
    BY <2>3, <2>6
  <2>8. VersionsClimb'
    BY <2>5, <2>6
  <2> QED
    BY <2>7, <2>8
<1>3. CASE Overwrites
  <2> DEFINE id == Front.id
             v == Front.held[1].version
             h == versions[id]
  <2>1. queue # <<>> /\ Writes(Front)
    BY <1>3 DEF Overwrites, Follows
  <2>2. /\ id \in Ids /\ IsCopy(Front.held[1]) /\ v \in Nat
        /\ Stored(id) => FromTo(v, agents[id].version)
    BY <2>1, FrontIsContinuation, NextVersion DEF IsContinuation, Writes, ClimbInv
  <2>3. PICK a \in Agents : a.version = v + 1 /\ Write(id, a)
    BY <1>3 DEF Overwrites
  <2>4. a # NoAgent
    BY AgentFields
  <2>5. raced' = IF agents[id] = Front.held[1] THEN raced ELSE raced \cup {id}
    BY <1>3 DEF Overwrites, Race
  <2> HIDE DEF id, v
  <2>6. HistoryEndsInStore'
    BY SMTT(30), <2>2, <2>3, <2>4, WriteTypes
  <2>7. VersionsClimb'
    <3> SUFFICES ASSUME NEW j \in Ids, NEW i \in 1..(Len(versions'[j]) - 1)
                 PROVE  \/ versions'[j][i + 1].version = versions'[j][i].version + 1
                        \/ j \in raced' /\ versions'[j][i + 1].version = versions'[j][i].version
      OBVIOUS
    <3>1. CASE j # id
      <4>1. versions'[j] = versions[j]
        BY <2>2, <2>3, <3>1, WriteTypes
      <4> QED
        BY <2>5, <4>1
    <3>2. CASE j = id
      <4>1. /\ Len(h) \in Nat /\ Len(versions'[id]) = Len(h) + 1
            /\ versions'[id][Len(h) + 1] = a
            /\ \A m \in 1..Len(h) : versions'[id][m] = h[m]
        BY <2>2, <2>3, WriteTypes
      <4>2. CASE i < Len(h)
        <5>0. i \in 1..Len(h) /\ i + 1 \in 1..Len(h) /\ i \in 1..(Len(h) - 1)
          BY <3>2, <4>1, <4>2
        <5>1. i \in 1..(Len(h) - 1) /\ versions'[id][i] = h[i] /\ versions'[id][i + 1] = h[i + 1]
          BY <4>1, <5>0
        <5> QED
          BY <2>2, <2>5, <3>2, <5>1
      <4>3. CASE i = Len(h)
        <5>1. Len(h) # 0 /\ h[i] = agents[id] /\ Stored(id)
          <6>1. h # <<>>
            BY <4>1, <4>3
          <6> QED
            BY <2>2, <4>1, <4>3, <6>1
        <5>2. versions'[id][i] = agents[id] /\ versions'[id][i + 1] = a
          BY <4>1, <4>3, <5>1
        <5>3. CASE agents[id].version = v
          BY <2>3, <3>2, <5>2, <5>3
        <5>4. CASE agents[id].version = v + 1
          <6>1. agents[id] # Front.held[1]
            BY <2>2, <5>4 DEF v
          <6> QED
            BY <2>3, <2>5, <3>2, <5>2, <5>4, <6>1
        <5> QED
          BY <2>2, <5>1, <5>3, <5>4 DEF FromTo
      <4> QED
        BY <3>2, <4>1, <4>2, <4>3
    <3> QED
      BY <3>1, <3>2
  <2> QED
    BY <2>6, <2>7
<1>4. CASE Deletion
  <2>1. PICK id \in Ids : /\ agents' = [agents EXCEPT ![id] = NoAgent]
                          /\ versions' = [versions EXCEPT ![id] = <<>>]
    BY <1>4 DEF Deletion
  <2>2. raced' = raced
    BY <1>4 DEF Deletion
  <2>3. agents'[id] = NoAgent /\ versions'[id] = <<>> /\ Len(versions'[id]) = 0
    BY <2>1 DEF TypeOK
  <2>4. \A j \in Ids \ {id} : agents'[j] = agents[j] /\ versions'[j] = versions[j]
    BY <2>1 DEF TypeOK
  <2> QED
    BY <2>2, <2>3, <2>4
<1>5. CASE \E s \in Sessions :
             SessionChanges(s) \/ SessionCallJoins(s) \/ SessionCreates(s)
  BY <1>1, <1>2, <1>5 DEF SessionChanges, SessionCallJoins, SessionCreates
<1> QED
  BY <1>1, <1>2, <1>3, <1>4, <1>5
     DEF Shape, CallJoins, CallCreates, Reads, SessionLearns, SessionEnds, Waits,
         NothingChanges

\* Where the storage stays, a step that adds to the queue only what holds the
\* agents as they are keeps the versions in the queue in order.
LEMMA ClimbWhereStorageStays ==
  ASSUME TypeOK, IsQueue, ClimbInv, UNCHANGED storage,
         NEW n \in {0, 1}, NEW new, QueueStep(n, new),
         \A k \in new : Fresh(k) /\ maker[k.id] # "nobody"
  PROVE  ClimbInv'
<1> USE DEF storage
<1>1. \A i \in DOMAIN queue' : \/ i + n \in DOMAIN queue /\ queue'[i] = queue[i + n]
                               \/ i + n = Len(queue) + 1 /\ queue'[i] \in new
  BY QueueKeeps
<1>2. DOMAIN queue = 1..Len(queue) /\ Len(queue) \in Nat
      /\ DOMAIN queue' = 1..Len(queue')
  BY QueueFacts, LenProperties DEF QueueStep, IsQueue
<1>3. \A id \in Ids : Stored(id)' => maker'[id] # "nobody"
  BY DEF ClimbInv, Stored
<1>4. ASSUME NEW i \in DOMAIN queue'
      PROVE  /\ maker'[queue'[i].id] # "nobody"
             /\ Writes(queue'[i]) /\ agents'[queue'[i].id] # NoAgent =>
                  FromTo(queue'[i].held[1].version, agents'[queue'[i].id].version)
  <2>1. CASE i + n \in DOMAIN queue /\ queue'[i] = queue[i + n]
    BY <2>1 DEF ClimbInv, Stored
  <2>2. CASE queue'[i] \in new
    BY <2>2 DEF Fresh, FromTo
  <2> QED
    BY <1>1, <2>1, <2>2
<1>5. ASSUME NEW i \in DOMAIN queue', NEW j \in DOMAIN queue', i < j,
             Writes(queue'[i]), Writes(queue'[j]), queue'[i].id = queue'[j].id
      PROVE  FromTo(queue'[i].held[1].version, queue'[j].held[1].version)
  <2>1. i + n \in DOMAIN queue /\ queue'[i] = queue[i + n]
    BY <1>1, <1>2, <1>5
  <2>2. CASE j + n \in DOMAIN queue /\ queue'[j] = queue[j + n]
    <3>1. i + n < j + n
      BY <1>2, <1>5
    <3> QED
      BY <1>5, <2>1, <2>2, <3>1 DEF ClimbInv
  <2>3. CASE queue'[j] \in new
    BY <1>5, <2>1, <2>3 DEF ClimbInv, Fresh
  <2> QED
    BY <1>1, <2>2, <2>3
<1> QED
  BY <1>3, <1>4, <1>5 DEF ClimbInv, Stored

LEMMA ClimbStep ==
  ASSUME TypeOK, IsQueue, ClimbInv, Shape
  PROVE  ClimbInv'
<1> USE DEF storage
<1>q. /\ DOMAIN queue = 1..Len(queue) /\ Len(queue) \in Nat
      /\ \A i \in DOMAIN queue : IsContinuation(queue[i]) /\ queue[i].id \in Ids
  BY QueueFacts DEF TypeOK, IsContinuation
<1>1. ASSUME UNCHANGED <<storage, queue>> PROVE ClimbInv'
  BY <1>1, QueueStays, ClimbWhereStorageStays
<1>2. ASSUME UNCHANGED storage, NEW k, Joins(k), Stored(k.id) PROVE ClimbInv'
  <2>1. Fresh(k) /\ QueueStep(0, {k}) /\ maker[k.id] # "nobody"
    BY <1>2 DEF Joins, Fresh, IsContinuation, ClimbInv
  <2> QED
    BY <1>2, <2>1, ClimbWhereStorageStays
<1>3. ASSUME UNCHANGED storage, NEW new, Follows(new) PROVE ClimbInv'
  <2>1. QueueStep(1, new) /\ \A k \in new : Fresh(k) /\ k.id = Front.id
    BY <1>3 DEF Follows
  <2>2. maker[Front.id] # "nobody"
    BY <1>3, FrontIsContinuation DEF Follows, ClimbInv
  <2> QED
    BY <1>3, <2>1, <2>2, ClimbWhereStorageStays
<1>4. ASSUME NEW id \in Ids, NEW s \in Sessions \cup {None}, Creation(id, s),
             NEW new, QueueStep(0, new), \A k \in new : Makes(k) /\ k.id = id
      PROVE  ClimbInv'
  <2>1. /\ maker[id] = "nobody" /\ maker'[id] # "nobody"
        /\ \A i \in Ids \ {id} : maker'[i] = maker[i]
    BY <1>4, BuilderAssumption DEF Creation, TypeOK
  <2>2. \A i \in Ids \ {id} : agents'[i] = agents[i]
    BY <1>4, WriteTypes DEF Creation
  <2>3. \A i \in DOMAIN queue : queue[i].id \in Ids \ {id}
    BY <1>q, <2>1 DEF ClimbInv
  <2>4. \A i \in DOMAIN queue' : \/ i \in DOMAIN queue /\ queue'[i] = queue[i]
                                 \/ Makes(queue'[i]) /\ queue'[i].id = id
    <3>1. \A i \in DOMAIN queue' : i + 0 = i
      BY <1>4, LenProperties DEF QueueStep, IsQueue
    <3> QED
      BY <1>4, <3>1, QueueKeeps
  <2>5. \A k : Makes(k) => ~ Writes(k)
    BY DEF Makes, Writes
  <2>6. \A j \in Ids : Stored(j)' => maker'[j] # "nobody"
    BY <2>1, <2>2 DEF ClimbInv, Stored
  <2>7. ASSUME NEW i \in DOMAIN queue'
        PROVE  /\ maker'[queue'[i].id] # "nobody"
               /\ Writes(queue'[i]) /\ agents'[queue'[i].id] # NoAgent =>
                    FromTo(queue'[i].held[1].version, agents'[queue'[i].id].version)
    <3>1. CASE i \in DOMAIN queue /\ queue'[i] = queue[i]
      BY <2>1, <2>2, <2>3, <3>1 DEF ClimbInv, Stored
    <3>2. CASE Makes(queue'[i]) /\ queue'[i].id = id
      BY <2>1, <2>5, <3>2
    <3> QED
      BY <2>4, <3>1, <3>2
  <2>8. ASSUME NEW i \in DOMAIN queue', NEW j \in DOMAIN queue', i < j,
               Writes(queue'[i]), Writes(queue'[j]), queue'[i].id = queue'[j].id
        PROVE  FromTo(queue'[i].held[1].version, queue'[j].held[1].version)
    BY <2>4, <2>5, <2>8 DEF ClimbInv
  <2> QED
    BY <2>6, <2>7, <2>8 DEF ClimbInv, Stored
<1>5. CASE Overwrites
  <2> DEFINE id == Front.id
             v == Front.held[1].version
  <2>1. queue # <<>> /\ Writes(Front) /\ maker' = maker
    BY <1>5 DEF Overwrites, Follows
  <2>2. Front = queue[1] /\ 1 \in DOMAIN queue
    BY <2>1, FrontIsContinuation
  <2>3. id \in Ids /\ IsCopy(Front.held[1]) /\ v \in Nat /\ maker[id] # "nobody"
    BY <2>1, FrontIsContinuation, NextVersion DEF IsContinuation, Writes, ClimbInv
  <2>4. PICK a \in Agents : a.version = v + 1 /\ Write(id, a)
    BY <1>5 DEF Overwrites
  <2>5. PICK new : Follows(new) /\ \A k \in new : k.kind = "deployed" /\ k.id = id
    BY <1>5 DEF Overwrites, Follows
  <2>6. agents'[id] = a /\ \A j \in Ids \ {id} : agents'[j] = agents[j]
    BY <2>3, <2>4, WriteTypes
  <2>7. \A i \in DOMAIN queue' : \/ i + 1 \in DOMAIN queue /\ queue'[i] = queue[i + 1]
                                 \/ ~ Writes(queue'[i]) /\ queue'[i].id = id
    BY <2>5, QueueKeeps DEF Follows, Writes
  <2>8. DOMAIN queue' = 1..Len(queue')
    BY <2>5, LenProperties DEF Follows, QueueStep, IsQueue
  <2>9. \A j \in Ids : Stored(j)' => maker'[j] # "nobody"
    BY <2>1, <2>3, <2>6 DEF ClimbInv, Stored
  <2> HIDE DEF id, v
  <2>10. ASSUME NEW i \in DOMAIN queue'
         PROVE  /\ maker'[queue'[i].id] # "nobody"
                /\ Writes(queue'[i]) /\ agents'[queue'[i].id] # NoAgent =>
                     FromTo(queue'[i].held[1].version, agents'[queue'[i].id].version)
    <3>1. CASE ~ Writes(queue'[i]) /\ queue'[i].id = id
      BY <2>1, <2>3, <3>1
    <3>2. CASE i + 1 \in DOMAIN queue /\ queue'[i] = queue[i + 1]
      <4>1. maker'[queue'[i].id] # "nobody"
        BY <2>1, <3>2 DEF ClimbInv
      <4>2. CASE queue'[i].id # id
        BY <1>q, <2>6, <3>2, <4>1, <4>2 DEF ClimbInv, Stored
      <4>3. CASE queue'[i].id = id /\ Writes(queue'[i])
        <5>1. FromTo(v, queue'[i].held[1].version)
          <6>1. 1 < i + 1
            BY <2>8
          <6> QED
            BY <2>1, <2>2, <3>2, <4>3, <6>1 DEF ClimbInv, id, v
        <5>2. agents'[queue'[i].id].version = v + 1
          BY <2>4, <2>6, <4>3
        <5> QED
          BY <2>3, <4>1, <5>1, <5>2 DEF FromTo
      <4> QED
        BY <4>1, <4>2, <4>3
    <3> QED
      BY <2>7, <3>1, <3>2
  <2>11. ASSUME NEW i \in DOMAIN queue', NEW j \in DOMAIN queue', i < j,
                Writes(queue'[i]), Writes(queue'[j]), queue'[i].id = queue'[j].id
         PROVE  FromTo(queue'[i].held[1].version, queue'[j].held[1].version)
    <3>1. /\ i + 1 \in DOMAIN queue /\ queue'[i] = queue[i + 1]
          /\ j + 1 \in DOMAIN queue /\ queue'[j] = queue[j + 1]
      BY <2>7, <2>11
    <3>2. i + 1 < j + 1
      BY <2>8, <2>11
    <3> QED
      BY <2>11, <3>1, <3>2 DEF ClimbInv
  <2> QED
    BY <2>9, <2>10, <2>11 DEF ClimbInv, Stored
<1>6. CASE Deletion
  <2>1. PICK id \in Ids : agents' = [agents EXCEPT ![id] = NoAgent]
    BY <1>6 DEF Deletion
  <2>2. UNCHANGED <<maker, queue>>
    BY <1>6 DEF Deletion
  <2>3. \A j \in Ids : Stored(j)' => Stored(j) /\ agents'[j] = agents[j]
    BY <2>1 DEF TypeOK, Stored
  <2> QED
    BY <1>q, <2>2, <2>3 DEF ClimbInv
<1>7. CASE \E s \in Sessions : SessionCreates(s)
  <2>0. PICK s \in Sessions, id \in Ids :
          Creation(id, s) /\ \E k : Joins(k) /\ Makes(k) /\ k.id = id
    BY <1>7 DEF SessionCreates
  <2>1. PICK k : Creation(id, s) /\ Joins(k) /\ Makes(k) /\ k.id = id
    BY <2>0
  <2> QED
    BY <1>4, <2>1 DEF Joins
<1>8. CASE CallCreates
  <2>1. PICK id \in Ids : Creation(id, None) /\ QueueStep(0, {})
    BY <1>8, QueueStays DEF CallCreates
  <2> QED
    BY <1>4, <2>1
<1>9. CASE \E s \in Sessions : SessionChanges(s) \/ SessionCallJoins(s)
  BY <1>1, <1>2, <1>9 DEF SessionChanges, SessionCallJoins
<1> QED
  BY <1>1, <1>2, <1>3, <1>5, <1>6, <1>7, <1>8, <1>9
     DEF Shape, CallJoins, Reads, SessionLearns, SessionEnds, Waits, NothingChanges

-----------------------------------------------------------------------------
(***************************************************************************)
(* The agent of a session.                                                 *)
(***************************************************************************)
LEMMA OverlapsStay ==
  ASSUME TypeOK, Shape
  PROVE  overlapped \subseteq overlapped'
BY DEF Shape, SessionChanges, SessionCallJoins, SessionCreates, Begins, CallJoins,
       CallCreates, Overwrites, Reads, SessionLearns, SessionEnds, Waits, Deletion,
       NothingChanges, history

\* A step in which no call of session s joins the queue, and which leaves the
\* session's agent as it was.
LEMMA OwnsWhereNoneJoins ==
  ASSUME IsQueue, NEW s \in Sessions, Owns(s),
         MadeBy(s)' = MadeBy(s), wizard'[s].agentId = wizard[s].agentId,
         NEW n \in {0, 1}, NEW new, QueueStep(n, new),
         n = 1 => queue # <<>> /\ (Front.s = s => ~ Makes(Front)),
         \A k \in new : k.s = s =>
           n = 1 /\ k.s = Front.s /\ k.id = Front.id /\ ~ Makes(k)
  PROVE  Owns(s)'
<1>1. \A i \in DOMAIN queue' : \/ i + n \in DOMAIN queue /\ queue'[i] = queue[i + n]
                               \/ i + n = Len(queue) + 1 /\ queue'[i] \in new
  BY QueueKeeps
<1>2. /\ DOMAIN queue = 1..Len(queue) /\ Len(queue) \in Nat
      /\ DOMAIN queue' = 1..Len(queue')
      /\ queue # <<>> => 1 \in DOMAIN queue /\ Front = queue[1]
  BY QueueFacts, LenProperties DEF QueueStep, IsQueue, Front
<1>3. ASSUME NEW i \in DOMAIN queue', queue'[i] \in new, queue'[i].s = s
      PROVE  /\ n = 1 /\ ~ Makes(queue'[i]) /\ 1 \in DOMAIN queue /\ queue[1].s = s
             /\ ~ Makes(queue[1]) /\ queue'[i].id = queue[1].id
  BY <1>2, <1>3
<1>4. ASSUME NEW i \in DOMAIN queue', NEW j \in DOMAIN queue',
             queue'[i].s = s, queue'[j].s = s, queue'[i] \in new, i # j
      PROVE  FALSE
  <2>1. n = 1 /\ 1 \in DOMAIN queue /\ queue[1].s = s
    BY <1>3, <1>4
  <2>2. CASE j + n \in DOMAIN queue /\ queue'[j] = queue[j + n]
    <3>1. j + n = 1
      BY <1>4, <2>1, <2>2 DEF Owns
    <3> QED
      BY <1>2, <2>1, <3>1
  <2>3. CASE j + n = Len(queue) + 1 /\ queue'[j] \in new
    <3>1. \A m \in DOMAIN queue' : queue'[m] \in new /\ queue'[m].s = s =>
            m + n = Len(queue) + 1 \/ m + n = 1
      BY <1>1, <2>1 DEF Owns
    <3>2. i + n = Len(queue) + 1
      BY <1>2, <1>4, <2>1, <3>1
    <3> QED
      BY <1>2, <1>4, <2>3, <3>2
  <2> QED
    BY <1>1, <2>2, <2>3
<1>5. ASSUME NEW i \in DOMAIN queue', NEW j \in DOMAIN queue', queue'[i].s = s, queue'[j].s = s
      PROVE  i = j
  <2>1. CASE queue'[i] \in new \/ queue'[j] \in new
    BY <1>4, <1>5, <2>1
  <2>2. CASE ~ (queue'[i] \in new \/ queue'[j] \in new)
    <3>1. i + n \in DOMAIN queue /\ j + n \in DOMAIN queue
          /\ queue[i + n].s = s /\ queue[j + n].s = s
      BY <1>1, <1>5, <2>2
    <3>2. i + n = j + n
      BY <3>1 DEF Owns
    <3> QED
      BY <1>2, <3>2
  <2> QED
    BY <2>1, <2>2
<1>6. ASSUME \A i \in DOMAIN queue' : queue'[i].s = s => ~ Makes(queue'[i])
      PROVE  MadeBy(s) = {wizard[s].agentId} \ {None}
  <2>1. ASSUME NEW i \in DOMAIN queue, queue[i].s = s PROVE ~ Makes(queue[i])
    <3>1. CASE i > n
      <4>1. i - n \in DOMAIN queue' /\ queue'[i - n] = queue[i]
        BY <1>2, <3>1 DEF QueueStep
      <4> QED
        BY <1>6, <2>1, <4>1
    <3>2. CASE ~ (i > n)
      <4>1. n = 1 /\ i = 1
        BY <1>2, <3>2
      <4> QED
        BY <1>2, <2>1, <4>1
    <3> QED
      BY <3>1, <3>2
  <2> QED
    BY <2>1 DEF Owns
<1>7. ASSUME NEW i \in DOMAIN queue', queue'[i].s = s
      PROVE  IF Makes(queue'[i])
             THEN wizard[s].agentId = None /\ MadeBy(s) = {queue'[i].id}
             ELSE wizard[s].agentId = queue'[i].id
  <2>1. CASE queue'[i] \in new
    BY <1>3, <1>7, <2>1 DEF Owns
  <2>2. CASE i + n \in DOMAIN queue /\ queue'[i] = queue[i + n]
    BY <1>7, <2>2 DEF Owns
  <2> QED
    BY <1>1, <2>1, <2>2
<1> QED
  BY <1>5, <1>6, <1>7 DEF Owns

LEMMA NotBusy ==
  ASSUME NEW s \in Sessions, Begins(s), s \notin overlapped'
  PROVE  \A i \in DOMAIN queue : queue[i].s # s
BY DEF Begins, Busy

LEMMA OwnStep ==
  ASSUME TypeOK, IsQueue, OwnInv, Shape
  PROVE  OwnInv'
<1> SUFFICES ASSUME NEW s \in Sessions, s \notin overlapped' PROVE Owns(s)'
  BY DEF OwnInv
<1>s. Owns(s) /\ s # None /\ s # "nobody"
  BY OverlapsStay, BuilderAssumption DEF OwnInv
<1> DEFINE Same == MadeBy(s)' = MadeBy(s) /\ wizard'[s].agentId = wizard[s].agentId
<1>0. maker' = maker => MadeBy(s)' = MadeBy(s)
  BY DEF MadeBy
<1>1. ASSUME Same, queue' = queue PROVE Owns(s)'
  BY <1>1, <1>s, QueueStays, OwnsWhereNoneJoins
<1>2. ASSUME Same, NEW k, Joins(k), k.s # s PROVE Owns(s)'
  BY <1>2, <1>s, OwnsWhereNoneJoins DEF Joins
<1>3. ASSUME Same, NEW new, Follows(new), Front.s = s => ~ Makes(Front),
             Front.s = s => \A k \in new : ~ Makes(k)
      PROVE  Owns(s)'
  <2>1. queue # <<>> /\ QueueStep(1, new) /\ \A k \in new : k.s = Front.s /\ k.id = Front.id
    BY <1>3 DEF Follows
  <2> QED
    BY <1>3, <1>s, <2>1, OwnsWhereNoneJoins
<1>4. ASSUME NEW id \in Ids, NEW t \in Sessions \cup {None}, t # s, Creation(id, t)
      PROVE  MadeBy(s)' = MadeBy(s)
  BY <1>4, <1>s DEF Creation, MadeBy, TypeOK
<1>5. ASSUME NEW k, Joins(k), k.s = s, \A i \in DOMAIN queue : queue[i].s # s
      PROVE  \E m \in DOMAIN queue' :
               queue'[m] = k /\ \A i \in DOMAIN queue' : queue'[i].s = s => i = m
  <2>1. QueueStep(0, {k})
    BY <1>5 DEF Joins
  <2>2. /\ DOMAIN queue' = 1..Len(queue') /\ Len(queue') \in DOMAIN queue'
        /\ queue'[Len(queue')] = k
    BY <2>1, LenProperties DEF QueueStep, IsQueue
  <2>3. Len(queue) \in Nat /\ DOMAIN queue = 1..Len(queue)
    BY QueueFacts
  <2>4. \A i \in DOMAIN queue' : queue'[i].s = s => i + 0 = Len(queue) + 1
    BY <1>5, <2>1, QueueKeeps
  <2>5. \A i \in DOMAIN queue' : queue'[i].s = s => i = Len(queue')
    BY <1>5, <2>2, <2>3, <2>4
  <2> QED
    BY <2>2, <2>5
<1>6. ASSUME NEW t \in Sessions, SessionChanges(t) PROVE Owns(s)'
  <2>1. queue' = queue /\ maker' = maker
    BY <1>6 DEF SessionChanges, storage
  <2>2. wizard'[s].agentId = wizard[s].agentId
    BY <1>6 DEF SessionChanges, TypeOK
  <2> QED
    BY <1>0, <1>1, <2>1, <2>2
<1>7. ASSUME NEW t \in Sessions, SessionCallJoins(t) PROVE Owns(s)'
  <2>1. PICK k : /\ Joins(k) /\ ~ Makes(k) /\ k.kind # "deployed"
                 /\ k.s = t /\ k.id = wizard[t].agentId
    BY <1>7 DEF SessionCallJoins
  <2>2. Same
    BY <1>0, <1>7 DEF SessionCallJoins, Begins, storage
  <2>3. CASE t # s
    BY <1>2, <2>1, <2>2, <2>3
  <2>4. CASE t = s
    <3>1. \A i \in DOMAIN queue : queue[i].s # s
      BY <1>7, <2>4, NotBusy DEF SessionCallJoins
    <3>2. MadeBy(s) = {wizard[s].agentId} \ {None}
      BY <1>s, <3>1 DEF Owns
    <3>3. PICK m \in DOMAIN queue' :
            queue'[m] = k /\ \A i \in DOMAIN queue' : queue'[i].s = s => i = m
      BY <1>5, <2>1, <2>4, <3>1
    <3> QED
      BY <2>1, <2>2, <2>4, <3>2, <3>3 DEF Owns
  <2> QED
    BY <2>3, <2>4
<1>8. ASSUME NEW t \in Sessions, SessionCreates(t) PROVE Owns(s)'
  <2>0. PICK id \in Ids :
          Creation(id, t) /\ \E k : Joins(k) /\ Makes(k) /\ k.s = t /\ k.id = id
    BY <1>8 DEF SessionCreates
  <2>1. PICK k : Creation(id, t) /\ Joins(k) /\ Makes(k) /\ k.s = t /\ k.id = id
    BY <2>0
  <2>2. wizard' = wizard /\ wizard[t].agentId = None
    BY <1>8 DEF SessionCreates, Begins
  <2>3. CASE t # s
    BY <1>2, <1>4, <2>1, <2>2, <2>3
  <2>4. CASE t = s
    <3>1. \A i \in DOMAIN queue : queue[i].s # s
      BY <1>8, <2>4, NotBusy DEF SessionCreates
    <3>2. MadeBy(s) = {}
      BY <1>s, <2>2, <2>4, <3>1 DEF Owns
    <3>3. MadeBy(s)' = {id}
      BY <2>1, <2>4, <3>2 DEF Creation, MadeBy, TypeOK
    <3>4. PICK m \in DOMAIN queue' :
            queue'[m] = k /\ \A i \in DOMAIN queue' : queue'[i].s = s => i = m
      BY <1>5, <2>1, <2>4, <3>1
    <3> QED
      BY <2>1, <2>2, <2>4, <3>3, <3>4 DEF Owns
  <2> QED
    BY <2>3, <2>4
<1>9. CASE CallCreates
  <2>1. Same /\ queue' = queue
    BY <1>4, <1>9, <1>s DEF CallCreates
  <2> QED
    BY <1>1, <2>1
<1>10. CASE SessionLearns
  <2>1. PICK new : Follows(new) /\ \A k \in new : ~ Makes(k) /\ k.kind # "deployed"
    BY <1>10 DEF SessionLearns
  <2>2. /\ Makes(Front) /\ maker' = maker
        /\ wizard' = [wizard EXCEPT ![Front.s].agentId = Front.id]
    BY <1>10 DEF SessionLearns, storage
  <2>3. queue # <<>> /\ QueueStep(1, new) /\ \A k \in new : k.s = Front.s /\ k.id = Front.id
    BY <2>1 DEF Follows
  <2>4. Front = queue[1] /\ 1 \in DOMAIN queue /\ IsContinuation(Front)
    BY <2>3, FrontIsContinuation
  <2>5. CASE Front.s # s
    <3>1. wizard'[s].agentId = wizard[s].agentId
      BY <2>2, <2>5 DEF TypeOK
    <3> QED
      BY <1>0, <1>3, <2>1, <2>2, <2>5, <3>1
  <2>6. CASE Front.s = s
    <3>1. MadeBy(s)' = {Front.id}
      BY <1>0, <1>s, <2>2, <2>4, <2>6 DEF Owns
    <3>2. wizard'[s].agentId = Front.id /\ Front.id # None
      <4>1. wizard[s] \in WizardSessions /\ Front.id \in Ids
        BY <2>4 DEF TypeOK, IsContinuation
      <4> QED
        BY <2>2, <2>6, <4>1, BuilderAssumption DEF TypeOK, WizardSessions
    <3>3. \A i \in DOMAIN queue' : queue'[i].s = s => queue'[i] \in new /\ i + 1 = Len(queue) + 1
      <4>1. \A i \in DOMAIN queue : queue[i].s = s => i = 1
        BY <1>s, <2>4, <2>6 DEF Owns
      <4>2. \A i \in DOMAIN queue' : i \in Nat \ {0}
        BY SMTT(30), <2>3, LenProperties DEF QueueStep, IsQueue
      <4>3. \A i \in DOMAIN queue' : i + 1 # 1
        BY <4>2
      <4> QED
        BY <2>3, <4>1, <4>3, QueueKeeps
    <3>4. \A i \in DOMAIN queue' : queue'[i].s = s => ~ Makes(queue'[i]) /\ queue'[i].id = Front.id
      BY <2>1, <2>3, <3>3
    <3>5. \A i, j \in DOMAIN queue' : queue'[i].s = s /\ queue'[j].s = s => i = j
      <4>1. DOMAIN queue' \subseteq Nat /\ Len(queue) \in Nat
        BY <2>3, LenProperties, QueueFacts DEF QueueStep, IsQueue
      <4> QED
        BY <3>3, <4>1
    <3> QED
      BY <3>1, <3>2, <3>4, <3>5 DEF Owns
  <2> QED
    BY <2>5, <2>6
<1>11. ASSUME NEW d \in BOOLEAN, SessionEnds(d) PROVE Owns(s)'
  <2>1. wizard'[s].agentId = wizard[s].agentId
    <3>1. wizard[s] \in WizardSessions
      BY DEF TypeOK
    <3> QED
      BY <1>11, <3>1 DEF SessionEnds, TypeOK, WizardSessions
  <2> QED
    BY <1>0, <1>3, <1>11, <2>1 DEF SessionEnds, storage
<1>12. CASE Overwrites
  <2>1. PICK new : Follows(new) /\ \A k \in new : k.kind = "deployed"
    BY <1>12 DEF Overwrites
  <2> QED
    BY <1>0, <1>3, <1>12, <2>1 DEF Overwrites, Writes, Makes
<1>13. CASE Reads
  BY <1>0, <1>3, <1>13, <1>s DEF Reads, storage
<1>14. CASE Waits
  BY <1>0, <1>3, <1>14 DEF Waits, storage
<1>15. CASE CallJoins
  BY <1>0, <1>2, <1>15, <1>s DEF CallJoins, storage
<1>16. CASE Deletion \/ NothingChanges
  BY <1>0, <1>1, <1>16 DEF Deletion, NothingChanges, storage
<1> QED
  BY <1>6, <1>7, <1>8, <1>9, <1>10, <1>11, <1>12, <1>13, <1>14, <1>15, <1>16 DEF Shape

-----------------------------------------------------------------------------
(***************************************************************************)
(* What a deployment is of.                                                *)
(***************************************************************************)
\* A history whose agent nobody raced for only gets longer.
LEMMA HistoryGoesOn ==
  ASSUME TypeOK, IsQueue, HistoryEndsInStore, Shape, NEW id \in Ids,
         maker[id] # "nobody", id \notin raced', versions'[id] # <<>>
  PROVE  /\ id \notin raced /\ versions[id] # <<>>
         /\ 1 \in DOMAIN versions[id]
         /\ \A i \in DOMAIN versions[id] :
              i \in DOMAIN versions'[id] /\ versions'[id][i] = versions[id][i]
<1>h. versions[id] \in Seq(Agents)
  BY DEF TypeOK
<1>0. versions[id] # <<>> => 1 \in DOMAIN versions[id]
  <2>1. versions[id] # <<>> => Len(versions[id]) \in Nat \ {0}
    BY <1>h, EmptySeq
  <2> QED
    BY <1>h, <2>1, LenProperties
<1>1. CASE raced' = raced /\ versions'[id] = versions[id]
  BY <1>0, <1>1
<1>2. ASSUME NEW i \in Ids, NEW s \in Sessions \cup {None}, Creation(i, s)
      PROVE  raced' = raced /\ versions'[id] = versions[id]
  BY <1>2, WriteTypes DEF Creation
<1>3. CASE Overwrites
  <2> DEFINE f == Front.id
  <2>1. queue # <<>> /\ raced' = IF agents[f] = Front.held[1] THEN raced ELSE raced \cup {f}
    BY <1>3 DEF Overwrites, Follows, Race
  <2>2. PICK a \in Agents : Write(f, a)
    BY <1>3 DEF Overwrites
  <2>3. f \in Ids /\ IsContinuation(Front) /\ Writes(Front)
    BY <1>3, <2>1, FrontIsContinuation DEF IsContinuation, Overwrites
  <2> HIDE DEF f
  <2>4. CASE f # id
    <3>1. versions'[id] = versions[id]
      BY <2>2, <2>3, <2>4, WriteTypes
    <3> QED
      BY <1>0, <2>1, <3>1
  <2>5. CASE f = id
    <3>1. agents[id] = Front.held[1] /\ id \notin raced
      BY <2>1, <2>5
    <3>2. agents[id] # NoAgent
      BY <2>3, <3>1, AgentFields DEF IsContinuation, Writes, IsCopy
    <3>3. versions[id] # <<>>
      BY <3>2 DEF HistoryEndsInStore, Stored
    <3>4. DOMAIN versions[id] = 1..Len(versions[id])
      BY <1>h, LenProperties
    <3>5. DOMAIN versions'[id] = 1..Len(versions'[id])
      <4>1. versions' \in [Ids -> Seq(Agents)]
        BY <2>2, <2>3, WriteTypes
      <4> QED
        BY <4>1, LenProperties
    <3>6. /\ Len(versions[id]) \in Nat /\ Len(versions'[id]) = Len(versions[id]) + 1
          /\ \A i \in 1..Len(versions[id]) : versions'[id][i] = versions[id][i]
      BY <2>2, <2>5, WriteTypes
    <3> QED
      BY <1>0, <3>1, <3>3, <3>4, <3>5, <3>6
  <2> QED
    BY <2>4, <2>5
<1>4. CASE Deletion
  <2>1. raced' = raced /\ versions'[id] \in {versions[id], <<>>}
    BY <1>4 DEF Deletion, TypeOK
  <2> QED
    BY <1>1, <2>1
<1>5. CASE \E s \in Sessions :
             SessionChanges(s) \/ SessionCallJoins(s) \/ SessionCreates(s)
  BY <1>1, <1>2, <1>5 DEF SessionChanges, SessionCallJoins, SessionCreates, storage
<1> QED
  BY <1>1, <1>2, <1>3, <1>4, <1>5
     DEF Shape, CallJoins, CallCreates, Reads, SessionLearns, SessionEnds, Waits,
         NothingChanges, storage

LEMMA ActivatedStays ==
  ASSUME TypeOK, IsQueue, HistoryEndsInStore, Shape, NEW id \in Ids,
         maker[id] # "nobody", Activated(id)
  PROVE  Activated(id)'
BY HistoryGoesOn DEF Activated

\* The snapshot that is written for a deployment is active.
LEMMA WriteActivates ==
  ASSUME TypeOK, IsQueue, Overwrites, Front.s \in Sessions,
         NEW id \in Ids, id = Front.id
  PROVE  Activated(id)'
<1>1. PICK a \in Agents : Write(id, a) /\ a.status = "active"
  BY DEF Overwrites
<1>2. /\ versions' \in [Ids -> Seq(Agents)] /\ Len(versions[id]) \in Nat
      /\ Len(versions'[id]) = Len(versions[id]) + 1
      /\ versions'[id][Len(versions[id]) + 1] = a
  BY <1>1, WriteTypes
<1>3. Len(versions[id]) + 1 \in DOMAIN versions'[id]
  BY <1>2, LenProperties
<1> QED
  BY <1>1, <1>2, <1>3 DEF Activated

LEMMA SameDraftBegan ==
  ASSUME NEW v, NEW w, Draft(v) = Draft(w), NEW a, BeganAs(v, a)
  PROVE  BeganAs(w, a)
BY DEF Draft, BeganAs

\* What became of a session that a step does not edit, and that makes nothing.
LEMMA BuildsWhereNoneJoins ==
  ASSUME TypeOK, IsQueue, HistoryEndsInStore, ClimbInv, Shape,
         NEW s \in Sessions, Owns(s), Builds(s),
         MadeBy(s)' = MadeBy(s), Draft(wizard'[s]) = Draft(wizard[s]),
         edited \subseteq edited',
         \A i \in DOMAIN queue' : queue'[i].s = s /\ queue'[i].kind = "deployed" =>
            \/ \E j \in DOMAIN queue : queue'[i] = queue[j]
            \/ queue'[i].id \in Ids /\ Activated(queue[i].id)',
         \/ wizard'[s].agentId = wizard[s].agentId /\ (wizard'[s].deployed => wizard[s].deployed)
         \/ ~ wizard'[s].deployed
         \/ /\ wizard'[s].agentId \in Ids /\ wizard'[s].agentId = wizard[s].agentId
            /\ maker[wizard[s].agentId] # "nobody" /\ Activated(wizard[s].agentId)
  PROVE  Builds(s)'
<1> USE BuilderAssumption
<1>1. ASSUME NEW i \in DOMAIN queue', queue'[i].s = s, queue'[i].kind = "deployed"
      PROVE  Activated(queue[i].id)'
  <2>1. CASE \E j \in DOMAIN queue : queue'[i] = queue[j]
    <3>1. PICK j \in DOMAIN queue : queue'[i] = queue[j]
      BY <2>1
    <3>2. PICK id \in Ids : id = queue[j].id /\ Activated(id) /\ maker[id] # "nobody"
      BY <1>1, <3>1 DEF Builds, ClimbInv, TypeOK, IsContinuation
    <3>3. Activated(id)'
      BY <3>2, ActivatedStays
    <3>4. queue'[i].id = id
      BY <3>1, <3>2
    <3> QED
      BY <3>3, <3>4 DEF Activated
  <2> QED
    BY <1>1, <2>1
<1>2. ASSUME wizard'[s].deployed
      PROVE  wizard'[s].agentId # None /\ Activated(wizard[s].agentId)'
  <2>1. PICK id \in Ids : /\ id = wizard[s].agentId /\ wizard'[s].agentId = id
                          /\ Activated(id) /\ maker[id] # "nobody"
    <3>1. CASE wizard[s].deployed /\ wizard'[s].agentId = wizard[s].agentId
      <4>1. wizard[s].agentId # None /\ Activated(wizard[s].agentId)
        BY <3>1 DEF Builds
      <4>2. MadeBy(s) = {wizard[s].agentId}
        BY <4>1 DEF Owns
      <4>3. wizard[s].agentId \in Ids /\ maker[wizard[s].agentId] = s
        BY <4>2 DEF MadeBy
      <4> QED
        BY <3>1, <4>1, <4>3
    <3> QED
      BY <1>2, <3>1
  <2>2. Activated(id)'
    BY <2>1, ActivatedStays
  <2> QED
    BY <2>1, <2>2 DEF Activated
<1>3. ASSUME s \notin edited', NEW id \in MadeBy(s), id \notin raced', versions'[id] # <<>>
      PROVE  BeganAs(wizard'[s], versions'[id][1])
  <2>1. id \in Ids /\ maker[id] # "nobody"
    BY DEF MadeBy
  <2>2. id \notin raced /\ versions[id] # <<>> /\ versions'[id][1] = versions[id][1]
    BY <1>3, <2>1, HistoryGoesOn
  <2>3. BeganAs(wizard[s], versions[id][1])
    BY <1>3, <2>2 DEF Builds
  <2> QED
    BY <2>2, <2>3, SameDraftBegan
<1> QED
  BY <1>1, <1>2, <1>3 DEF Builds

LEMMA BuildStep ==
  ASSUME TypeOK, IsQueue, HistoryEndsInStore, ClimbInv, OwnInv, BuiltInv, Shape
  PROVE  BuiltInv'
<1> SUFFICES ASSUME NEW s \in Sessions, s \notin overlapped' PROVE Builds(s)'
  BY DEF BuiltInv
<1>s. Owns(s) /\ Builds(s) /\ s # None /\ s # "nobody" /\ wizard[s] \in WizardSessions
  BY OverlapsStay, BuilderAssumption DEF OwnInv, BuiltInv, TypeOK
<1> DEFINE SameSession == /\ Draft(wizard'[s]) = Draft(wizard[s])
                          /\ wizard'[s].agentId = wizard[s].agentId
                          /\ wizard'[s].deployed => wizard[s].deployed
           Same == MadeBy(s)' = MadeBy(s) /\ edited \subseteq edited' /\ SameSession
<1>0. maker' = maker => MadeBy(s)' = MadeBy(s)
  BY DEF MadeBy
<1>1. ASSUME Same, queue' = queue PROVE Builds(s)'
  BY <1>1, <1>s, BuildsWhereNoneJoins
<1>2. ASSUME Same, NEW k, Joins(k), k.s # s \/ k.kind # "deployed" PROVE Builds(s)'
  <2>1. \A i \in DOMAIN queue' : (\E j \in DOMAIN queue : queue'[i] = queue[j]) \/ queue'[i] = k
    BY <1>2, QueueKeeps DEF Joins
  <2> QED
    BY <1>2, <1>s, <2>1, BuildsWhereNoneJoins
<1>3. ASSUME NEW new, Follows(new)
      PROVE  \A i \in DOMAIN queue' : \/ \E j \in DOMAIN queue : queue'[i] = queue[j]
                                      \/ queue'[i] \in new /\ queue'[i].s = Front.s
  BY <1>3, QueueKeeps DEF Follows
<1>4. ASSUME Same, NEW new, Follows(new), Front.s = s => \A k \in new : k.kind # "deployed"
      PROVE  Builds(s)'
  BY <1>3, <1>4, <1>s, BuildsWhereNoneJoins
<1>5. ASSUME NEW id \in Ids, NEW t \in Sessions \cup {None}, t # s, Creation(id, t)
      PROVE  MadeBy(s)' = MadeBy(s)
  BY <1>5, <1>s DEF Creation, MadeBy, TypeOK
<1>6. ASSUME NEW t \in Sessions, SessionChanges(t) PROVE Builds(s)'
  <2>1. queue' = queue /\ maker' = maker /\ edited \subseteq edited' /\ versions' = versions
        /\ raced' = raced
    BY <1>6 DEF SessionChanges, storage
  <2>2. PICK w \in WizardSessions :
          /\ wizard' = [wizard EXCEPT ![t] = w]
          /\ w.agentId = wizard[t].agentId
          /\ w.deployed => wizard[t].deployed
          /\ \/ t \in edited'
             \/ wizard[t].agentId = None /\ ~ Busy(t)
             \/ Draft(w) = Draft(wizard[t])
    BY <1>6 DEF SessionChanges
  <2>3. CASE t # s
    <3>1. wizard'[s] = wizard[s]
      BY <2>2, <2>3 DEF TypeOK
    <3> QED
      BY <1>0, <1>1, <2>1, <3>1
  <2>4. CASE t = s
    <3>1. wizard'[s] = w
      BY <2>2, <2>4 DEF TypeOK
    <3>2. CASE Draft(w) = Draft(wizard[s])
      BY <1>0, <1>1, <2>1, <2>2, <2>4, <3>1, <3>2
    <3>3. CASE s \in edited' \/ MadeBy(s) = {}
      BY <1>0, <1>s, <2>1, <2>2, <2>4, <3>1, <3>3 DEF Builds, Activated
    <3>4. CASE wizard[s].agentId = None /\ ~ Busy(s)
      <4>1. MadeBy(s) = {}
        BY <1>s, <3>4 DEF Busy, Owns
      <4> QED
        BY <3>3, <4>1
    <3> QED
      BY <2>2, <2>4, <3>2, <3>3, <3>4
  <2> QED
    BY <2>3, <2>4
<1>7. ASSUME NEW t \in Sessions, SessionCallJoins(t) PROVE Builds(s)'
  <2>1. PICK k : Joins(k) /\ k.kind # "deployed"
    BY <1>7 DEF SessionCallJoins
  <2>2. Same
    BY <1>0, <1>7 DEF SessionCallJoins, Begins, storage
  <2> QED
    BY <1>2, <2>1, <2>2
<1>8. ASSUME NEW t \in Sessions, SessionCreates(t) PROVE Builds(s)'
  <2>0. PICK id \in Ids :
          Creation(id, t) /\ \E k : Joins(k) /\ Makes(k) /\ k.s = t /\ k.id = id
    BY <1>8 DEF SessionCreates
  <2>1. PICK k : Creation(id, t) /\ Joins(k) /\ Makes(k) /\ k.s = t /\ k.id = id
    BY <2>0
  <2>2. UNCHANGED <<wizard, edited>> /\ wizard[t].agentId = None
    BY <1>8 DEF SessionCreates, Begins
  <2>3. k.kind # "deployed"
    BY <2>1 DEF Makes
  <2>4. CASE t # s
    BY <1>2, <1>5, <2>1, <2>2, <2>3, <2>4
  <2>5. CASE t = s
    <3>1. \A i \in DOMAIN queue : queue[i].s # s
      BY <1>8, <2>5, NotBusy DEF SessionCreates
    <3>2. MadeBy(s) = {} /\ ~ wizard[s].deployed
      BY <1>s, <2>2, <2>5, <3>1 DEF Owns, Builds
    <3>3. MadeBy(s)' = {id}
      BY <2>1, <2>5, <3>2 DEF Creation, MadeBy, TypeOK
    <3>4. PICK a \in Agents : Write(id, a) /\ BeganAs(wizard[s], a)
      BY <2>1, <2>5 DEF Creation
    <3>5. versions'[id][1] = a
      <4>1. versions[id] = <<>>
        BY <2>1 DEF Creation, ClimbInv, HistoryEndsInStore
      <4>2. Len(versions[id]) = 0 /\ 0 + 1 = 1
        BY <4>1
      <4>3. versions'[id][Len(versions[id]) + 1] = a
        BY <3>4, WriteTypes
      <4> QED
        BY <4>2, <4>3
    <3>6. \A i \in DOMAIN queue' : queue'[i].s = s => queue'[i].kind # "deployed"
      BY <2>1, <2>3, <3>1, QueueKeeps DEF Joins
    <3> QED
      BY <2>2, <3>2, <3>3, <3>4, <3>5, <3>6 DEF Builds
  <2> QED
    BY <2>4, <2>5
<1>9. CASE CallCreates
  <2>1. Same /\ queue' = queue
    BY <1>5, <1>9, <1>s DEF CallCreates, history
  <2> QED
    BY <1>1, <2>1
<1>10. CASE SessionLearns
  <2>1. PICK new : Follows(new) /\ \A k \in new : ~ Makes(k) /\ k.kind # "deployed"
    BY <1>10 DEF SessionLearns
  <2>2. /\ Makes(Front) /\ maker' = maker /\ edited' = edited
        /\ wizard' = [wizard EXCEPT ![Front.s].agentId = Front.id]
    BY <1>10 DEF SessionLearns, storage, history
  <2>3. Front = queue[1] /\ 1 \in DOMAIN queue
    BY <2>1, FrontIsContinuation DEF Follows
  <2>4. CASE Front.s # s
    <3>1. wizard'[s] = wizard[s]
      BY <2>2, <2>4 DEF TypeOK
    <3> QED
      BY <1>0, <1>4, <2>1, <2>2, <3>1
  <2>5. CASE Front.s = s
    <3>1. Draft(wizard'[s]) = Draft(wizard[s]) /\ wizard'[s].deployed = wizard[s].deployed
      BY <1>s, <2>2, <2>5 DEF TypeOK, WizardSessions, Draft
    <3>2. ~ wizard[s].deployed
      BY <1>s, <2>2, <2>3, <2>5 DEF Owns, Builds
    <3> QED
      BY <1>0, <1>3, <1>s, <2>1, <2>2, <3>1, <3>2, BuildsWhereNoneJoins
  <2> QED
    BY <2>4, <2>5
<1>11. ASSUME NEW d \in BOOLEAN, SessionEnds(d) PROVE Builds(s)'
  <2>1. /\ Follows({}) /\ ~ Makes(Front) /\ UNCHANGED <<storage, history>>
        /\ wizard' = [wizard EXCEPT ![Front.s].deployed = d]
        /\ d => Front.kind = "deployed"
    BY <1>11 DEF SessionEnds
  <2>2. Front = queue[1] /\ 1 \in DOMAIN queue /\ Front.id \in Ids
    BY <2>1, FrontIsContinuation DEF Follows, IsContinuation
  <2>3. MadeBy(s)' = MadeBy(s) /\ edited' = edited
    BY <1>0, <2>1 DEF storage, history
  <2>4. CASE Front.s # s
    <3>1. wizard'[s] = wizard[s]
      BY <2>1, <2>4 DEF TypeOK
    <3> QED
      BY <1>4, <2>1, <2>3, <3>1
  <2>5. CASE Front.s = s
    <3>1. /\ Draft(wizard'[s]) = Draft(wizard[s]) /\ wizard'[s].deployed = d
          /\ wizard'[s].agentId = wizard[s].agentId
      BY <1>s, <2>1, <2>5 DEF TypeOK, WizardSessions, Draft
    <3>2. wizard[s].agentId = Front.id
      BY <1>s, <2>1, <2>2, <2>5 DEF Owns
    <3>3. d => Activated(wizard[s].agentId)
      BY <1>s, <2>1, <2>2, <2>5, <3>2 DEF Builds, Activated
    <3>4. maker[wizard[s].agentId] # "nobody"
      BY <2>2, <3>2 DEF ClimbInv
    <3>5. \A i \in DOMAIN queue' : \E j \in DOMAIN queue : queue'[i] = queue[j]
      BY <1>3, <2>1
    <3> QED
      BY <1>s, <2>2, <2>3, <3>1, <3>2, <3>3, <3>4, <3>5, BuildsWhereNoneJoins
  <2> QED
    BY <2>4, <2>5
<1>12. CASE Overwrites
  <2>1. PICK new : Follows(new)
    BY <1>12 DEF Overwrites
  <2>2. Same
    BY <1>0, <1>12 DEF Overwrites, history
  <2>3. CASE Front.s # s
    BY <1>4, <2>1, <2>2, <2>3
  <2>4. CASE Front.s = s
    <3>1. PICK id \in Ids : id = Front.id /\ Activated(id)'
      BY <1>12, <2>1, <2>4, FrontIsContinuation, WriteActivates DEF Follows, IsContinuation
    <3>2. \A i \in DOMAIN queue' : \/ \E j \in DOMAIN queue : queue'[i] = queue[j]
                                   \/ queue'[i].id = id
      BY <1>3, <2>1, <3>1 DEF Follows
    <3>3. \A i \in DOMAIN queue' : queue'[i].id = id =>
            queue'[i].id \in Ids /\ Activated(queue[i].id)'
      BY <3>1 DEF Activated
    <3> QED
      BY <1>s, <2>2, <3>2, <3>3, BuildsWhereNoneJoins
  <2> QED
    BY <2>3, <2>4
<1>13. CASE Reads
  <2>1. PICK new : Follows(new)
    BY <1>13 DEF Reads
  <2> QED
    BY <1>0, <1>4, <1>13, <1>s, <2>1 DEF Reads, storage, history
<1>14. CASE Waits
  <2>1. Follows({Front}) /\ Same
    BY <1>0, <1>14 DEF Waits, storage, history
  <2>2. Front = queue[1] /\ 1 \in DOMAIN queue
    BY <2>1, FrontIsContinuation DEF Follows
  <2>3. \A i \in DOMAIN queue' : \E j \in DOMAIN queue : queue'[i] = queue[j]
    BY <1>3, <2>1, <2>2
  <2> QED
    BY <1>s, <2>1, <2>3, BuildsWhereNoneJoins
<1>15. CASE CallJoins
  <2>1. PICK k : Joins(k) /\ k.s = None
    BY <1>15 DEF CallJoins
  <2> QED
    BY <1>0, <1>2, <1>15, <1>s, <2>1 DEF CallJoins, storage, history
<1>16. CASE Deletion \/ NothingChanges
  BY <1>0, <1>1, <1>16 DEF Deletion, NothingChanges, storage, history
<1> QED
  BY <1>6, <1>7, <1>8, <1>9, <1>10, <1>11, <1>12, <1>13, <1>14, <1>15, <1>16 DEF Shape

-----------------------------------------------------------------------------
\* Nothing is made and nothing is under way.
THEOREM BuilderInitial == Init => BuilderInv
<1> SUFFICES ASSUME Init PROVE BuilderInv
  OBVIOUS
<1>1. Len(queue) = 0 /\ DOMAIN queue = {} /\ queue \in Seq({queue[i] : i \in 1..Len(queue)})
  BY EmptySeq DEF Init
<1>2. \A id \in Ids : /\ agents[id] = NoAgent /\ versions[id] = <<>>
                      /\ Len(versions[id]) = 0 /\ maker[id] = "nobody"
  BY DEF Init
<1>3. Unborn \in WizardSessions /\ Unborn.agentId = None /\ ~ Unborn.deployed
  BY DEF Unborn, NewSession, WizardSessions, AllPrompts, AllConfigs
<1>4. \A s \in Sessions : wizard[s] = Unborn /\ MadeBy(s) = {}
  BY <1>2, BuilderAssumption DEF Init, MadeBy
<1>5. TypeOK
  <2>1. versions \in [Ids -> Seq(Agents)]
    BY EmptySeq DEF Init
  <2> QED
    BY <1>1, <1>3, <2>1, BuilderAssumption DEF Init, TypeOK
<1>6. HistoryIsFaithful
  BY <1>2 DEF HistoryIsFaithful, HistoryEndsInStore, VersionsClimb, Stored
<1>7. ClimbInv
  BY <1>1, <1>2 DEF ClimbInv, Stored
<1>8. OwnInv
  BY <1>1, <1>3, <1>4 DEF OwnInv, Owns
<1>9. BuiltInv
  BY <1>1, <1>3, <1>4 DEF BuiltInv, Builds
<1> QED
  BY <1>1, <1>5, <1>6, <1>7, <1>8, <1>9 DEF BuilderInv, IsQueue

\* No step breaks the invariant.
THEOREM BuilderStep == BuilderInv /\ [Next]_vars => BuilderInv'
<1> SUFFICES ASSUME BuilderInv, [Next]_vars PROVE BuilderInv'
  OBVIOUS
<1>1. TypeOK' /\ IsQueue' /\ Shape
  BY TypesStep, StepHasShape DEF BuilderInv
<1>2. HistoryIsFaithful' /\ ClimbInv' /\ OwnInv' /\ BuiltInv'
  BY <1>1, HistoryStep, ClimbStep, OwnStep, BuildStep DEF BuilderInv, HistoryIsFaithful
<1> QED
  BY <1>1, <1>2 DEF BuilderInv

\* The inductive invariant holds throughout.
THEOREM BuilderInvariance == Spec => []BuilderInv
BY BuilderInitial, BuilderStep, PTL DEF Spec

\* The storage, the sessions and the queue keep their types.
THEOREM BuilderTypeCorrect == Spec => []TypeOK
<1>1. BuilderInv => TypeOK
  BY DEF BuilderInv
<1> QED
  BY BuilderInvariance, <1>1, PTL

\* An agent's history ends in the agent, and its versions climb.
THEOREM HistoryCorrect == Spec => []HistoryIsFaithful
<1>1. BuilderInv => HistoryIsFaithful
  BY DEF BuilderInv
<1> QED
  BY BuilderInvariance, <1>1, PTL

\* A session whose calls did not overlap has made its own agent and no other.
THEOREM SessionsCorrect == Spec => []SessionsOwnOneAgent
<1>1. BuilderInv => SessionsOwnOneAgent
  BY DEF BuilderInv, OwnInv, Owns, SessionsOwnOneAgent, Busy, MadeBy
<1> QED
  BY BuilderInvariance, <1>1, PTL

\* What a session has deployed was activated, and began as it was built.
THEOREM DeploymentsCorrect == Spec => []DeployedAsBuilt
<1>1. BuilderInv => DeployedAsBuilt
  <2> SUFFICES ASSUME BuilderInv, NEW s \in Sessions \ overlapped, wizard[s].deployed,
                      wizard[s].agentId \notin raced, versions[wizard[s].agentId] # <<>>
               PROVE  /\ \E i \in DOMAIN versions[wizard[s].agentId] :
                           versions[wizard[s].agentId][i].status = "active"
                      /\ s \notin edited =>
                           BeganAs(wizard[s], versions[wizard[s].agentId][1])
    BY DEF DeployedAsBuilt, BeganAs
  <2>1. Owns(s) /\ Builds(s)
    BY DEF BuilderInv, OwnInv, BuiltInv
  <2>2. wizard[s].agentId # None /\ Activated(wizard[s].agentId)
    BY <2>1 DEF Builds
  <2>3. wizard[s].agentId \in MadeBy(s)
    BY <2>1, <2>2 DEF Owns
  <2> QED
    BY <2>1, <2>2, <2>3 DEF Builds, Activated
<1> QED
  BY BuilderInvariance, <1>1, PTL
===============================================================================
