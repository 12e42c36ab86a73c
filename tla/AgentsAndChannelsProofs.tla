---------------------- MODULE AgentsAndChannelsProofs ----------------------
(***************************************************************************)
(* Proofs about the agents' registry, for any number of commands, agents   *)
(* and levels, and about the channels the agents are bound to, for any     *)
(* number of callers, adapters, bindings, polls and updates.               *)
(***************************************************************************)
EXTENDS AgentLifecycle, Channels, FiniteSetTheorems, SequenceTheorems, TLAPS

-----------------------------------------------------------------------------
(***************************************************************************)
(* The agents' registry.                                                   *)
(***************************************************************************)
Waits(c) == cmd[c].caller = "waiting"

Answered(c) == cmd[c].answer \notin {"none", "refused", "untold"}

\* How a command's socket, request and answer go together.
SocketOf(k) ==
  /\ k.socket = "opening" <=> k.request = "held"
  /\ k.socket # "closed" \/ k.request # "gone" => k.caller \in {"waiting", "failed"}
  /\ k.answer # "none" => k.request = "gone" /\ k.socket = "open"

SocketInv == \A c \in Commands : SocketOf(cmd[c])

\* What a command is about: a spawn's agent, once it has one, and otherwise one
\* of the registry.
AboutInv ==
  \A c \in Commands :
    /\ cmd[c].op = "none" => cmd[c] = Unused
    /\ cmd[c].op = "spawn" =>
         /\ cmd[c].answer \in {"none", "refused", "running"}
         /\ cmd[c].request # "gone" => cmd[c].on = None
         /\ cmd[c].answer = "running" => cmd[c].on # None
         /\ cmd[c].on = None => cmd[c].alone
         /\ cmd[c].on # None => /\ agent[cmd[c].on] # NoAgent
                                /\ agent[cmd[c].on].level = Level(cmd[c].level)
    /\ cmd[c].op \notin {"none", "spawn"} => cmd[c].on # None /\ instances[cmd[c].on] # NoAgent

\* The registry's entries are agents, at their level.
EntriesInv ==
  \A i \in Instances :
    /\ agent[i].status = "none" => agent[i] = NoAgent
    /\ instances[i].status = "none" => instances[i] = NoAgent
    /\ instances[i] # NoAgent => agent[i] # NoAgent /\ instances[i].level = agent[i].level

\* A command that was alone is, while it lives, and its answer is the agent's
\* status; commands that were not, and those that failed, are in doubt.
AloneInv ==
  \A c \in Commands, i \in Instances : c \in LiveOn(i) =>
    /\ cmd[c].alone => \A d \in LiveOn(i) : d = c
    /\ cmd[c].alone /\ Answered(c) => Noted(c) = agent[i]
    /\ ~cmd[c].alone \/ cmd[c].caller = "failed" => i \in doubt

\* While no command may have changed the agent unheard, the registry is right.
RegistryInv ==
  \A i \in Instances :
    /\ instances[i] # NoAgent /\ i \notin doubt
    /\ \A c \in LiveOn(i) : cmd[c].request # "gone" \/ cmd[c].answer = "refused"
    => instances[i] = agent[i]

AgentsInv ==
  /\ TypeOK /\ SocketInv /\ AboutInv /\ EntriesInv
  /\ AloneInv /\ RegistryInv /\ NoAgentIsForgotten

Record ==
  [op : {"none", "spawn", "stop", "restart", "status"},
   on : Instances \cup {None}, level : Levels \cup {None},
   caller : {"idle", "waiting", "returned", "failed"},
   socket : {"closed", "opening", "open"}, request : {"held", "sent", "gone"},
   answer : Statuses \cup {"refused", "untold"}, alone : BOOLEAN]

\* No command has been given and no agent spawned.
THEOREM AgentsInitial == Init => AgentsInv
<1> SUFFICES ASSUME Init PROVE AgentsInv
  OBVIOUS
<1> USE AgentsAssumption DEF Init, Unused, NoAgent
<1>1. TypeOK
  BY DEF TypeOK, AgentRecords, Statuses
<1>2. SocketInv /\ AboutInv /\ EntriesInv /\ RegistryInv /\ NoAgentIsForgotten
  BY DEF SocketInv, SocketOf, AboutInv, EntriesInv, RegistryInv, NoAgentIsForgotten
<1>3. AloneInv
  BY DEF AloneInv, LiveOn, Live
<1> QED
  BY <1>1, <1>2, <1>3 DEF AgentsInv

\* Instances are numbers, and so none is None.
LEMMA InstanceFacts ==
  ASSUME TypeOK
  PROVE  /\ None \notin Instances
         /\ \A c \in Commands : cmd[c].on # None => cmd[c].on \in Instances
         /\ \A c \in Commands : cmd[c] \in Record
         /\ \A i \in Instances : agent[i] \in AgentRecords /\ instances[i] \in AgentRecords
BY AgentsAssumption DEF TypeOK, Instances, Record

\* A record whose socket, request, answer and caller change stays in its set.
LEMMA FieldsChange ==
  ASSUME NEW A1, NEW A2, NEW A3, NEW A4, NEW A5, NEW A6, NEW A7, NEW A8,
         NEW k \in [op : A1, on : A2, level : A3, caller : A4, socket : A5, request : A6,
                    answer : A7, alone : A8],
         NEW s \in A5, NEW r \in A6, NEW a \in A7, NEW w \in A4, NEW x,
         x = [k EXCEPT !.socket = s, !.answer = a, !.request = r, !.caller = w]
  PROVE  /\ x \in [op : A1, on : A2, level : A3, caller : A4, socket : A5, request : A6,
                   answer : A7, alone : A8]
         /\ x.op = k.op /\ x.on = k.on /\ x.level = k.level /\ x.alone = k.alone
         /\ x.socket = s /\ x.request = r /\ x.answer = a /\ x.caller = w
OBVIOUS

\* A record that becomes a command as it is given stays in its set.
LEMMA CommandGiven ==
  ASSUME NEW A1, NEW A2, NEW A3, NEW A4, NEW A5, NEW A6, NEW A7, NEW A8,
         NEW k \in [op : A1, on : A2, level : A3, caller : A4, socket : A5, request : A6,
                    answer : A7, alone : A8],
         NEW o \in A1, NEW i \in A2, NEW l \in A3, NEW w \in A4, NEW s \in A5, NEW r \in A6, NEW x,
         x = [k EXCEPT !.op = o, !.on = i, !.level = l, !.caller = w, !.socket = s, !.request = r]
  PROVE  /\ x \in [op : A1, on : A2, level : A3, caller : A4, socket : A5, request : A6,
                   answer : A7, alone : A8]
         /\ x.op = o /\ x.on = i /\ x.level = l /\ x.caller = w /\ x.socket = s /\ x.request = r
         /\ x.answer = k.answer /\ x.alone = k.alone
OBVIOUS

\* A command's answer is noted by what the command is and what it says.
LEMMA NotedSame ==
  ASSUME NEW d, UNCHANGED instances, cmd'[d].op = cmd[d].op, cmd'[d].on = cmd[d].on,
         cmd'[d].level = cmd[d].level, cmd'[d].answer = cmd[d].answer
  PROVE  Noted(d)' = Noted(d)
BY DEF Noted

\* A command that stays as it is is noted as before.
LEMMA NotedUnchanged ==
  ASSUME NEW d, UNCHANGED instances, cmd'[d] = cmd[d]
  PROVE  Noted(d)' = Noted(d)
<1>1. /\ cmd'[d].op = cmd[d].op /\ cmd'[d].on = cmd[d].on
      /\ cmd'[d].level = cmd[d].level /\ cmd'[d].answer = cmd[d].answer
  OBVIOUS
<1> QED
  BY <1>1, NotedSame

\* One command changes, and no agent.
LEMMA OneCommand ==
  ASSUME TypeOK, SocketInv, NEW c \in Commands, NEW x \in Record, SocketOf(x),
         cmd' = [cmd EXCEPT ![c] = x], UNCHANGED <<agent, instances, crashes>>,
         doubt' \subseteq doubt \cup {cmd[c].on}
  PROVE  /\ TypeOK' /\ SocketInv' /\ cmd'[c] = x
         /\ \A d \in Commands \ {c} : cmd'[d] = cmd[d]
<1>1. cmd \in [Commands -> Record]
  BY DEF TypeOK, Record
<1>2. cmd' \in [Commands -> Record] /\ cmd'[c] = x /\ \A d \in Commands \ {c} : cmd'[d] = cmd[d]
  BY <1>1
<1>3. doubt' \subseteq Instances \cup {None}
  BY InstanceFacts DEF TypeOK, Record
<1>4. TypeOK'
  BY <1>2, <1>3 DEF TypeOK, Record
<1>5. SocketInv'
  BY <1>2 DEF SocketInv
<1> QED
  BY <1>2, <1>4, <1>5

-----------------------------------------------------------------------------
\* A step of the socket or the timer, of one command: the agents and the
\* registry stay as they are, and a caller that fails leaves a doubt, or a
\* refused command that is over.
LEMMA QuietStep ==
  ASSUME AgentsInv, TypeOK', SocketInv', NEW c \in Commands,
         UNCHANGED <<agent, instances>>, doubt \subseteq doubt', cmd[c].op # "none",
         \A d \in Commands \ {c} : cmd'[d] = cmd[d],
         cmd'[c].op = cmd[c].op, cmd'[c].on = cmd[c].on,
         cmd'[c].level = cmd[c].level, cmd'[c].alone = cmd[c].alone,
         cmd'[c].answer \in {cmd[c].answer, "none", "refused"},
         cmd'[c].request # "gone" => cmd[c].request # "gone",
         \/ cmd'[c].caller = cmd[c].caller
         \/ /\ cmd[c].caller = "waiting" /\ cmd'[c].caller = "failed"
            /\ cmd[c].on \in doubt' \/ cmd'[c].request = "gone",
         cmd[c].on \notin doubt'
         /\ (Live(c)' => cmd'[c].request # "gone" \/ cmd'[c].answer = "refused")
           => (Live(c) => cmd[c].request # "gone" \/ cmd[c].answer = "refused")
  PROVE  AgentsInv'
<1>1. TypeOK /\ SocketInv /\ AboutInv /\ EntriesInv /\ AloneInv /\ RegistryInv /\ NoAgentIsForgotten
  BY DEF AgentsInv
<1>2. AboutInv'
  BY <1>1 DEF AboutInv
<1>3. EntriesInv'
  BY <1>1 DEF EntriesInv
<1>4. \A d \in Commands : Live(d)' => Live(d)
  BY DEF Live
<1>5. \A i \in Instances : LiveOn(i)' \subseteq LiveOn(i)
  BY <1>4 DEF LiveOn
<1>6. AloneInv'
  <2> SUFFICES ASSUME NEW d \in Commands, NEW i \in Instances, d \in LiveOn(i)'
               PROVE  /\ cmd'[d].alone => \A e \in LiveOn(i)' : e = d
                      /\ cmd'[d].alone /\ Answered(d)' => Noted(d)' = agent'[i]
                      /\ ~cmd'[d].alone \/ cmd'[d].caller = "failed" => i \in doubt'
    BY DEF AloneInv
  <2>1. d \in LiveOn(i) /\ cmd'[d].on = i /\ Live(d)'
    BY <1>5 DEF LiveOn
  <2>2. cmd'[d].alone = cmd[d].alone
    OBVIOUS
  <2>3. Answered(d)' => Answered(d) /\ Noted(d)' = Noted(d)
    <3>1. Answered(d)' => cmd'[d].answer = cmd[d].answer
      BY DEF Answered
    <3>2. /\ cmd'[d].op = cmd[d].op /\ cmd'[d].on = cmd[d].on
          /\ cmd'[d].level = cmd[d].level
      OBVIOUS
    <3> QED
      BY <3>1, <3>2, NotedSame DEF Answered
  <2>4. cmd'[d].caller = "failed" => cmd[d].caller = "failed" \/ i \in doubt'
    BY <2>1 DEF Live
  <2> QED
    BY <1>1, <1>5, <2>1, <2>2, <2>3, <2>4 DEF AloneInv
<1>7. RegistryInv'
  <2> SUFFICES ASSUME NEW i \in Instances, instances[i] # NoAgent, i \notin doubt',
                      \A d \in LiveOn(i)' : cmd'[d].request # "gone" \/ cmd'[d].answer = "refused",
                      NEW d \in LiveOn(i)
               PROVE  cmd[d].request # "gone" \/ cmd[d].answer = "refused"
    BY <1>1 DEF RegistryInv
  <2>1. CASE d = c
    BY <2>1 DEF LiveOn
  <2>2. CASE d # c
    BY <2>2 DEF LiveOn, Live
  <2> QED
    BY <2>1, <2>2
<1>8. NoAgentIsForgotten'
  <2>1. \A d \in Commands : /\ cmd'[d].op = cmd[d].op /\ cmd'[d].on = cmd[d].on
                            /\ cmd[d].caller \in {"waiting", "failed"} =>
                                 cmd'[d].caller \in {"waiting", "failed"}
    OBVIOUS
  <2> QED
    BY <1>1, <2>1 DEF NoAgentIsForgotten
<1> QED
  BY <1>2, <1>3, <1>6, <1>7, <1>8 DEF AgentsInv

\* The timer: the caller fails, and what the command is about is in doubt.
LEMMA TimeOutStep ==
  ASSUME AgentsInv, NEW c \in Commands, TimeOut(c)
  PROVE  AgentsInv'
<1> DEFINE x == [cmd[c] EXCEPT !.caller = "failed"]
<1>1. TypeOK /\ SocketInv /\ AboutInv /\ cmd[c] \in Record /\ SocketOf(cmd[c])
  BY InstanceFacts DEF AgentsInv, SocketInv
<1>2. /\ cmd[c].caller = "waiting"
      /\ cmd' = [cmd EXCEPT ![c] = x] /\ doubt' = doubt \cup {cmd[c].on}
      /\ UNCHANGED <<agent, instances, crashes>>
  BY DEF TimeOut, Timer, Fails
<1>3. /\ x \in Record
      /\ x.op = cmd[c].op /\ x.on = cmd[c].on
      /\ x.level = cmd[c].level /\ x.caller = "failed"
      /\ x.socket = cmd[c].socket /\ x.request = cmd[c].request
      /\ x.answer = cmd[c].answer /\ x.alone = cmd[c].alone
  BY <1>1 DEF Record, Statuses
<1> HIDE DEF x
<1>4. SocketOf(x)
  BY <1>1, <1>2, <1>3 DEF SocketOf
<1>5. TypeOK' /\ SocketInv' /\ cmd'[c] = x /\ \A d \in Commands \ {c} : cmd'[d] = cmd[d]
  BY <1>1, <1>2, <1>3, <1>4, OneCommand
<1>6. cmd[c].op # "none"
  BY <1>1, <1>2 DEF AboutInv, Unused
<1> QED
  BY <1>1, <1>2, <1>3, <1>5, <1>6, QuietStep DEF Live, SocketOf

\* The socket opens, and sends the request.
LEMMA OpenStep ==
  ASSUME AgentsInv, NEW c \in Commands, Open(c)
  PROVE  AgentsInv'
<1> DEFINE x == [cmd[c] EXCEPT !.socket = "open", !.request = "sent"]
<1>1. TypeOK /\ SocketInv /\ AboutInv /\ cmd[c] \in Record /\ SocketOf(cmd[c])
  BY InstanceFacts DEF AgentsInv, SocketInv
<1>2. /\ cmd[c].socket = "opening"
      /\ cmd' = [cmd EXCEPT ![c] = x] /\ UNCHANGED doubt
      /\ UNCHANGED <<agent, instances, crashes>>
  BY DEF Open
<1>3. /\ x \in Record
      /\ x.op = cmd[c].op /\ x.on = cmd[c].on
      /\ x.level = cmd[c].level /\ x.caller = cmd[c].caller
      /\ x.socket = "open" /\ x.request = "sent"
      /\ x.answer = cmd[c].answer /\ x.alone = cmd[c].alone
  BY <1>1 DEF Record, Statuses
<1> HIDE DEF x
<1>4. SocketOf(x)
  BY <1>1, <1>2, <1>3 DEF SocketOf
<1>5. TypeOK' /\ SocketInv' /\ cmd'[c] = x /\ \A d \in Commands \ {c} : cmd'[d] = cmd[d]
  BY <1>1, <1>2, <1>3, <1>4, OneCommand
<1>6. cmd[c].op # "none"
  BY <1>1, <1>2 DEF AboutInv, Unused
<1> QED
  BY <1>1, <1>2, <1>3, <1>5, <1>6, QuietStep DEF Live, SocketOf

\* The socket breaks: what was to come on it does not.
LEMMA BreakStep ==
  ASSUME AgentsInv, NEW c \in Commands, Break(c)
  PROVE  AgentsInv'
<1>1. TypeOK /\ SocketInv /\ AboutInv /\ cmd[c] \in Record /\ SocketOf(cmd[c])
  BY InstanceFacts DEF AgentsInv, SocketInv
<1>2. PICK hears \in BOOLEAN, lost \in BOOLEAN :
        LET told == hears /\ cmd[c].caller = "waiting" IN
          /\ cmd' = [cmd EXCEPT
               ![c].socket = "closed",
               ![c].answer = "none",
               ![c].request = IF lost \/ @ = "held" THEN "gone" ELSE @,
               ![c].caller = IF told THEN "failed" ELSE @]
          /\ doubt' = IF told THEN doubt \cup {cmd[c].on} ELSE doubt
  BY DEF Break
<1> DEFINE told == hears /\ cmd[c].caller = "waiting"
           request == IF lost \/ cmd[c].request = "held" THEN "gone" ELSE cmd[c].request
           caller == IF told THEN "failed" ELSE cmd[c].caller
           x == [cmd[c] EXCEPT !.socket = "closed", !.answer = "none", !.request = request,
                               !.caller = caller]
<1>3. /\ cmd[c].socket # "closed" /\ UNCHANGED <<agent, instances, crashes>>
      /\ cmd' = [cmd EXCEPT ![c] = x]
      /\ doubt' = IF told THEN doubt \cup {cmd[c].on} ELSE doubt
  BY ZenonT(30), <1>2 DEF Break
<1>4. /\ request \in {"sent", "gone"} /\ (request # "gone" => cmd[c].request = request)
      /\ caller \in {"idle", "waiting", "returned", "failed"}
  BY <1>1 DEF Record
<1>5. /\ told => caller = "failed" /\ cmd[c].caller = "waiting" /\ doubt' = doubt \cup {cmd[c].on}
      /\ ~told => caller = cmd[c].caller /\ doubt' = doubt
  BY <1>3
<1> HIDE DEF request, caller, told
<1>6. /\ x \in Record
      /\ x.op = cmd[c].op /\ x.on = cmd[c].on
      /\ x.level = cmd[c].level /\ x.caller = caller
      /\ x.socket = "closed" /\ x.request = request
      /\ x.answer = "none" /\ x.alone = cmd[c].alone
  <2> DEFINE Ops == {"none", "spawn", "stop", "restart", "status"}
             Ons == Instances \cup {None}
             Picks == Levels \cup {None}
             Calling == {"idle", "waiting", "returned", "failed"}
             Sockets == {"closed", "opening", "open"}
             Requests == {"held", "sent", "gone"}
             Replies == Statuses \cup {"refused", "untold"}
  <2>1. Record = [op : Ops, on : Ons, level : Picks, caller : Calling, socket : Sockets,
                  request : Requests, answer : Replies, alone : BOOLEAN]
    BY DEF Record
  <2>2. "closed" \in Sockets /\ "none" \in Replies /\ request \in Requests /\ caller \in Calling
    BY <1>4 DEF Statuses
  <2> HIDE DEF Ops, Ons, Picks, Calling, Sockets, Requests, Replies
  <2> QED
    BY <1>1, <2>1, <2>2, FieldsChange
<1> HIDE DEF x
<1>7. SocketOf(x)
  BY <1>1, <1>3, <1>4, <1>5, <1>6 DEF SocketOf
<1>8. TypeOK' /\ SocketInv' /\ cmd'[c] = x /\ \A d \in Commands \ {c} : cmd'[d] = cmd[d]
  BY <1>1, <1>3, <1>5, <1>6, <1>7, OneCommand
<1>9. cmd[c].op # "none"
  BY <1>1, <1>3 DEF AboutInv, Unused
<1>10. cmd[c].on \notin doubt' /\ (Live(c)' => request # "gone") =>
         (Live(c) => cmd[c].request # "gone")
  BY <1>4, <1>5, <1>6, <1>8 DEF Live
<1> QED
  BY <1>1, <1>3, <1>4, <1>5, <1>6, <1>8, <1>9, <1>10, QuietStep

\* The gateway refuses.
LEMMA RefuseStep ==
  ASSUME AgentsInv, NEW c \in Commands, Refuse(c)
  PROVE  AgentsInv'
<1> DEFINE reply == Reply(c, "refused")
           x == [cmd[c] EXCEPT !.request = "gone", !.answer = reply]
<1>1. TypeOK /\ SocketInv /\ AboutInv /\ cmd[c] \in Record /\ SocketOf(cmd[c])
  BY InstanceFacts DEF AgentsInv, SocketInv
<1>2. /\ cmd[c].request = "sent"
      /\ cmd' = [cmd EXCEPT ![c] = x] /\ UNCHANGED <<agent, instances, doubt, crashes>>
  BY DEF Refuse
<1>3. reply \in {"none", "refused"} /\ (reply # "none" => cmd[c].socket = "open")
  BY DEF Reply
<1> HIDE DEF reply
<1>4. /\ x \in Record
      /\ x.op = cmd[c].op /\ x.on = cmd[c].on
      /\ x.level = cmd[c].level /\ x.caller = cmd[c].caller
      /\ x.socket = cmd[c].socket /\ x.request = "gone"
      /\ x.answer = reply /\ x.alone = cmd[c].alone
  <2>1. reply \in Statuses \cup {"refused"}
    BY <1>3 DEF Statuses
  <2> QED BY ZenonT(30), <1>1, <2>1 DEF Record
<1> HIDE DEF x
<1>5. SocketOf(x)
  BY <1>1, <1>2, <1>3, <1>4 DEF SocketOf
<1>6. TypeOK' /\ SocketInv' /\ cmd'[c] = x /\ \A d \in Commands \ {c} : cmd'[d] = cmd[d]
  BY <1>1, <1>2, <1>4, <1>5, OneCommand
<1>7. cmd[c].op # "none"
  BY <1>1, <1>2 DEF AboutInv, Unused
<1> QED
  BY <1>1, <1>2, <1>3, <1>4, <1>6, <1>7, QuietStep DEF SocketOf

\* What an answer may say, once it says anything: a spawn's agent runs.
LEMMA AnswerFacts ==
  ASSUME AgentsInv, NEW c \in Commands, cmd[c].answer # "none"
  PROVE  /\ cmd[c] \in Record /\ cmd[c].op # "none" /\ cmd[c].request = "gone"
         /\ cmd[c].answer # "refused" => cmd[c].on \in Instances /\ agent[cmd[c].on] # NoAgent
<1>1. TypeOK /\ SocketInv /\ AboutInv /\ EntriesInv
  BY DEF AgentsInv
<1>2. cmd[c] \in Record /\ (cmd[c].on # None => cmd[c].on \in Instances)
  BY <1>1, InstanceFacts
<1>3. cmd[c].op # "none" /\ cmd[c].request = "gone"
  BY <1>1 DEF AboutInv, Unused, SocketInv, SocketOf
<1>4. cmd[c].answer # "refused" => cmd[c].on # None
  BY <1>1, <1>3 DEF AboutInv
<1>5. cmd[c].answer # "refused" => agent[cmd[c].on] # NoAgent
  BY <1>1, <1>2, <1>3, <1>4 DEF AboutInv, EntriesInv
<1> QED
  BY <1>2, <1>3, <1>4, <1>5

\* What is noted of an answer is an agent, at its level.
LEMMA NotedFacts ==
  ASSUME AgentsInv, NEW c \in Commands, cmd[c].answer \notin {"none", "refused"}
  PROVE  /\ Noted(c) \in AgentRecords /\ Noted(c).status # "none"
         /\ Noted(c).level = agent[cmd[c].on].level
<1>1. TypeOK /\ AboutInv /\ EntriesInv /\ cmd[c] \in Record /\ cmd[c].op # "none"
      /\ cmd[c].on \in Instances /\ agent[cmd[c].on] # NoAgent
  BY AnswerFacts DEF AgentsInv
<1>2. Noted(c).status = CASE cmd[c].op \in {"spawn", "restart"} -> "running"
                          [] cmd[c].op = "stop"                 -> "stopped"
                          [] cmd[c].op = "status"               ->
                               IF cmd[c].answer = "untold" THEN "stopped"
                               ELSE cmd[c].answer
  BY DEF Noted
<1>3. cmd[c].op \in {"spawn", "stop", "restart", "status"} /\ cmd[c].answer \in Statuses \cup {"untold"}
      /\ cmd[c].level \in Levels \cup {None}
  BY <1>1 DEF Record
<1>4. Noted(c).status \in Statuses /\ Noted(c).status # "none"
  BY <1>2, <1>3 DEF Statuses
<1>5. Noted(c).level = IF cmd[c].op = "spawn" THEN Level(cmd[c].level)
                       ELSE instances[cmd[c].on].level
  BY DEF Noted, InstanceLevel
<1>6. Noted(c).level = agent[cmd[c].on].level
  <2>1. CASE cmd[c].op = "spawn"
    BY <1>1, <1>5, <2>1, InstanceFacts DEF AboutInv
  <2>2. CASE cmd[c].op # "spawn"
    BY <1>1, <1>5, <2>2 DEF AboutInv, EntriesInv
  <2> QED
    BY <2>1, <2>2
<1>7. agent[cmd[c].on].level \in Levels \cup {None}
  BY <1>1 DEF TypeOK, AgentRecords
<1>8. PICK s, l : Noted(c) = [status |-> s, level |-> l]
  BY DEF Noted
<1>9. s \in Statuses /\ l \in Levels \cup {None}
  BY <1>4, <1>6, <1>7, <1>8
<1> QED
  BY <1>4, <1>6, <1>8, <1>9 DEF AgentRecords

\* The answer of a command that is waited for is noted, and takes the agent
\* out of doubt if the command was alone.
LEMMA ReturnStep ==
  ASSUME AgentsInv, NEW c \in Commands, Answer(c), cmd[c].caller = "waiting",
         cmd[c].answer # "refused"
  PROVE  AgentsInv'
<1> DEFINE x == [cmd[c] EXCEPT !.socket = "closed", !.answer = "none", !.caller = "returned"]
           on == cmd[c].on
<1>1. TypeOK /\ SocketInv /\ AboutInv /\ EntriesInv /\ AloneInv /\ RegistryInv
      /\ NoAgentIsForgotten /\ SocketOf(cmd[c])
  BY DEF AgentsInv, SocketInv
<1>2. /\ cmd[c].socket = "open" /\ cmd[c].answer \notin {"none", "refused"}
      /\ cmd' = [cmd EXCEPT ![c] = x]
      /\ instances' = [instances EXCEPT ![on] = Noted(c)]
      /\ doubt' = IF cmd[c].answer = "untold" THEN doubt \cup {on}
                  ELSE IF cmd[c].alone THEN doubt \ {on} ELSE doubt
      /\ UNCHANGED <<agent, crashes>>
  BY DEF Answer
<1>3. /\ cmd[c] \in Record /\ cmd[c].op # "none" /\ cmd[c].request = "gone"
      /\ on \in Instances /\ agent[on] # NoAgent
  BY <1>2, AnswerFacts
<1>4. /\ Noted(c) \in AgentRecords /\ Noted(c).status # "none"
      /\ Noted(c).level = agent[on].level
  BY <1>2, NotedFacts
<1>5. /\ x \in Record /\ x.op = cmd[c].op /\ x.on = on /\ x.level = cmd[c].level
      /\ x.caller = "returned" /\ x.socket = "closed" /\ x.request = "gone"
      /\ x.answer = "none" /\ x.alone = cmd[c].alone
  BY <1>3 DEF Record, Statuses
<1> HIDE DEF x, on
<1>6. cmd' \in [Commands -> Record] /\ cmd'[c] = x /\ \A d \in Commands \ {c} : cmd'[d] = cmd[d]
  BY <1>1, <1>2, <1>5 DEF TypeOK, Record
<1>7. /\ instances' \in [Instances -> AgentRecords] /\ instances'[on] = Noted(c)
      /\ \A i \in Instances \ {on} : instances'[i] = instances[i]
  BY <1>1, <1>2, <1>3, <1>4 DEF TypeOK
<1>8. Noted(c) # NoAgent
  BY <1>4 DEF NoAgent
<1>9. TypeOK'
  BY <1>1, <1>2, <1>6, <1>7 DEF TypeOK, Record
<1>10. SocketInv'
  BY <1>1, <1>5, <1>6 DEF SocketInv, SocketOf
<1>11. AboutInv'
  <2>1. /\ cmd'[c].op = cmd[c].op /\ cmd'[c].on = cmd[c].on /\ cmd'[c].level = cmd[c].level
        /\ cmd'[c].alone = cmd[c].alone /\ cmd'[c].answer = "none" /\ cmd'[c].request = "gone"
    BY <1>5, <1>6 DEF on
  <2>2. \A i \in Instances : instances[i] # NoAgent => instances'[i] # NoAgent
    BY <1>7, <1>8
  <2>3. \A d \in Commands : cmd[d].on # None => cmd[d].on \in Instances
    BY <1>1, InstanceFacts
  <2> QED
    BY <1>1, <1>2, <1>3, <1>6, <2>1, <2>2, <2>3 DEF AboutInv
<1>12. EntriesInv'
  BY <1>1, <1>2, <1>3, <1>4, <1>7, <1>8 DEF EntriesInv
<1>13. ~Live(c)' /\ c \in LiveOn(on)
  BY <1>3, <1>5, <1>6 DEF Live, LiveOn, on
<1>14. \A i \in Instances : LiveOn(i)' = LiveOn(i) \ {c}
  BY <1>6, <1>13 DEF LiveOn, Live
<1>15. AloneInv'
  <2> SUFFICES ASSUME NEW d \in Commands, NEW i \in Instances, d \in LiveOn(i)'
               PROVE  /\ cmd'[d].alone => \A e \in LiveOn(i)' : e = d
                      /\ cmd'[d].alone /\ Answered(d)' => Noted(d)' = agent'[i]
                      /\ ~cmd'[d].alone \/ cmd'[d].caller = "failed" => i \in doubt'
    BY DEF AloneInv
  <2>1. d # c /\ d \in LiveOn(i) /\ cmd'[d] = cmd[d] /\ cmd[d].on = i
    BY <1>6, <1>14 DEF LiveOn
  <2>2. CASE i = on
    <3>1. ~cmd[d].alone /\ ~cmd[c].alone
      BY <1>1, <1>3, <1>13, <2>1, <2>2 DEF AloneInv
    <3> QED
      BY <1>1, <1>2, <2>1, <2>2, <3>1 DEF AloneInv
  <2>3. CASE i # on
    <3>1. instances'[i] = instances[i]
      BY <1>7, <2>3
    <3>2. Noted(d)' = Noted(d)
      BY <2>1, <3>1 DEF Noted
    <3>3. i \in doubt => i \in doubt'
      BY <1>2, <2>3
    <3> QED
      BY <1>1, <1>2, <1>14, <2>1, <3>2, <3>3 DEF AloneInv, Answered
  <2> QED
    BY <2>2, <2>3
<1>16. RegistryInv'
  <2> SUFFICES ASSUME NEW i \in Instances, instances'[i] # NoAgent, i \notin doubt',
                      \A d \in LiveOn(i)' : cmd'[d].request # "gone" \/ cmd'[d].answer = "refused"
               PROVE  instances'[i] = agent'[i]
    BY DEF RegistryInv
  <2>1. CASE i = on
    <3>1. cmd[c].alone /\ cmd[c].answer # "untold"
      BY <1>1, <1>2, <1>13, <2>1 DEF AloneInv
    <3> QED
      BY <1>1, <1>2, <1>3, <1>7, <1>13, <2>1, <3>1 DEF AloneInv, Answered
  <2>2. CASE i # on
    <3>1. LiveOn(i)' = LiveOn(i) /\ \A d \in LiveOn(i) : cmd'[d] = cmd[d]
      BY <1>6, <1>14, <2>2 DEF LiveOn, on
    <3>2. i \notin doubt /\ instances'[i] = instances[i]
      BY <1>2, <1>7, <2>2
    <3> QED
      BY <1>1, <1>2, <3>1, <3>2 DEF RegistryInv
  <2> QED
    BY <2>1, <2>2
<1>17. NoAgentIsForgotten'
  <2> SUFFICES ASSUME NEW i \in Instances, agent[i] # NoAgent, instances'[i] = NoAgent
               PROVE  \E d \in Commands : /\ cmd'[d].op = "spawn" /\ cmd'[d].on = i
                                          /\ cmd'[d].caller \in {"waiting", "failed"}
    BY <1>2 DEF NoAgentIsForgotten
  <2>1. i # on /\ instances[i] = NoAgent
    BY <1>7, <1>8
  <2>2. PICK d \in Commands : /\ cmd[d].op = "spawn" /\ cmd[d].on = i
                              /\ cmd[d].caller \in {"waiting", "failed"}
    BY <1>1, <2>1 DEF NoAgentIsForgotten
  <2>3. d # c
    BY <2>1, <2>2 DEF on
  <2> QED
    BY <1>6, <2>2, <2>3
<1> QED
  BY <1>9, <1>10, <1>11, <1>12, <1>15, <1>16, <1>17 DEF AgentsInv

\* An answer that is refused, or that nobody waits for, is not noted.
LEMMA UnnotedStep ==
  ASSUME AgentsInv, NEW c \in Commands, Answer(c),
         cmd[c].caller # "waiting" \/ cmd[c].answer = "refused"
  PROVE  AgentsInv'
<1> DEFINE caller == IF cmd[c].caller = "waiting" THEN "failed" ELSE cmd[c].caller
           x == [cmd[c] EXCEPT !.socket = "closed", !.answer = "none", !.caller = caller]
<1>1. TypeOK /\ SocketInv /\ cmd[c] \in Record /\ SocketOf(cmd[c])
  BY InstanceFacts DEF AgentsInv, SocketInv
<1>2. cmd[c].socket = "open" /\ cmd[c].answer # "none"
      /\ UNCHANGED <<agent, instances, doubt, crashes>>
  BY DEF Answer
<1>3. cmd[c].op # "none" /\ cmd[c].request = "gone"
  BY <1>2, AnswerFacts
<1>4. cmd' = [cmd EXCEPT ![c] = x]
  <2>1. CASE cmd[c].caller = "waiting"
    BY <2>1 DEF Answer
  <2>2. CASE cmd[c].caller # "waiting"
    <3>1. x = [cmd[c] EXCEPT !.socket = "closed", !.answer = "none"]
      BY <1>1, <2>2 DEF Record
    <3> QED
      BY <2>2, <3>1 DEF Answer
  <2> QED
    BY <2>1, <2>2
<1>5. caller \in {"idle", "waiting", "returned", "failed"} /\ caller # "waiting"
      /\ (cmd[c].caller # "waiting" => caller = cmd[c].caller)
      /\ (cmd[c].caller = "waiting" => caller = "failed")
  BY <1>1 DEF Record
<1> HIDE DEF caller
<1>6. /\ x \in Record /\ x.op = cmd[c].op /\ x.on = cmd[c].on /\ x.level = cmd[c].level
      /\ x.caller = caller /\ x.socket = "closed" /\ x.request = "gone"
      /\ x.answer = "none" /\ x.alone = cmd[c].alone
  BY ZenonT(30), <1>1, <1>3, <1>5 DEF Record, Statuses
<1> HIDE DEF x
<1>7. SocketOf(x)
  BY <1>6 DEF SocketOf
<1>8. TypeOK' /\ SocketInv' /\ cmd'[c] = x /\ \A d \in Commands \ {c} : cmd'[d] = cmd[d]
  BY <1>1, <1>2, <1>4, <1>6, <1>7, OneCommand
<1> QED
  BY <1>1, <1>2, <1>3, <1>5, <1>6, <1>8, QuietStep DEF Live

-----------------------------------------------------------------------------
\* The gateway spawns an agent: nothing was about it before.
LEMMA SpawnedStep ==
  ASSUME AgentsInv, NEW c \in Commands, Execute(c), cmd[c].op = "spawn"
  PROVE  AgentsInv'
<1>1. TypeOK /\ SocketInv /\ AboutInv /\ EntriesInv /\ AloneInv /\ RegistryInv
      /\ NoAgentIsForgotten /\ SocketOf(cmd[c]) /\ cmd[c] \in Record
  BY InstanceFacts DEF AgentsInv, SocketInv
<1>2. PICK i \in Instances :
        /\ agent[i] = NoAgent
        /\ agent' = [agent EXCEPT ![i] =
             [status |-> "running", level |-> PayloadLevel(cmd[c].level)]]
        /\ cmd' = [cmd EXCEPT ![c].request = "gone", ![c].on = i, ![c].answer = Reply(c, "running")]
  BY DEF Execute
<1> DEFINE reply == Reply(c, "running")
           level == PayloadLevel(cmd[c].level)
           x == [cmd[c] EXCEPT !.request = "gone", !.on = i, !.answer = reply]
           a == [status |-> "running", level |-> level]
<1>3. /\ cmd[c].request = "sent" /\ UNCHANGED <<instances, doubt, crashes>>
      /\ agent' = [agent EXCEPT ![i] = a] /\ cmd' = [cmd EXCEPT ![c] = x]
  BY ZenonT(30), <1>2 DEF Execute
<1>4. /\ reply \in {"none", "running"} /\ (reply # "none" => cmd[c].socket = "open")
      /\ level = Level(cmd[c].level)
  BY DEF Reply, PayloadLevel
<1>5. level \in Levels
  <2>1. cmd[c].level \in Levels \cup {None}
    BY <1>1 DEF Record
  <2> QED
    BY <1>4, <2>1, AgentsAssumption DEF Level
<1> HIDE DEF reply, level
<1>6. /\ x \in Record /\ x.op = "spawn" /\ x.on = i /\ x.level = cmd[c].level
      /\ x.caller = cmd[c].caller /\ x.socket = cmd[c].socket /\ x.request = "gone"
      /\ x.answer = reply /\ x.alone = cmd[c].alone
  BY ZenonT(30), <1>1, <1>4 DEF Record, Statuses
<1>7. a \in AgentRecords /\ a # NoAgent /\ a.status = "running" /\ a.level = level
  BY <1>5 DEF AgentRecords, Statuses, NoAgent
<1> HIDE DEF x, a
<1>8. cmd' \in [Commands -> Record] /\ cmd'[c] = x /\ \A d \in Commands \ {c} : cmd'[d] = cmd[d]
  BY <1>1, <1>3, <1>6 DEF TypeOK, Record
<1>9. /\ agent' \in [Instances -> AgentRecords] /\ agent'[i] = a
      /\ \A j \in Instances \ {i} : agent'[j] = agent[j]
  BY <1>1, <1>2, <1>3, <1>7 DEF TypeOK
<1>10. cmd[c].on = None /\ cmd[c].caller \in {"waiting", "failed"} /\ cmd[c].alone
  BY <1>1, <1>3 DEF AboutInv, SocketOf
<1>11. None \notin Instances /\ instances[i] = NoAgent
  BY <1>1, <1>2, InstanceFacts DEF EntriesInv
<1>12. \A d \in Commands : cmd[d].on # i
  BY <1>1, <1>2, <1>11 DEF AboutInv, Unused
<1>13. \A j \in Instances : j # i => LiveOn(j)' = LiveOn(j)
  BY <1>6, <1>8, <1>10, <1>11 DEF LiveOn, Live
<1>14. LiveOn(i)' \subseteq {c}
  BY <1>8, <1>12 DEF LiveOn
<1>15. TypeOK'
  BY <1>1, <1>3, <1>8, <1>9 DEF TypeOK, Record
<1>16. SocketInv'
  BY <1>1, <1>3, <1>4, <1>6, <1>8 DEF SocketInv, SocketOf
<1>17. AboutInv'
  <2>1. \A d \in Commands : cmd[d].on # None => cmd[d].on \in Instances
    BY <1>1, InstanceFacts
  <2>2. /\ cmd'[c].op = "spawn" /\ cmd'[c].on = i /\ cmd'[c].level = cmd[c].level
        /\ cmd'[c].request = "gone" /\ cmd'[c].answer \in {"none", "running"}
    BY <1>4, <1>6, <1>8
  <2>3. agent'[i] # NoAgent /\ agent'[i].level = Level(cmd'[c].level)
    BY <1>4, <1>7, <1>9, <2>2
  <2> SUFFICES ASSUME NEW d \in Commands
               PROVE
    /\ cmd'[d].op = "none" => cmd'[d] = Unused
    /\ cmd'[d].op = "spawn" =>
         /\ cmd'[d].answer \in {"none", "refused", "running"}
         /\ cmd'[d].request # "gone" => cmd'[d].on = None
         /\ cmd'[d].answer = "running" => cmd'[d].on # None
         /\ cmd'[d].on = None => cmd'[d].alone
         /\ cmd'[d].on # None => /\ agent'[cmd'[d].on] # NoAgent
                                /\ agent'[cmd'[d].on].level = Level(cmd'[d].level)
    /\ cmd'[d].op \notin {"none", "spawn"} => cmd'[d].on # None /\ instances'[cmd'[d].on] # NoAgent
    BY DEF AboutInv
  <2>4. CASE d = c
    BY <1>11, <2>2, <2>3, <2>4
  <2>5. CASE d # c
    BY <1>1, <1>3, <1>8, <1>9, <1>12, <2>1, <2>5 DEF AboutInv
  <2> QED
    BY <2>4, <2>5
<1>18. EntriesInv'
  BY <1>1, <1>2, <1>3, <1>7, <1>9, <1>11 DEF EntriesInv
<1>19. AloneInv'
  <2> SUFFICES ASSUME NEW d \in Commands, NEW j \in Instances, d \in LiveOn(j)'
               PROVE  /\ cmd'[d].alone => \A e \in LiveOn(j)' : e = d
                      /\ cmd'[d].alone /\ Answered(d)' => Noted(d)' = agent'[j]
                      /\ ~cmd'[d].alone \/ cmd'[d].caller = "failed" => j \in doubt'
    BY DEF AloneInv
  <2>1. CASE j = i
    <3>1. d = c /\ cmd'[d].alone /\ cmd'[d].caller # "failed"
      BY <1>6, <1>8, <1>10, <1>14, <2>1 DEF LiveOn, Live
    <3>2. Noted(d)' = [status |-> "running", level |-> InstanceLevel(cmd'[d].level)]
      BY <1>6, <1>8, <3>1 DEF Noted
    <3>3. InstanceLevel(cmd'[d].level) = level
      BY <1>4, <1>6, <1>8, <3>1 DEF InstanceLevel
    <3> QED
      BY <1>9, <1>14, <2>1, <3>1, <3>2, <3>3 DEF a
  <2>2. CASE j # i
    <3>1. d # c /\ d \in LiveOn(j) /\ cmd'[d] = cmd[d]
      BY <1>6, <1>8, <1>13, <2>2 DEF LiveOn
    <3>2. Noted(d)' = Noted(d)
      BY <1>3, <3>1, NotedUnchanged
    <3> QED
      BY <1>1, <1>3, <1>9, <1>13, <2>2, <3>1, <3>2 DEF AloneInv, Answered
  <2> QED
    BY <2>1, <2>2
<1>20. RegistryInv'
  <2> SUFFICES ASSUME NEW j \in Instances, instances[j] # NoAgent, j \notin doubt,
                      \A d \in LiveOn(j)' : cmd'[d].request # "gone" \/ cmd'[d].answer = "refused"
               PROVE  instances[j] = agent'[j]
    BY <1>3 DEF RegistryInv
  <2>1. j # i /\ LiveOn(j)' = LiveOn(j) /\ agent'[j] = agent[j]
    BY <1>9, <1>11, <1>13
  <2>2. \A d \in LiveOn(j) : cmd'[d] = cmd[d]
    BY <1>8, <1>10, <1>11 DEF LiveOn
  <2> QED
    BY <1>1, <2>1, <2>2 DEF RegistryInv
<1>21. NoAgentIsForgotten'
  <2> SUFFICES ASSUME NEW j \in Instances, agent'[j] # NoAgent, instances[j] = NoAgent
               PROVE  \E d \in Commands : /\ cmd'[d].op = "spawn" /\ cmd'[d].on = j
                                          /\ cmd'[d].caller \in {"waiting", "failed"}
    BY <1>3 DEF NoAgentIsForgotten
  <2>1. CASE j = i
    BY <1>6, <1>8, <1>10, <2>1
  <2>2. CASE j # i
    <3>1. PICK d \in Commands : /\ cmd[d].op = "spawn" /\ cmd[d].on = j
                                /\ cmd[d].caller \in {"waiting", "failed"}
      BY <1>1, <1>9, <2>2 DEF NoAgentIsForgotten
    <3> QED
      BY <1>8, <1>10, <1>11, <3>1
  <2> QED
    BY <2>1, <2>2
<1> QED
  BY <1>15, <1>16, <1>17, <1>18, <1>19, <1>20, <1>21 DEF AgentsInv

\* The gateway carries out a command on an agent of the registry.
LEMMA CarriedOutStep ==
  ASSUME AgentsInv, NEW c \in Commands, Execute(c), cmd[c].op # "spawn"
  PROVE  AgentsInv'
<1>1. TypeOK /\ SocketInv /\ AboutInv /\ EntriesInv /\ AloneInv /\ RegistryInv
      /\ NoAgentIsForgotten /\ SocketOf(cmd[c]) /\ cmd[c] \in Record
  BY InstanceFacts DEF AgentsInv, SocketInv
<1>2. cmd[c].request = "sent" /\ UNCHANGED <<instances, doubt, crashes>>
  BY DEF Execute
<1>3. /\ cmd[c].op \in {"stop", "restart", "status"}
      /\ cmd[c].on \in Instances /\ instances[cmd[c].on] # NoAgent
  BY <1>1, <1>2, InstanceFacts DEF AboutInv, Unused, Record
<1> PICK on \in Instances : on = cmd[c].on
  BY <1>3
<1> DEFINE s == CASE cmd[c].op = "stop"    -> "stopped"
                  [] cmd[c].op = "restart" -> "running"
                  [] cmd[c].op = "status"  -> agent[cmd[c].on].status
           a == [agent[on] EXCEPT !.status = s]
<1>0. PICK said \in {s, "untold"} :
       cmd' = [cmd EXCEPT ![c].request = "gone", ![c].answer = Reply(c, said)]
  BY DEF Execute
<1> DEFINE reply == Reply(c, said)
           x == [cmd[c] EXCEPT !.request = "gone", !.answer = reply]
<1>4. agent' = [agent EXCEPT ![on] = a] /\ cmd' = [cmd EXCEPT ![c] = x]
  BY <1>0 DEF Execute
<1>5. /\ instances[on] # NoAgent /\ agent[on] # NoAgent /\ agent[on] \in AgentRecords
      /\ agent[on].status # "none"
  BY <1>1, <1>3, InstanceFacts DEF EntriesInv
<1>6. s \in Statuses /\ s # "none" /\ s # "untold"
  BY <1>3, <1>5 DEF AgentRecords, Statuses
<1>7. reply \in {"none", "untold", s} /\ (reply # "none" => cmd[c].socket = "open")
      /\ reply \in Statuses \cup {"untold"} /\ reply # "refused"
  BY <1>6 DEF Reply, Statuses
<1>8. /\ cmd[c].op = "restart" => s = "running"
      /\ cmd[c].op = "stop" => s = "stopped"
  BY <1>3
<1> HIDE DEF s, reply
<1>9. a \in AgentRecords /\ a # NoAgent /\ a = [status |-> s, level |-> agent[on].level]
      /\ a.status = s /\ a.level = agent[on].level
  <2>1. PICK t \in Statuses, l \in Levels \cup {None} : agent[on] = [status |-> t, level |-> l]
    BY <1>5 DEF AgentRecords
  <2>2. a = [status |-> s, level |-> l] /\ agent[on].level = l
    BY <2>1
  <2> HIDE DEF a
  <2> QED
    BY <1>6, <2>1, <2>2 DEF AgentRecords, NoAgent
<1> HIDE DEF a
<1>10. /\ x \in Record /\ x.op = cmd[c].op /\ x.on = on /\ x.level = cmd[c].level
       /\ x.caller = cmd[c].caller /\ x.socket = cmd[c].socket /\ x.request = "gone"
       /\ x.answer = reply /\ x.alone = cmd[c].alone
  BY <1>1, <1>7 DEF Record
<1> HIDE DEF x
<1>11. cmd' \in [Commands -> Record] /\ cmd'[c] = x /\ \A d \in Commands \ {c} : cmd'[d] = cmd[d]
  BY <1>1, <1>4, <1>10 DEF TypeOK, Record
<1>12. /\ agent' \in [Instances -> AgentRecords] /\ agent'[on] = a
       /\ \A j \in Instances \ {on} : agent'[j] = agent[j]
  BY <1>1, <1>4, <1>5, <1>9 DEF TypeOK
<1>13. \A j \in Instances : /\ agent'[j].level = agent[j].level
                            /\ agent'[j] # NoAgent <=> agent[j] # NoAgent
  BY <1>5, <1>9, <1>12
<1>14. TypeOK'
  BY <1>1, <1>2, <1>11, <1>12 DEF TypeOK, Record
<1>15. SocketInv'
  BY <1>1, <1>2, <1>7, <1>10, <1>11 DEF SocketInv, SocketOf
<1>16. AboutInv'
  <2>1. \A d \in Commands : cmd[d].on # None => cmd[d].on \in Instances
    BY <1>1, InstanceFacts
  <2>2. cmd'[c].op = cmd[c].op /\ cmd'[c].on = cmd[c].on
    BY <1>10, <1>11
  <2> QED
    BY <1>1, <1>2, <1>3, <1>11, <1>13, <2>1, <2>2 DEF AboutInv
<1>17. EntriesInv'
  BY <1>1, <1>2, <1>5, <1>6, <1>9, <1>12, <1>13 DEF EntriesInv
<1>18. c \in LiveOn(on) /\ (c \in LiveOn(on)' => cmd[c].caller = "waiting")
  BY <1>2, <1>10, <1>11 DEF LiveOn, Live
<1>19. \A j \in Instances : /\ LiveOn(j)' \subseteq LiveOn(j)
                            /\ j # on => LiveOn(j)' = LiveOn(j)
  BY <1>2, <1>10, <1>11 DEF LiveOn, Live
<1>20. AloneInv'
  <2> SUFFICES ASSUME NEW d \in Commands, NEW j \in Instances, d \in LiveOn(j)'
               PROVE  /\ cmd'[d].alone => \A e \in LiveOn(j)' : e = d
                      /\ cmd'[d].alone /\ Answered(d)' => Noted(d)' = agent'[j]
                      /\ ~cmd'[d].alone \/ cmd'[d].caller = "failed" => j \in doubt'
    BY DEF AloneInv
  <2>1. d \in LiveOn(j) /\ cmd'[d].alone = cmd[d].alone /\ cmd'[d].caller = cmd[d].caller
    <3>1. d \in LiveOn(j)
      BY <1>19 DEF LiveOn
    <3>2. CASE d = c
      BY <1>10, <1>11, <3>1, <3>2
    <3>3. CASE d # c
      BY <1>11, <3>1, <3>3
    <3> QED
      BY <3>2, <3>3
  <2>2. cmd'[d].alone /\ Answered(d)' => Noted(d)' = agent'[j]
    <3>1. CASE d = c
      <4>1. j = on /\ (Answered(d)' => cmd'[d].answer = s)
        BY <1>7, <1>10, <1>11, <3>1 DEF LiveOn, Answered
      <4>2. instances'[on].level = agent[on].level
        BY <1>1, <1>2, <1>3, <1>5 DEF EntriesInv
      <4>3. cmd'[d].answer = s => Noted(d)' = [status |-> s, level |-> instances'[on].level]
        BY <1>3, <1>6, <1>8, <1>10, <1>11, <3>1 DEF Noted
      <4> QED
        BY <1>9, <1>12, <4>1, <4>2, <4>3
    <3>2. CASE d # c /\ j = on
      BY <1>1, <1>5, <1>18, <2>1, <3>2 DEF AloneInv
    <3>3. CASE d # c /\ j # on
      <4>1. cmd'[d] = cmd[d] /\ agent'[j] = agent[j]
        BY <1>11, <1>12, <3>3
      <4>2. Noted(d)' = Noted(d)
        BY <1>2, <4>1, NotedUnchanged
      <4> QED
        BY <1>1, <2>1, <4>1, <4>2 DEF AloneInv, Answered
    <3> QED
      BY <3>1, <3>2, <3>3
  <2>3. cmd'[d].alone => \A e \in LiveOn(j)' : e = d
    BY <1>1, <1>19, <2>1 DEF AloneInv, LiveOn
  <2>4. ~cmd'[d].alone \/ cmd'[d].caller = "failed" => j \in doubt'
    BY <1>1, <1>2, <2>1 DEF AloneInv
  <2> QED
    BY <2>2, <2>3, <2>4
<1>21. RegistryInv'
  <2> SUFFICES ASSUME NEW j \in Instances, instances[j] # NoAgent, j \notin doubt,
                      \A d \in LiveOn(j)' : cmd'[d].request # "gone" \/ cmd'[d].answer = "refused"
               PROVE  instances[j] = agent'[j]
    BY <1>2 DEF RegistryInv
  <2>1. CASE j = on
    <3>1. cmd[c].caller # "failed"
      BY <1>1, <1>18, <2>1 DEF AloneInv
    <3>2. cmd'[c].caller = "waiting" /\ cmd'[c].on = j
      BY <1>1, <1>2, <1>10, <1>11, <2>1, <3>1 DEF SocketOf
    <3>3. c \in LiveOn(j)'
      BY <3>2 DEF LiveOn, Live
    <3>4. cmd'[c].request = "gone" /\ cmd'[c].answer # "refused"
      BY <1>7, <1>10, <1>11
    <3> QED
      BY <3>3, <3>4
  <2>2. CASE j # on
    <3>1. \A d \in LiveOn(j) : d # c /\ d \in Commands
      BY <2>2 DEF LiveOn
    <3>2. LiveOn(j)' = LiveOn(j) /\ \A d \in LiveOn(j) : cmd'[d] = cmd[d]
      BY <1>11, <1>19, <2>2, <3>1
    <3>3. agent'[j] = agent[j]
      BY <1>12, <2>2
    <3> QED
      BY <1>1, <3>2, <3>3 DEF RegistryInv
  <2> QED
    BY <2>1, <2>2
<1>22. NoAgentIsForgotten'
  <2>1. \A d \in Commands : /\ cmd'[d].op = cmd[d].op /\ cmd'[d].on = cmd[d].on
                            /\ cmd'[d].caller = cmd[d].caller
    BY <1>10, <1>11
  <2> SUFFICES ASSUME NEW j \in Instances, agent'[j] # NoAgent, instances'[j] = NoAgent
               PROVE  \E d \in Commands : /\ cmd'[d].op = "spawn" /\ cmd'[d].on = j
                                          /\ cmd'[d].caller \in {"waiting", "failed"}
    BY DEF NoAgentIsForgotten
  <2>2. agent[j] # NoAgent /\ instances[j] = NoAgent
    BY <1>2, <1>13
  <2> QED
    BY <1>1, <2>1, <2>2 DEF NoAgentIsForgotten
<1> QED
  BY <1>14, <1>15, <1>16, <1>17, <1>20, <1>21, <1>22 DEF AgentsInv

-----------------------------------------------------------------------------
\* An agent fails by itself: it is in doubt, and no command about it is alone.
LEMMA FailsStep ==
  ASSUME AgentsInv, NEW i \in Instances, AgentFails(i)
  PROVE  AgentsInv'
<1> DEFINE a == [agent[i] EXCEPT !.status = "error"]
<1>1. TypeOK /\ SocketInv /\ AboutInv /\ EntriesInv /\ AloneInv /\ RegistryInv
      /\ NoAgentIsForgotten
  BY DEF AgentsInv
<1>2. /\ agent[i].status = "running" /\ crashes > 0 /\ crashes' = crashes - 1
      /\ agent' = [agent EXCEPT ![i] = a] /\ doubt' = doubt \cup {i} /\ UNCHANGED instances
      /\ cmd' = [c \in Commands |->
                   IF c \in LiveOn(i) THEN [cmd[c] EXCEPT !.alone = FALSE] ELSE cmd[c]]
  BY DEF AgentFails
<1>3. a \in AgentRecords /\ a # NoAgent /\ a.status = "error" /\ a.level = agent[i].level
  <2>1. PICK t \in Statuses, l \in Levels \cup {None} : agent[i] = [status |-> t, level |-> l]
    BY <1>1 DEF TypeOK, AgentRecords
  <2>2. a = [status |-> "error", level |-> l] /\ agent[i].level = l
    BY <2>1
  <2> HIDE DEF a
  <2> QED
    BY <2>1, <2>2 DEF AgentRecords, NoAgent, Statuses
<1> HIDE DEF a
<1>4. /\ agent' \in [Instances -> AgentRecords] /\ agent'[i] = a
      /\ \A j \in Instances \ {i} : agent'[j] = agent[j]
  BY <1>1, <1>2, <1>3 DEF TypeOK
<1>5. \A c \in Commands :
        /\ cmd'[c] \in Record /\ cmd'[c].op = cmd[c].op /\ cmd'[c].on = cmd[c].on
        /\ cmd'[c].level = cmd[c].level /\ cmd'[c].caller = cmd[c].caller
        /\ cmd'[c].socket = cmd[c].socket /\ cmd'[c].request = cmd[c].request
        /\ cmd'[c].answer = cmd[c].answer
        /\ cmd'[c].alone = (cmd[c].alone /\ c \notin LiveOn(i))
        /\ c \notin LiveOn(i) => cmd'[c] = cmd[c]
  <2> SUFFICES ASSUME NEW c \in Commands
               PROVE
        /\ cmd'[c] \in Record /\ cmd'[c].op = cmd[c].op /\ cmd'[c].on = cmd[c].on
        /\ cmd'[c].level = cmd[c].level /\ cmd'[c].caller = cmd[c].caller
        /\ cmd'[c].socket = cmd[c].socket /\ cmd'[c].request = cmd[c].request
        /\ cmd'[c].answer = cmd[c].answer
        /\ cmd'[c].alone = (cmd[c].alone /\ c \notin LiveOn(i))
        /\ c \notin LiveOn(i) => cmd'[c] = cmd[c]
    OBVIOUS
  <2>1. cmd[c] \in Record
    BY <1>1, InstanceFacts
  <2>2. CASE c \in LiveOn(i)
    <3>1. cmd'[c] = [cmd[c] EXCEPT !.alone = FALSE]
      BY <1>2, <2>2
    <3> QED
      BY <2>1, <2>2, <3>1 DEF Record
  <2>3. CASE c \notin LiveOn(i)
    <3>1. cmd'[c] = cmd[c] /\ cmd[c].alone \in BOOLEAN
      BY <1>2, <2>1, <2>3 DEF Record
    <3> QED
      BY <2>1, <2>3, <3>1
  <2> QED
    BY <2>2, <2>3
<1>6. cmd' \in [Commands -> Record]
  <2>1. cmd' = [c \in Commands |-> cmd'[c]]
    BY <1>2
  <2> QED
    BY <1>5, <2>1
<1>7. \A j \in Instances : LiveOn(j)' = LiveOn(j)
  BY <1>5 DEF LiveOn, Live
<1>8. \A j \in Instances : /\ agent'[j].level = agent[j].level
                           /\ agent'[j] # NoAgent <=> agent[j] # NoAgent
  BY <1>2, <1>3, <1>4 DEF NoAgent
<1>9. TypeOK'
  BY <1>1, <1>2, <1>4, <1>6, AgentsAssumption DEF TypeOK, Record
<1>10. SocketInv'
  BY <1>1, <1>5 DEF SocketInv, SocketOf
<1>11. AboutInv'
  <2>1. \A c \in Commands : cmd[c].on # None => cmd[c].on \in Instances
    BY <1>1, InstanceFacts
  <2>2. \A c \in Commands : cmd[c].on = None \/ cmd[c].op = "none" => c \notin LiveOn(i)
    BY <1>1, InstanceFacts DEF AboutInv, LiveOn, Unused
  <2> QED
    BY <1>1, <1>2, <1>5, <1>8, <2>1, <2>2 DEF AboutInv
<1>12. EntriesInv'
  BY <1>1, <1>2, <1>3, <1>4, <1>8 DEF EntriesInv
<1>13. AloneInv'
  <2> SUFFICES ASSUME NEW d \in Commands, NEW j \in Instances, d \in LiveOn(j)'
               PROVE  /\ cmd'[d].alone => \A e \in LiveOn(j)' : e = d
                      /\ cmd'[d].alone /\ Answered(d)' => Noted(d)' = agent'[j]
                      /\ ~cmd'[d].alone \/ cmd'[d].caller = "failed" => j \in doubt'
    BY DEF AloneInv
  <2>1. d \in LiveOn(j)
    BY <1>7
  <2>2. CASE j = i
    BY <1>2, <1>5, <2>1, <2>2
  <2>3. CASE j # i
    <3>1. cmd'[d] = cmd[d] /\ agent'[j] = agent[j]
      BY <1>4, <1>5, <2>1, <2>3 DEF LiveOn
    <3>2. Noted(d)' = Noted(d)
      BY <1>2, <3>1, NotedUnchanged
    <3> QED
      BY <1>1, <1>2, <1>7, <2>1, <3>1, <3>2 DEF AloneInv, Answered, LiveOn
  <2> QED
    BY <2>2, <2>3
<1>14. RegistryInv'
  <2> SUFFICES ASSUME NEW j \in Instances, instances[j] # NoAgent, j \notin doubt',
                      \A d \in LiveOn(j)' : cmd'[d].request # "gone" \/ cmd'[d].answer = "refused"
               PROVE  instances[j] = agent'[j]
    BY <1>2 DEF RegistryInv
  <2>1. j # i /\ j \notin doubt /\ agent'[j] = agent[j]
    BY <1>2, <1>4
  <2>2. \A d \in LiveOn(j) : d \in Commands
    BY DEF LiveOn
  <2> QED
    BY <1>1, <1>5, <1>7, <2>1, <2>2 DEF RegistryInv
<1>15. NoAgentIsForgotten'
  BY <1>1, <1>2, <1>5, <1>8 DEF NoAgentIsForgotten
<1> QED
  BY <1>9, <1>10, <1>11, <1>12, <1>13, <1>14, <1>15 DEF AgentsInv

\* A command as it is given, and as it is when its socket cannot be created.
Given(d, op, on, level) ==
  /\ d \in Record /\ SocketOf(d) /\ d.op = op /\ d.on = on /\ d.level = level
  /\ d.caller = "waiting" /\ d.answer = "none" /\ d.alone = TRUE

\* Every command is so.
LEMMA DispatchFacts ==
  ASSUME NEW op \in {"spawn", "stop", "restart", "status"}, NEW on \in Instances \cup {None},
         NEW level \in Levels \cup {None}, NEW d \in Started(Dispatch(op, on, level))
  PROVE  Given(d, op, on, level)
<1>1. Unused \in Record
  BY DEF Unused, Record, Statuses
<1> DEFINE k == Dispatch(op, on, level)
           n == NoSocket(k)
<1>2. /\ k \in Record /\ k.op = op /\ k.on = on /\ k.level = level /\ k.caller = "waiting"
      /\ k.socket = "opening" /\ k.request = "held"
      /\ k.answer = Unused.answer /\ k.alone = Unused.alone
  <2> DEFINE Ops == {"none", "spawn", "stop", "restart", "status"}
             Ons == Instances \cup {None}
             Picks == Levels \cup {None}
             Calling == {"idle", "waiting", "returned", "failed"}
             Sockets == {"closed", "opening", "open"}
             Requests == {"held", "sent", "gone"}
             Replies == Statuses \cup {"refused", "untold"}
  <2>1. Record = [op : Ops, on : Ons, level : Picks, caller : Calling, socket : Sockets,
                  request : Requests, answer : Replies, alone : BOOLEAN]
    BY DEF Record
  <2>2. op \in Ops /\ "opening" \in Sockets /\ "held" \in Requests /\ "waiting" \in Calling
    OBVIOUS
  <2>3. k = [Unused EXCEPT !.op = op, !.on = on, !.level = level, !.caller = "waiting",
                           !.socket = "opening", !.request = "held"]
    BY DEF Dispatch
  <2> HIDE DEF Ops, Ons, Picks, Calling, Sockets, Requests, Replies, k
  <2>4. on \in Ons /\ level \in Picks
    BY DEF Ons, Picks
  <2> QED
    BY <1>1, <2>1, <2>2, <2>3, <2>4, CommandGiven
<1>3. Unused.answer = "none" /\ Unused.alone = TRUE
  BY DEF Unused
<1> HIDE DEF k
<1>4. n = [k EXCEPT !.socket = "closed", !.request = "gone"]
  BY DEF NoSocket
<1> HIDE DEF n
<1>5. /\ n \in Record /\ n.op = op /\ n.on = on /\ n.level = level /\ n.caller = "waiting"
      /\ n.socket = "closed" /\ n.request = "gone" /\ n.answer = "none" /\ n.alone = TRUE
  BY <1>2, <1>3, <1>4 DEF Record
<1>6. d = k \/ d = n
  BY DEF Started, k, n
<1> QED
  BY <1>2, <1>3, <1>5, <1>6 DEF SocketOf, Given

\* Spawns are given: they are about no agent yet.
LEMMA SpawnsGiven ==
  ASSUME AgentsInv, TypeOK', SocketInv', NEW S \in SUBSET Commands,
         \A c \in S : /\ cmd[c] = Unused /\ cmd'[c].op = "spawn" /\ cmd'[c].on = None
                      /\ cmd'[c].answer = "none" /\ cmd'[c].alone,
         \A c \in Commands \ S : cmd'[c] = cmd[c],
         UNCHANGED <<agent, instances, doubt, crashes>>
  PROVE  AgentsInv'
<1>1. TypeOK /\ SocketInv /\ AboutInv /\ EntriesInv /\ AloneInv /\ RegistryInv
      /\ NoAgentIsForgotten /\ None \notin Instances
  BY InstanceFacts DEF AgentsInv
<1>2. \A c \in S : cmd[c].op = "none" /\ cmd[c].on = None
  BY DEF Unused
<1>3. AboutInv'
  <2> SUFFICES ASSUME NEW d \in Commands
               PROVE
    /\ cmd'[d].op = "none" => cmd'[d] = Unused
    /\ cmd'[d].op = "spawn" =>
         /\ cmd'[d].answer \in {"none", "refused", "running"}
         /\ cmd'[d].request # "gone" => cmd'[d].on = None
         /\ cmd'[d].answer = "running" => cmd'[d].on # None
         /\ cmd'[d].on = None => cmd'[d].alone
         /\ cmd'[d].on # None => /\ agent'[cmd'[d].on] # NoAgent
                                /\ agent'[cmd'[d].on].level = Level(cmd'[d].level)
    /\ cmd'[d].op \notin {"none", "spawn"} => cmd'[d].on # None /\ instances'[cmd'[d].on] # NoAgent
    BY DEF AboutInv
  <2>1. CASE d \in S
    BY <2>1
  <2>2. CASE d \notin S
    BY <1>1, <2>2 DEF AboutInv
  <2> QED
    BY <2>1, <2>2
<1>4. EntriesInv'
  BY <1>1 DEF EntriesInv
<1>5. \A i \in Instances : \A d \in Commands :
        /\ d \in LiveOn(i)' <=> d \in LiveOn(i)
        /\ d \in LiveOn(i) => cmd'[d] = cmd[d]
  BY <1>1, <1>2 DEF LiveOn, Live
<1>6. AloneInv'
  <2> SUFFICES ASSUME NEW d \in Commands, NEW i \in Instances, d \in LiveOn(i)'
               PROVE  /\ cmd'[d].alone => \A e \in LiveOn(i)' : e = d
                      /\ cmd'[d].alone /\ Answered(d)' => Noted(d)' = agent'[i]
                      /\ ~cmd'[d].alone \/ cmd'[d].caller = "failed" => i \in doubt'
    BY DEF AloneInv
  <2>1. d \in LiveOn(i) /\ cmd'[d] = cmd[d]
    BY <1>5
  <2>2. Noted(d)' = Noted(d)
    BY <2>1, NotedUnchanged
  <2>3. \A e \in LiveOn(i)' : e \in Commands
    BY DEF LiveOn
  <2> QED
    BY <1>1, <1>5, <2>1, <2>2, <2>3 DEF AloneInv, Answered
<1>7. RegistryInv'
  <2> SUFFICES ASSUME NEW i \in Instances, instances[i] # NoAgent, i \notin doubt,
                      \A d \in LiveOn(i)' : cmd'[d].request # "gone" \/ cmd'[d].answer = "refused"
               PROVE  instances[i] = agent[i]
    BY DEF RegistryInv
  <2>1. \A e \in LiveOn(i) : e \in Commands
    BY DEF LiveOn
  <2> QED
    BY <1>1, <1>5, <2>1 DEF RegistryInv
<1>8. NoAgentIsForgotten'
  <2> SUFFICES ASSUME NEW i \in Instances, agent[i] # NoAgent, instances[i] = NoAgent
               PROVE  \E d \in Commands : /\ cmd'[d].op = "spawn" /\ cmd'[d].on = i
                                          /\ cmd'[d].caller \in {"waiting", "failed"}
    BY DEF NoAgentIsForgotten
  <2>1. PICK d \in Commands : /\ cmd[d].op = "spawn" /\ cmd[d].on = i
                              /\ cmd[d].caller \in {"waiting", "failed"}
    BY <1>1 DEF NoAgentIsForgotten
  <2>2. cmd'[d] = cmd[d]
    BY <1>2, <2>1
  <2> QED
    BY <2>1, <2>2
<1> QED
  BY <1>3, <1>4, <1>6, <1>7, <1>8 DEF AgentsInv

\* One spawn is given.
LEMMA SpawnStep ==
  ASSUME AgentsInv, NEW c \in Commands, Spawn(c)
  PROVE  AgentsInv'
<1>1. TypeOK /\ SocketInv /\ cmd[c] = Unused /\ UNCHANGED <<agent, instances, doubt, crashes>>
  BY DEF AgentsInv, Spawn, Fresh, Commands
<1>2. PICK level \in Options : \E d \in Started(Dispatch("spawn", None, level)) :
        cmd' = [cmd EXCEPT ![c] = d]
  BY DEF Spawn
<1> PICK d \in Started(Dispatch("spawn", None, level)) : cmd' = [cmd EXCEPT ![c] = d]
  BY <1>2
<1>3. level \in Levels \cup {None}
  BY DEF Options
<1>4. /\ d \in Record /\ SocketOf(d) /\ d.op = "spawn" /\ d.on = None
      /\ d.answer = "none" /\ d.alone = TRUE
  <2>1. "spawn" \in {"spawn", "stop", "restart", "status"} /\ None \in Instances \cup {None}
    OBVIOUS
  <2>2. Given(d, "spawn", None, level)
    BY <1>3, <2>1, DispatchFacts
  <2> QED
    BY <2>2 DEF Given
<1>5. TypeOK' /\ SocketInv' /\ cmd'[c] = d /\ \A e \in Commands \ {c} : cmd'[e] = cmd[e]
  BY <1>1, <1>4, OneCommand
<1>6. {c} \in SUBSET Commands
  OBVIOUS
<1>7. \A e \in {c} : /\ cmd[e] = Unused /\ cmd'[e].op = "spawn" /\ cmd'[e].on = None
                     /\ cmd'[e].answer = "none" /\ cmd'[e].alone
  BY <1>1, <1>4, <1>5
<1> QED
  BY <1>1, <1>5, <1>6, <1>7, SpawnsGiven

\* Two spawns are given together.
LEMMA SpawnManyStep ==
  ASSUME AgentsInv, SpawnMany
  PROVE  AgentsInv'
<1>1. PICK c \in Commands :
        /\ Fresh(c) /\ c + 1 \in Commands
        /\ cmd' = [cmd EXCEPT ![c] = Dispatch("spawn", None, None),
                              ![c + 1] = Dispatch("spawn", None, None)]
  BY DEF SpawnMany
<1>2. TypeOK /\ SocketInv /\ UNCHANGED <<agent, instances, doubt, crashes>>
  BY DEF AgentsInv, SpawnMany
<1> DEFINE d == Dispatch("spawn", None, None)
<1>3. /\ d \in Record /\ SocketOf(d) /\ d.op = "spawn" /\ d.on = None
      /\ d.answer = "none" /\ d.alone = TRUE
  <2>1. /\ "spawn" \in {"spawn", "stop", "restart", "status"}
        /\ None \in Instances \cup {None} /\ None \in Levels \cup {None}
        /\ d \in Started(Dispatch("spawn", None, None))
    BY DEF Started
  <2> HIDE DEF d
  <2>2. Given(d, "spawn", None, None)
    BY <2>1, DispatchFacts
  <2> QED
    BY <2>2 DEF Given
<1> HIDE DEF d
<1>4. cmd[c] = Unused /\ cmd[c + 1] = Unused
  BY <1>1 DEF Fresh, Commands
<1>5. cmd' = [cmd EXCEPT ![c] = d, ![c + 1] = d]
  BY <1>1 DEF d
<1>6. cmd' \in [Commands -> Record] /\ cmd'[c] = d /\ cmd'[c + 1] = d
      /\ \A e \in Commands \ {c, c + 1} : cmd'[e] = cmd[e]
  <2>1. cmd \in [Commands -> Record] /\ c + 1 # c
    BY <1>2 DEF TypeOK, Record, Commands
  <2> QED
    BY <1>1, <1>3, <1>5, <2>1
<1>7. TypeOK'
  BY <1>2, <1>6 DEF TypeOK, Record
<1>8. SocketInv'
  BY <1>2, <1>3, <1>6 DEF SocketInv
<1>9. {c, c + 1} \in SUBSET Commands
  BY <1>1
<1>10. \A e \in {c, c + 1} : /\ cmd[e] = Unused /\ cmd'[e].op = "spawn" /\ cmd'[e].on = None
                             /\ cmd'[e].answer = "none" /\ cmd'[e].alone
  BY <1>3, <1>4, <1>6
<1> QED
  BY <1>2, <1>6, <1>7, <1>8, <1>9, <1>10, SpawnsGiven

\* A command on an agent is given: it is alone if none about it is under way,
\* and otherwise none of them is any more, and the agent is in doubt.
LEMMA CommandStep ==
  ASSUME AgentsInv, NEW c \in Commands, NEW i \in Instances,
         NEW op \in {"stop", "restart", "status"}, Command(c, op, i)
  PROVE  AgentsInv'
<1>1. TypeOK /\ SocketInv /\ AboutInv /\ EntriesInv /\ AloneInv /\ RegistryInv
      /\ NoAgentIsForgotten /\ None \notin Instances
  BY InstanceFacts DEF AgentsInv
<1> DEFINE lone == LiveOn(i) = {}
<1>2. PICK d \in Started(Dispatch(op, i, None)) :
        cmd' = [x \in Commands |->
                  IF x = c THEN [d EXCEPT !.alone = lone]
                  ELSE IF x \in LiveOn(i) THEN [cmd[x] EXCEPT !.alone = FALSE]
                  ELSE cmd[x]]
  BY DEF Command
<1>3. /\ cmd[c] = Unused /\ instances[i] # NoAgent /\ UNCHANGED <<agent, instances, crashes>>
      /\ doubt' = IF lone THEN doubt ELSE doubt \cup {i}
  BY DEF Command, Fresh, Commands
<1>4. lone \in BOOLEAN /\ (~lone => \E x \in Commands : x \in LiveOn(i))
      /\ (lone => \A x \in Commands : x \notin LiveOn(i))
  BY DEF LiveOn
<1> HIDE DEF lone
<1>5. /\ d \in Record /\ SocketOf(d) /\ d.op = op /\ d.on = i
      /\ d.caller = "waiting" /\ d.answer = "none"
  <2>1. /\ op \in {"spawn", "stop", "restart", "status"}
        /\ i \in Instances \cup {None} /\ None \in Levels \cup {None}
    OBVIOUS
  <2>2. Given(d, op, i, None)
    BY <2>1, DispatchFacts
  <2> QED
    BY <2>2 DEF Given
<1>6. /\ cmd'[c] \in Record /\ SocketOf(cmd'[c]) /\ cmd'[c].op = op /\ cmd'[c].on = i
      /\ cmd'[c].caller = "waiting" /\ cmd'[c].answer = "none" /\ cmd'[c].alone = lone
  <2>1. cmd'[c] = [d EXCEPT !.alone = lone]
    BY <1>2
  <2>2. /\ cmd'[c].socket = d.socket /\ cmd'[c].request = d.request
        /\ cmd'[c] \in Record /\ cmd'[c].op = op /\ cmd'[c].on = i
        /\ cmd'[c].caller = "waiting" /\ cmd'[c].answer = "none" /\ cmd'[c].alone = lone
    BY <1>4, <1>5, <2>1 DEF Record
  <2> QED
    BY <1>5, <2>2 DEF SocketOf
<1>7. \A x \in Commands \ {c} :
        /\ cmd'[x] \in Record /\ cmd'[x].op = cmd[x].op /\ cmd'[x].on = cmd[x].on
        /\ cmd'[x].level = cmd[x].level /\ cmd'[x].caller = cmd[x].caller
        /\ cmd'[x].socket = cmd[x].socket /\ cmd'[x].request = cmd[x].request
        /\ cmd'[x].answer = cmd[x].answer
        /\ x \in LiveOn(i) => cmd'[x].alone = FALSE
        /\ x \notin LiveOn(i) => cmd'[x] = cmd[x]
  <2> SUFFICES ASSUME NEW x \in Commands \ {c}
               PROVE
        /\ cmd'[x] \in Record /\ cmd'[x].op = cmd[x].op /\ cmd'[x].on = cmd[x].on
        /\ cmd'[x].level = cmd[x].level /\ cmd'[x].caller = cmd[x].caller
        /\ cmd'[x].socket = cmd[x].socket /\ cmd'[x].request = cmd[x].request
        /\ cmd'[x].answer = cmd[x].answer
        /\ x \in LiveOn(i) => cmd'[x].alone = FALSE
        /\ x \notin LiveOn(i) => cmd'[x] = cmd[x]
    OBVIOUS
  <2>1. cmd[x] \in Record
    BY <1>1, InstanceFacts
  <2>2. CASE x \in LiveOn(i)
    <3>1. cmd'[x] = [cmd[x] EXCEPT !.alone = FALSE]
      BY <1>2, <2>2
    <3> QED
      BY <2>1, <2>2, <3>1 DEF Record
  <2>3. CASE x \notin LiveOn(i)
    <3>1. cmd'[x] = cmd[x]
      BY <1>2, <2>3
    <3> QED
      BY <2>1, <2>3, <3>1
  <2> QED
    BY <2>2, <2>3
<1>8. cmd' \in [Commands -> Record]
  <2>1. cmd' = [x \in Commands |-> cmd'[x]]
    BY <1>2
  <2> QED
    BY <1>6, <1>7, <2>1
<1>9. \A j \in Instances : \A x \in Commands :
        /\ x \in LiveOn(j)' <=> x \in LiveOn(j) \/ (x = c /\ j = i)
        /\ x \in LiveOn(j) => x # c
  BY <1>1, <1>3, <1>6, <1>7 DEF LiveOn, Live, Unused
<1>10. TypeOK'
  BY <1>1, <1>3, <1>8 DEF TypeOK, Record
<1>11. SocketInv'
  BY <1>1, <1>6, <1>7 DEF SocketInv, SocketOf
<1>12. AboutInv'
  <2> SUFFICES ASSUME NEW e \in Commands
               PROVE
    /\ cmd'[e].op = "none" => cmd'[e] = Unused
    /\ cmd'[e].op = "spawn" =>
         /\ cmd'[e].answer \in {"none", "refused", "running"}
         /\ cmd'[e].request # "gone" => cmd'[e].on = None
         /\ cmd'[e].answer = "running" => cmd'[e].on # None
         /\ cmd'[e].on = None => cmd'[e].alone
         /\ cmd'[e].on # None => /\ agent'[cmd'[e].on] # NoAgent
                                /\ agent'[cmd'[e].on].level = Level(cmd'[e].level)
    /\ cmd'[e].op \notin {"none", "spawn"} => cmd'[e].on # None /\ instances'[cmd'[e].on] # NoAgent
    BY DEF AboutInv
  <2>1. CASE e = c
    BY <1>1, <1>3, <1>6, <2>1
  <2>2. CASE e # c
    <3>1. cmd[e].on = None \/ cmd[e].op = "none" => e \notin LiveOn(i)
      BY <1>1 DEF AboutInv, LiveOn, Unused
    <3> QED
      BY <1>1, <1>3, <1>7, <2>2, <3>1 DEF AboutInv
  <2> QED
    BY <2>1, <2>2
<1>13. EntriesInv'
  BY <1>1, <1>3 DEF EntriesInv
<1>14. AloneInv'
  <2> SUFFICES ASSUME NEW e \in Commands, NEW j \in Instances, e \in LiveOn(j)'
               PROVE  /\ cmd'[e].alone => \A x \in LiveOn(j)' : x = e
                      /\ cmd'[e].alone /\ Answered(e)' => Noted(e)' = agent'[j]
                      /\ ~cmd'[e].alone \/ cmd'[e].caller = "failed" => j \in doubt'
    BY DEF AloneInv
  <2>1. \A x \in LiveOn(j)' : x \in Commands
    BY DEF LiveOn
  <2>2. CASE e = c
    <3>1. j = i /\ ~Answered(e)'
      BY <1>6, <1>9, <2>2 DEF Answered
    <3> QED
      BY <1>3, <1>4, <1>6, <1>9, <2>1, <2>2, <3>1
  <2>3. CASE e # c /\ j = i
    BY <1>3, <1>4, <1>7, <1>9, <2>3
  <2>4. CASE e # c /\ j # i
    <3>1. e \in LiveOn(j) /\ cmd'[e] = cmd[e] /\ cmd[e].on = j
      BY <1>7, <1>9, <2>4 DEF LiveOn
    <3>2. Noted(e)' = Noted(e)
      BY <1>3, <3>1, NotedUnchanged
    <3> QED
      BY <1>1, <1>3, <1>9, <2>1, <2>4, <3>1, <3>2 DEF AloneInv, Answered
  <2> QED
    BY <2>2, <2>3, <2>4
<1>15. RegistryInv'
  <2> SUFFICES ASSUME NEW j \in Instances, instances[j] # NoAgent, j \notin doubt',
                      \A x \in LiveOn(j)' : cmd'[x].request # "gone" \/ cmd'[x].answer = "refused"
               PROVE  instances[j] = agent[j]
    BY <1>3 DEF RegistryInv
  <2>1. j \notin doubt /\ \A x \in LiveOn(j) : x \in Commands
    BY <1>3 DEF LiveOn
  <2>2. CASE j = i
    BY <1>1, <1>3, <1>4, <2>1, <2>2 DEF RegistryInv
  <2>3. CASE j # i
    <3>1. \A x \in LiveOn(j) : x \in LiveOn(j)' /\ cmd'[x].request = cmd[x].request
                               /\ cmd'[x].answer = cmd[x].answer
      BY <1>7, <1>9, <2>1
    <3> QED
      BY <1>1, <2>1, <3>1 DEF RegistryInv
  <2> QED
    BY <2>2, <2>3
<1>16. NoAgentIsForgotten'
  <2> SUFFICES ASSUME NEW j \in Instances, agent[j] # NoAgent, instances[j] = NoAgent
               PROVE  \E e \in Commands : /\ cmd'[e].op = "spawn" /\ cmd'[e].on = j
                                          /\ cmd'[e].caller \in {"waiting", "failed"}
    BY <1>3 DEF NoAgentIsForgotten
  <2>1. PICK e \in Commands : /\ cmd[e].op = "spawn" /\ cmd[e].on = j
                              /\ cmd[e].caller \in {"waiting", "failed"}
    BY <1>1 DEF NoAgentIsForgotten
  <2>2. e # c
    BY <1>3, <2>1 DEF Unused
  <2> QED
    BY <1>7, <2>1, <2>2
<1> QED
  BY <1>10, <1>11, <1>12, <1>13, <1>14, <1>15, <1>16 DEF AgentsInv

-----------------------------------------------------------------------------
\* Every step keeps the invariant.
LEMMA AgentsStep == AgentsInv /\ [Next]_vars => AgentsInv'
<1> SUFFICES ASSUME AgentsInv, [Next]_vars PROVE AgentsInv'
  OBVIOUS
<1>1. CASE \E c \in Commands : Execute(c)
  <2>1. PICK c \in Commands : Execute(c)
    BY <1>1
  <2> QED
    BY <2>1, SpawnedStep, CarriedOutStep
<1>2. CASE \E c \in Commands : Answer(c)
  <2>1. PICK c \in Commands : Answer(c)
    BY <1>2
  <2> QED
    BY <2>1, ReturnStep, UnnotedStep
<1>3. CASE \E c \in Commands : Spawn(c) \/ TimeOut(c) \/ Open(c) \/ Break(c) \/ Refuse(c)
  BY <1>3, SpawnStep, TimeOutStep, OpenStep, BreakStep, RefuseStep
<1>4. CASE \E c \in Commands, i \in Instances, op \in {"stop", "restart", "status"} :
             Command(c, op, i)
  BY <1>4, CommandStep
<1>5. CASE SpawnMany
  BY <1>5, SpawnManyStep
<1>6. CASE \E i \in Instances : AgentFails(i)
  BY <1>6, FailsStep
<1>7. CASE UNCHANGED vars
  <2>1. UNCHANGED <<cmd, agent, instances, doubt, crashes>>
    BY <1>7 DEF vars
  <2>2. \A c \in Commands : Noted(c)' = Noted(c)
    BY <2>1, NotedUnchanged
  <2> QED
    BY <2>1, <2>2 DEF AgentsInv, TypeOK, SocketInv, AboutInv, EntriesInv, AloneInv, RegistryInv,
                      NoAgentIsForgotten, Answered, LiveOn, Live
<1> QED
  BY <1>1, <1>2, <1>3, <1>4, <1>5, <1>6, <1>7 DEF Next

\* The invariant of the commands, the agents and the registry.
THEOREM AgentsInvariance == Spec => []AgentsInv
BY AgentsInitial, AgentsStep, PTL DEF Spec

\* Every variable keeps its type.
THEOREM AgentsTypeCorrect == Spec => []TypeOK
<1>1. AgentsInv => TypeOK
  BY DEF AgentsInv
<1> QED
  BY <1>1, AgentsInvariance, PTL

\* An agent that runs at the gateway is in the registry, or its spawn is under
\* way or was reported as failed.
THEOREM AgentsRemembered == Spec => []NoAgentIsForgotten
<1>1. AgentsInv => NoAgentIsForgotten
  BY DEF AgentsInv
<1> QED
  BY <1>1, AgentsInvariance, PTL

\* The registry has the status the gateway has, of an agent that is not in
\* doubt and that no command is about.
THEOREM RegistryCorrect == Spec => []RegistryFollowsGateway
<1>1. AgentsInv => RegistryFollowsGateway
  BY DEF AgentsInv, RegistryInv, RegistryFollowsGateway
<1> QED
  BY <1>1, AgentsInvariance, PTL

-----------------------------------------------------------------------------
(***************************************************************************)
(* What the agents of a channel hear, and where what they answer goes.     *)
(***************************************************************************)
\* A binding is to an agent's Subject; what it heard, and what it is owed,
\* are messages; nothing is owed by an adapter whose Subject has completed.
BoundInv ==
  /\ \A b \in Active : /\ binding[b].agent \in Agents /\ binding[b].by # 0
                       /\ binding[b].subject = stream[binding[b].agent]
                       /\ binding[b].subject # 0
  /\ \A b \in Bindings \ Active : heard[b] = <<>>
  /\ \A b \in Bindings : \A i \in DOMAIN heard[b] : IsMessage(heard[b][i])
  /\ \A u \in Updates : \A b \in owed[u] :
       u <= written /\ b \in Active /\ adapter[binding[b].by].open /\ IsMessage(u)

\* A post is in the conversation of what it answers, and whole.
Returns(m) ==
  LET e == Event(m.of) IN
    /\ m.to = Place(e) \/ (channel.kind = "line" /\ m.to = e.user)
    /\ m.parts # {}
    /\ m.form.parts = {"text"} => m.parts = {"text"}

PostInv ==
  /\ \A m \in posted : Returns(m)
  /\ \A i \in DOMAIN queue : Returns(queue[i])

\* Only a polled channel has intervals and polls; an answer begins where the
\* platform has forgotten what is before.
PollInv ==
  /\ ~ channel.polled => /\ \A a \in Adapters : adapter[a].timers = 0
                         /\ \A p \in Polls : poll[p].by = 0
  /\ \A a \in Adapters : /\ adapter[a].timers > 0 => a <= made
                         /\ adapter[a].last <= written
  /\ \A p \in Polls :
       /\ poll[p].by # 0 => poll[p].from \in 1..(written + 1)
       /\ poll[p].answered =>
            /\ poll[p].by # 0 /\ poll[p].high <= written
            /\ poll[p].from <= poll[p].low /\ poll[p].low <= gone + 1

\* Whatever an adapter has passed on is before what it will ask for next.
OrderInv ==
  /\ HeardInOrder
  /\ channel.polled => \A b \in Active : ~ adapter[binding[b].by].mixed =>
       \A i \in 1..Len(heard[b]) : heard[b][i] <= adapter[binding[b].by].last
  /\ \A p \in Polls : poll[p].by # 0 /\ ~ adapter[poll[p].by].mixed =>
         /\ poll[p].from = adapter[poll[p].by].last + 1
         /\ \A q \in Polls : poll[q].by = poll[p].by => q = p

\* Every binding that is owed u has heard it.
AllHeard(u) == \A b \in owed[u] : \E i \in 1..Len(heard[b]) : heard[b][i] = u

\* The adapter a has been asked to connect, and the platform has answered.
Settled(a) ==
  adapter[a].asked /\ \A c \in Callers : ~ (call[c].at = "asking" /\ call[c].by = a)

\* An adapter that was connected once: its interval is the one it knows, while
\* its Subject is open; it did nothing before, and is not connected as it closes.
OnceConnected(a) ==
  /\ adapter[a].timers > 0 =>
       adapter[a].handle /\ adapter[a].timers = 1 /\ adapter[a].open
  /\ ~ Settled(a) => /\ adapter[a].timers = 0 /\ adapter[a].last = 0
                     /\ \A p \in Polls : poll[p].by # a
  /\ \A c \in Callers : call[c] # NoCall /\ call[c].by = a =>
       /\ call[c].at = "asking" => adapter[a].open
       /\ call[c].at = "telling" => adapter[a].timers = 0

\* With one call at a time and no adapter connected twice, the adapter in the
\* registry is the only one that is open or polls.
SerialInv ==
  ~ overlap =>
    /\ \A c, d \in Callers : call[c] # NoCall /\ call[d] # NoCall => c = d
    /\ \A a \in 1..made : adapter[a].open => a = registered
    /\ \A c \in Callers : call[c] # NoCall =>
         /\ call[c].by = registered
         /\ call[c].at = "disconnected" => ~ adapter[registered].open
    /\ ~ reused => \A a \in Adapters : OnceConnected(a)

\* What is forgotten, and what will be when a poll is met, has been heard.
HeardInv ==
  ~ overlap /\ ~ reused =>
    /\ \A u \in (1..gone) \cup taken : AllHeard(u)
    /\ \A a \in Adapters : adapter[a].timers > 0 =>
         \A u \in 1..adapter[a].last : AllHeard(u)
    /\ \A p \in Polls : poll[p].by # 0 =>
         \A u \in Updates : u < poll[p].from => AllHeard(u)

ChannelsInv ==
  ChannelsTypeOK /\ BoundInv /\ PostInv /\ PollInv /\ OrderInv /\ SerialInv /\ HeardInv

HostType ==
  /\ registered \in 0..made /\ made \in 0..MaxAdapters
  /\ streams \in Nat /\ stream \in [Agents -> 0..streams]
  /\ binding \in [Bindings -> [agent : Agents \cup {Nobody},
                               by : 0..made, subject : 0..streams]]

AdapterType ==
  /\ adapter \in [Adapters -> Fields]
  /\ \A a \in Adapters : adapter[a].handle => adapter[a].timers > 0

CallType ==
  /\ call \in [Callers -> HostCalls]
  /\ \A c \in Callers : call[c] # NoCall => call[c].by \in 1..made

NetType ==
  /\ written \in 0..Len(Events) /\ gone \in 0..written
  /\ taken \subseteq 1..written /\ again \in 0..MaxAgain
  /\ owed \in [Updates -> SUBSET Bindings]

HeardType == heard \in [Bindings -> Seq(1..written)]

OutType == queue \in Seq(Posts) /\ posted \subseteq Posts

RestType ==
  /\ channel \in [kind : Kinds, polled : BOOLEAN] /\ overlap \in BOOLEAN
  /\ reused \in BOOLEAN /\ calls \in Nat

LEMMA TypeParts ==
  ASSUME HostType, AdapterType, CallType, poll \in [Polls -> InFlight],
         NetType, HeardType, OutType, RestType
  PROVE  ChannelsTypeOK
BY DEF HostType, AdapterType, CallType, NetType, HeardType, OutType, RestType,
       ChannelsTypeOK

LEMMA TypePartsNext ==
  ASSUME HostType', AdapterType', CallType', (poll \in [Polls -> InFlight])',
         NetType', HeardType', OutType', RestType'
  PROVE  ChannelsTypeOK'
BY DEF HostType, AdapterType, CallType, NetType, HeardType, OutType, RestType,
       ChannelsTypeOK

LEMMA PartsTyped ==
  ASSUME ChannelsTypeOK
  PROVE  /\ HostType /\ AdapterType /\ CallType /\ NetType /\ HeardType
         /\ OutType /\ RestType /\ poll \in [Polls -> InFlight]
BY DEF HostType, AdapterType, CallType, NetType, HeardType, OutType, RestType,
       ChannelsTypeOK

\* The channel's kind never changes, nor whether the host's calls overlap.
LEMMA ChannelStays ==
  ASSUME ChannelsNext
  PROVE  channel' = channel /\ overlap' = overlap
BY DEF ChannelsNext, Hosts, Works, Register, Connect, Asked, Disconnect, Told,
       Deregister, Bind, Unbind, UnbindAgent, GetAgentStream, Destroy, Write,
       HandleWebhook, Poll, Meet, LosePoll, Receive, RouteOutbound, PollMessages,
       Begins, Lasting

LEMMA MessagesStay ==
  ASSUME channel' = channel
  PROVE  /\ \A u : Event(u)' = Event(u) /\ (IsMessage(u)' <=> IsMessage(u))
         /\ \A u : Answers(u)' = Answers(u)
         /\ Posts' = Posts
         /\ \A m : Returns(m)' <=> Returns(m)
<1>1. \A u : Event(u)' = Event(u)
  BY DEF Event
<1>2. \A u : IsMessage(u)' <=> IsMessage(u)
  BY <1>1 DEF IsMessage
<1>3. \A u : Answers(u)' = Answers(u)
  BY <1>1 DEF Answers
<1>4. Posts' = Posts
  BY <1>1, <1>3 DEF Posts
<1>5. \A m : Returns(m)' <=> Returns(m)
  BY <1>1 DEF Returns
<1> QED BY <1>1, <1>2, <1>3, <1>4, <1>5

LEMMA EventFields ==
  ASSUME RestType, NEW u \in Updates
  PROVE  /\ Event(u).user = Events[u].user
         /\ Event(u).group = IF channel.kind \in Grouped THEN Events[u].group ELSE NoGroup
         /\ Event(u).own \in BOOLEAN
<1>1. Events[u] \in [user : {Events[u].user}, group : {Events[u].group}, own : BOOLEAN]
  BY ChannelsAssumption DEF Updates
<1>2. channel.polled \in BOOLEAN
  BY DEF RestType
<1> QED BY <1>1, <1>2 DEF Event

\* What the adapters send of an agent's answer is where the message was, except
\* on LINE, and what was a text is whole.
LEMMA SendFacts ==
  ASSUME RestType, NEW u \in Updates, IsMessage(u), NEW o \in Answers(u),
         NEW p \in Send(channel.kind, o)
  PROVE  /\ p.to = Place(Event(u)) \/ (channel.kind = "line" /\ p.to = Event(u).user)
         /\ p.parts \in SUBSET {"text", "image", "choices"} /\ p.parts # {}
         /\ o.parts = {"text"} => p.parts = {"text"}
<1> DEFINE e == Event(u)
           m == Inbound(channel.kind, e)
           K == channel.kind
<1>1. e.group = IF K \in Grouped THEN Events[u].group ELSE NoGroup
  BY EventFields
<1>2. m # Dropped
  BY DEF IsMessage
<1>3. K \in {"line", "facebook", "instagram", "tiktok", "whatsapp",
             "telegram", "slack", "discord", "email", "webchat"}
  BY ChannelsAssumption DEF RestType
<1>4. /\ o.recipientId = m.sender /\ o.conversationId = m.conversation
      /\ o.parts \in {{"text"}, {"text", "image"}, {"text", "choices"}}
  BY DEF Answers, BuildReply, Plain, Outbound
<1>5. m.sender = e.user
  BY <1>2, <1>3 DEF Inbound, LineInbound, FacebookInbound, InstagramInbound,
     TikTokInbound, WhatsAppInbound, TelegramInbound, SlackInbound, DiscordInbound,
     EmailInbound, WebChatInbound, Message
<1>6. K \in {"telegram", "slack", "discord"} => m.conversation = Place(e)
  BY <1>2, <1>3 DEF Inbound, TelegramInbound, SlackInbound, DiscordInbound, Message
<1>7. K \notin Grouped => Place(e) = e.user
  BY <1>1 DEF Place
<1>8. p \in Send(K, o)
  OBVIOUS
<1> HIDE DEF e, m, K
<1>9. /\ p.to = Place(e) \/ (K = "line" /\ p.to = e.user)
      /\ p.parts \in SUBSET {"text", "image", "choices"} /\ p.parts # {}
      /\ o.parts = {"text"} => p.parts = {"text"}
  <2>1. CASE K = "line"
    BY <1>4, <1>5, <1>8, <2>1 DEF Send, LineSend, ImageFirst, Post, Refused
  <2>2. CASE K = "facebook"
    BY <1>4, <1>5, <1>7, <1>8, <2>2 DEF Send, FacebookSend, ImageFirst, Post, Grouped
  <2>3. CASE K = "instagram"
    BY <1>4, <1>5, <1>7, <1>8, <2>3 DEF Send, InstagramSend, Post, Grouped
  <2>4. CASE K = "tiktok"
    BY <1>4, <1>5, <1>7, <1>8, <2>4 DEF Send, TikTokSend, Post, Grouped
  <2>5. CASE K = "whatsapp"
    BY <1>4, <1>5, <1>7, <1>8, <2>5 DEF Send, WhatsAppSend, ImageFirst, Post, Grouped
  <2>6. CASE K = "telegram"
    BY <1>4, <1>6, <1>8, <2>6 DEF Send, TelegramSend, Post
  <2>7. CASE K = "slack"
    BY <1>4, <1>6, <1>8, <2>7 DEF Send, SlackSend, Post, Refused
  <2>8. CASE K = "discord"
    BY <1>4, <1>6, <1>8, <2>8 DEF Send, DiscordSend, Post, Refused
  <2>9. CASE K = "email"
    BY <1>8, <2>9 DEF Send, EmailSend, Refused
  <2>10. CASE K = "webchat"
    BY <1>4, <1>5, <1>7, <1>8, <2>10 DEF Send, WebChatSend, Post, Grouped
  <2> QED BY <1>3, <2>1, <2>2, <2>3, <2>4, <2>5, <2>6, <2>7, <2>8, <2>9, <2>10
<1> QED BY <1>9 DEF e, K

-----------------------------------------------------------------------------
\* A set's members in their order are all there, and ascend.
LEMMA AscendingFacts ==
  ASSUME NEW us \in SUBSET Updates, NEW s \in Ascending(us), NEW all, us \subseteq all
  PROVE  /\ s \in Seq(us) /\ s \in Seq(all)
         /\ \A i, j \in 1..Len(s) : i < j => s[i] < s[j]
         /\ \A u \in us : \E i \in 1..Len(s) : s[i] = u
<1> DEFINE n == Cardinality(us)
<1>1. Len(Events) \in Nat /\ IsFiniteSet(1..Len(Events))
  <2>1. Len(Events) \in Nat
    BY ChannelsAssumption
  <2>2. 1 \in Int /\ Len(Events) \in Int
    BY <2>1
  <2> QED BY <2>1, <2>2, FS_Interval
<1>2. IsFiniteSet(us) /\ n \in Nat
  BY <1>1, FS_Subset, FS_CardinalityType DEF Updates
<1>3. s \in [1..n -> us] /\ \A i, j \in 1..n : i < j => s[i] < s[j]
  BY DEF Ascending
<1>4. us \subseteq Nat
  BY <1>1 DEF Updates
<1>5. s \in Seq(us) /\ s \in Seq(all) /\ Len(s) = n
  <2>1. s \in [1..n -> all]
    BY <1>3
  <2> QED BY <1>2, <1>3, <2>1
<1>6. \A i, j \in 1..n : s[i] = s[j] => i = j
  <2> SUFFICES ASSUME NEW i \in 1..n, NEW j \in 1..n, s[i] = s[j], i # j
               PROVE  FALSE
    OBVIOUS
  <2>1. s[i] \in Nat /\ s[j] \in Nat
    BY <1>3, <1>4
  <2>2. i < j \/ j < i
    BY <1>2
  <2> QED BY <1>3, <2>1, <2>2
<1>7. s \in Injection(1..n, us)
  BY <1>3, <1>6, Zenon DEF Injection, IsInjective
<1>8. Cardinality(1..n) = n
  BY <1>2, FS_Interval
<1>9. s \in Surjection(1..n, us)
  BY <1>2, <1>7, <1>8, FS_Injection
<1>10. \A u \in us : \E i \in 1..n : s[i] = u
  BY <1>9 DEF Surjection
<1> QED BY <1>3, <1>5, <1>10

\* What a Subject emits is added, in its order, to what its bindings heard.
LEMMA EmitFacts ==
  ASSUME HeardType, NetType, NEW a, NEW us, us \subseteq 1..written, Emit(a, us)
  PROVE  /\ heard' \in [Bindings -> Seq(1..written)]
         /\ \A b \in Bindings :
              /\ Len(heard[b]) \in Nat /\ Len(heard'[b]) \in Nat
              /\ Len(heard[b]) <= Len(heard'[b])
              /\ \A i \in 1..Len(heard[b]) : heard'[b][i] = heard[b][i]
              /\ ~ Hears(b, a) => heard'[b] = heard[b]
              /\ \A i \in 1..Len(heard'[b]) : i > Len(heard[b]) =>
                   Hears(b, a) /\ heard'[b][i] \in us /\ IsMessage(heard'[b][i])
              /\ \A i, j \in 1..Len(heard'[b]) :
                   Len(heard[b]) < i /\ i < j => heard'[b][i] < heard'[b][j]
<1> DEFINE ms == {u \in us : IsMessage(u)}
<1>1. Len(Events) \in Nat /\ written \in Nat /\ 1..written \subseteq Updates
  BY ChannelsAssumption DEF NetType, Updates
<1>2. PICK s \in Ascending(ms) :
        heard' = [b \in Bindings |-> IF Hears(b, a) THEN heard[b] \o s ELSE heard[b]]
  BY DEF Emit
<1>3. ms \in SUBSET Updates
  BY <1>1
<1>4. /\ s \in Seq(ms) /\ s \in Seq(1..written)
      /\ \A i, j \in 1..Len(s) : i < j => s[i] < s[j]
      /\ \A u \in ms : \E i \in 1..Len(s) : s[i] = u
  <2>1. ms \subseteq 1..written
    OBVIOUS
  <2> QED BY <1>2, <1>3, <2>1, AscendingFacts
<1>5. s \in Seq(1..written)
  BY <1>4
<1>6. heard \in [Bindings -> Seq(1..written)]
  BY DEF HeardType
<1>7. heard' \in [Bindings -> Seq(1..written)]
  <2>1. \A b \in Bindings : heard[b] \in Seq(1..written) /\ heard[b] \o s \in Seq(1..written)
    BY <1>5, <1>6
  <2> QED BY <1>2, <2>1
<1> SUFFICES ASSUME NEW b \in Bindings
             PROVE  /\ Len(heard[b]) \in Nat /\ Len(heard'[b]) \in Nat
                    /\ Len(heard[b]) <= Len(heard'[b])
                    /\ \A i \in 1..Len(heard[b]) : heard'[b][i] = heard[b][i]
                    /\ ~ Hears(b, a) => heard'[b] = heard[b]
                    /\ \A i \in 1..Len(heard'[b]) : i > Len(heard[b]) =>
                         Hears(b, a) /\ heard'[b][i] \in us /\ IsMessage(heard'[b][i])
                    /\ \A i, j \in 1..Len(heard'[b]) :
                         Len(heard[b]) < i /\ i < j => heard'[b][i] < heard'[b][j]
  BY <1>7
<1>8. heard[b] \in Seq(1..written) /\ heard'[b] \in Seq(1..written)
  BY <1>6, <1>7
<1>9. CASE ~ Hears(b, a)
  <2>1. heard'[b] = heard[b]
    BY <1>2, <1>9
  <2>2. Len(heard[b]) \in Nat
    BY <1>8
  <2> QED BY <1>9, <2>1, <2>2
<1>10. CASE Hears(b, a)
  <2> DEFINE h == heard[b]
             k == heard'[b]
  <2>1. k = h \o s
    BY <1>2, <1>10
  <2>2. h \in Seq(1..written) /\ s \in Seq(1..written) /\ s \in Seq(ms)
    BY <1>4, <1>5, <1>8
  <2> HIDE DEF h, k
  <2>3. /\ Len(h) \in Nat /\ Len(s) \in Nat /\ Len(k) = Len(h) + Len(s)
        /\ \A i \in 1..Len(h) : k[i] = h[i]
        /\ \A i \in 1..Len(k) : i > Len(h) => i - Len(h) \in 1..Len(s) /\ k[i] = s[i - Len(h)]
        /\ \A i \in 1..Len(s) : i + Len(h) \in 1..Len(k) /\ k[i + Len(h)] = s[i]
    BY <2>1, <2>2
  <2>4. \A i \in 1..Len(s) : s[i] \in ms
    BY <2>2
  <2>5. \A i \in 1..Len(k) : i > Len(h) => k[i] \in ms
    BY <2>3, <2>4
  <2>6. ASSUME NEW i \in 1..Len(k), NEW j \in 1..Len(k), Len(h) < i /\ i < j
        PROVE  k[i] < k[j]
    <3>1. i - Len(h) \in 1..Len(s) /\ j - Len(h) \in 1..Len(s) /\ i - Len(h) < j - Len(h)
          /\ k[i] = s[i - Len(h)] /\ k[j] = s[j - Len(h)]
      BY <2>3, <2>6
    <3> QED BY <1>4, <3>1
  <2>7. Len(k) \in Nat /\ Len(h) <= Len(k)
    BY <2>3
  <2> QED BY <1>10, <2>3, <2>5, <2>6, <2>7 DEF h, k
<1> QED BY <1>9, <1>10

\* setConnected, and startPolling when the channel is polled.
LEMMA ConnectedFacts ==
  ASSUME AdapterType, RestType, NEW a \in Adapters, Connected(a)
  PROVE  /\ AdapterType'
         /\ \A d \in Adapters : d # a => adapter'[d] = adapter[d]
         /\ \A d \in Adapters : /\ adapter'[d].open = adapter[d].open
                                /\ adapter'[d].last = adapter[d].last
                                /\ adapter'[d].mixed = adapter[d].mixed
         /\ adapter'[a].asked
         /\ adapter'[a].handle = channel.polled
         /\ adapter'[a].timers = IF channel.polled THEN adapter[a].timers + 1
                                 ELSE adapter[a].timers
<1> DEFINE f == [adapter[a] EXCEPT
                   !.status = "connected",
                   !.timers = IF channel.polled THEN @ + 1 ELSE @,
                   !.handle = channel.polled,
                   !.asked = TRUE]
<1>1. adapter[a] \in Fields /\ channel.polled \in BOOLEAN
  BY DEF AdapterType, RestType
<1>2. adapter' = [adapter EXCEPT ![a] = f]
  BY DEF Connected
<1>3. /\ f \in Fields
      /\ f.open = adapter[a].open /\ f.last = adapter[a].last /\ f.mixed = adapter[a].mixed
      /\ f.asked /\ f.handle = channel.polled
      /\ f.timers = IF channel.polled THEN adapter[a].timers + 1 ELSE adapter[a].timers
      /\ f.handle => f.timers > 0
  <2>1. CASE channel.polled
    <3>1. adapter[a].timers + 1 \in Nat /\ adapter[a].timers + 1 > 0
      BY <1>1 DEF Fields
    <3> QED BY <1>1, <2>1, <3>1 DEF Fields
  <2>2. CASE ~ channel.polled
    BY <1>1, <2>2 DEF Fields
  <2> QED BY <2>1, <2>2
<1> HIDE DEF f
<1>4. /\ adapter' \in [Adapters -> Fields] /\ adapter'[a] = f
      /\ \A d \in Adapters : d # a => adapter'[d] = adapter[d]
  BY <1>2, <1>3 DEF AdapterType
<1> QED BY <1>3, <1>4 DEF AdapterType, Fields

\* What is asked before the platform answers, or after it refused.
LEMMA StatusFacts ==
  ASSUME AdapterType, NEW a \in Adapters, NEW s \in {"initializing", "error"},
         NEW q \in BOOLEAN,
         adapter' = [adapter EXCEPT ![a] = [@ EXCEPT !.status = s, !.asked = q]]
  PROVE  /\ AdapterType'
         /\ \A d \in Adapters : d # a => adapter'[d] = adapter[d]
         /\ \A d \in Adapters : /\ adapter'[d].open = adapter[d].open
                                /\ adapter'[d].last = adapter[d].last
                                /\ adapter'[d].mixed = adapter[d].mixed
                                /\ adapter'[d].timers = adapter[d].timers
                                /\ adapter'[d].handle = adapter[d].handle
         /\ adapter'[a].asked = q
<1> DEFINE f == [adapter[a] EXCEPT !.status = s, !.asked = q]
<1>1. adapter[a] \in Fields
  BY DEF AdapterType
<1>2. adapter' = [adapter EXCEPT ![a] = f]
  OBVIOUS
<1>3. /\ f \in Fields
      /\ f.open = adapter[a].open /\ f.last = adapter[a].last /\ f.mixed = adapter[a].mixed
      /\ f.timers = adapter[a].timers /\ f.handle = adapter[a].handle /\ f.asked = q
  BY <1>1 DEF Fields
<1> HIDE DEF f
<1>4. /\ adapter' \in [Adapters -> Fields] /\ adapter'[a] = f
      /\ \A d \in Adapters : d # a => adapter'[d] = adapter[d]
  BY <1>2, <1>3 DEF AdapterType
<1> QED BY <1>3, <1>4 DEF AdapterType

\* clearInterval takes the interval the adapter knows.
LEMMA StopFacts ==
  ASSUME AdapterType, NEW a \in Adapters, NEW n, n = StopPolling(a)
  PROVE  /\ n \in [Adapters -> Fields]
         /\ \A d \in Adapters : d # a => n[d] = adapter[d]
         /\ \A d \in Adapters : /\ n[d].open = adapter[d].open
                                /\ n[d].last = adapter[d].last
                                /\ n[d].mixed = adapter[d].mixed
                                /\ n[d].asked = adapter[d].asked
         /\ n[a].timers = IF adapter[a].handle THEN adapter[a].timers - 1
                          ELSE adapter[a].timers
         /\ n[a].handle = FALSE
<1> DEFINE f == [adapter[a] EXCEPT
                   !.timers = IF adapter[a].handle THEN @ - 1 ELSE @,
                   !.handle = FALSE]
<1>1. adapter[a] \in Fields /\ (adapter[a].handle => adapter[a].timers > 0)
  BY DEF AdapterType
<1>2. n = [adapter EXCEPT ![a] = f]
  BY DEF StopPolling
<1>3. /\ f \in Fields
      /\ f.open = adapter[a].open /\ f.last = adapter[a].last /\ f.mixed = adapter[a].mixed
      /\ f.asked = adapter[a].asked /\ f.handle = FALSE
      /\ f.timers = IF adapter[a].handle THEN adapter[a].timers - 1 ELSE adapter[a].timers
  <2>1. CASE adapter[a].handle
    <3>1. adapter[a].timers - 1 \in Nat
      BY <1>1, <2>1 DEF Fields
    <3> QED BY <1>1, <2>1, <3>1 DEF Fields
  <2>2. CASE ~ adapter[a].handle
    BY <1>1, <2>2 DEF Fields
  <2> QED BY <2>1, <2>2
<1> HIDE DEF f
<1>4. /\ n \in [Adapters -> Fields] /\ n[a] = f
      /\ \A d \in Adapters : d # a => n[d] = adapter[d]
  BY <1>2, <1>3 DEF AdapterType
<1> QED BY <1>3, <1>4 DEF AdapterType

-----------------------------------------------------------------------------
(***************************************************************************)
(* What each step changes.                                                 *)
(***************************************************************************)
LEMMA MadeAdapters ==
  ASSUME HostType
  PROVE  made \in Nat /\ registered \in Nat /\ 1..made \subseteq Adapters
BY ChannelsAssumption DEF HostType, Adapters

\* connect: the adapter in the registry is asked, or is connected at once.
LEMMA ConnectFacts ==
  ASSUME HostType, AdapterType, RestType, NEW c \in Callers, Connect(c)
  PROVE  /\ registered \in 1..made /\ registered \in Adapters
         /\ AdapterType'
         /\ \A d \in Adapters : d # registered => adapter'[d] = adapter[d]
         /\ \A d \in Adapters : /\ adapter'[d].open = adapter[d].open
                                /\ adapter'[d].last = adapter[d].last
                                /\ adapter'[d].mixed = adapter[d].mixed
         /\ adapter'[registered].asked
         /\ \/ /\ adapter'[registered].timers = adapter[registered].timers
               /\ call' = [call EXCEPT ![c] =
                            [op |-> "connect", by |-> registered, at |-> "asking"]]
            \/ /\ adapter'[registered].handle = channel.polled
               /\ adapter'[registered].timers =
                    IF channel.polled THEN adapter[registered].timers + 1
                    ELSE adapter[registered].timers
               /\ call' = call
<1>1. registered \in 1..made /\ registered \in Adapters
  BY MadeAdapters DEF Connect, HostType
<1>2. \/ /\ adapter' = [adapter EXCEPT ![registered].status = "initializing",
                                        ![registered].asked = TRUE]
         /\ call' = [call EXCEPT ![c] =
                            [op |-> "connect", by |-> registered, at |-> "asking"]]
      \/ Connected(registered) /\ call' = call
  BY DEF Connect, Goto
<1>3. CASE adapter' = [adapter EXCEPT ![registered].status = "initializing",
                                        ![registered].asked = TRUE]
           /\ call' = [call EXCEPT ![c] =
                            [op |-> "connect", by |-> registered, at |-> "asking"]]
  <2>1. adapter' = [adapter EXCEPT ![registered] =
                      [@ EXCEPT !.status = "initializing", !.asked = TRUE]]
    BY <1>3
  <2> QED BY <1>1, <1>3, <2>1, StatusFacts
<1>4. CASE Connected(registered) /\ call' = call
  BY <1>1, <1>4, ConnectedFacts
<1> QED BY <1>2, <1>3, <1>4

\* The platform's answer: the adapter is connected, or in error.
LEMMA AskedFacts ==
  ASSUME HostType, AdapterType, CallType, RestType, NEW c \in Callers, Asked(c),
         NEW a, a = call[c].by
  PROVE  /\ call[c] # NoCall /\ a \in 1..made /\ a \in Adapters
         /\ AdapterType'
         /\ \A d \in Adapters : d # a => adapter'[d] = adapter[d]
         /\ \A d \in Adapters : /\ adapter'[d].open = adapter[d].open
                                /\ adapter'[d].last = adapter[d].last
                                /\ adapter'[d].mixed = adapter[d].mixed
         /\ adapter[a].asked => adapter'[a].asked
         /\ \/ /\ adapter'[a].timers = adapter[a].timers
               /\ adapter'[a].handle = adapter[a].handle
            \/ /\ adapter'[a].handle = channel.polled /\ adapter'[a].asked
               /\ adapter'[a].timers = IF channel.polled THEN adapter[a].timers + 1
                                       ELSE adapter[a].timers
<1>1. call[c] # NoCall
  BY DEF Asked, NoCall
<1>2. a \in 1..made /\ a \in Adapters
  BY <1>1, MadeAdapters DEF CallType
<1>3. Connected(a) \/ adapter' = [adapter EXCEPT ![a].status = "error"]
  BY DEF Asked
<1>4. CASE Connected(a)
  BY <1>1, <1>2, <1>4, ConnectedFacts
<1>5. CASE adapter' = [adapter EXCEPT ![a].status = "error"]
  <2>1. adapter[a] \in Fields
    BY <1>2 DEF AdapterType
  <2>2. [adapter[a] EXCEPT !.status = "error"]
          = [adapter[a] EXCEPT !.status = "error", !.asked = adapter[a].asked]
    BY <2>1 DEF Fields
  <2>3. adapter' = [adapter EXCEPT ![a] =
                      [@ EXCEPT !.status = "error", !.asked = adapter[a].asked]]
    BY <1>5, <2>2
  <2>4. adapter[a].asked \in BOOLEAN
    BY <2>1 DEF Fields
  <2> QED BY <1>1, <1>2, <2>3, <2>4, StatusFacts
<1> QED BY <1>3, <1>4, <1>5

\* Adapter a's Subject completes, and what its bindings are owed is forgiven.
Completes(a) ==
  /\ adapter'[a].open = FALSE
  /\ owed' = [u \in DOMAIN owed |-> owed[u] \ Subscribed(a)]

LEMMA CloseFacts ==
  ASSUME NEW g \in [Adapters -> Fields], NEW a \in Adapters, Close(a, g)
  PROVE  /\ adapter' \in [Adapters -> Fields]
         /\ \A d \in Adapters : d # a => adapter'[d] = g[d]
         /\ \A d \in Adapters : /\ adapter'[d].last = g[d].last
                                /\ adapter'[d].mixed = g[d].mixed
                                /\ adapter'[d].asked = g[d].asked
                                /\ adapter'[d].timers = g[d].timers
                                /\ adapter'[d].handle = g[d].handle
         /\ Completes(a)
         /\ queue' = <<>> \/ queue' = queue
<1> DEFINE f == [g[a] EXCEPT !.status = "disconnected", !.open = FALSE]
<1>1. adapter' = [g EXCEPT ![a] = f]
  BY DEF Close, Closed
<1>2. /\ f \in Fields
      /\ f.last = g[a].last /\ f.mixed = g[a].mixed /\ f.timers = g[a].timers
      /\ f.asked = g[a].asked /\ f.handle = g[a].handle /\ f.open = FALSE
  <2>1. g[a] \in Fields
    OBVIOUS
  <2> QED BY <2>1 DEF Fields
<1> HIDE DEF f
<1>3. adapter'[a] = f /\ \A d \in Adapters : d # a => adapter'[d] = g[d]
  BY <1>1
<1>4. adapter' \in [Adapters -> Fields]
  BY <1>1, <1>2
<1>5. queue' = <<>> \/ queue' = queue
  BY DEF Close
<1>6. owed' = [u \in DOMAIN owed |-> owed[u] \ Subscribed(a)]
  BY DEF Close, Forgive
<1> QED BY <1>2, <1>3, <1>4, <1>5, <1>6 DEF Completes

\* disconnect: the interval the adapter knows is cleared, and then or when the
\* platform has been told the Subject completes.
LEMMA DisconnectFacts ==
  ASSUME HostType, AdapterType, NEW c \in Callers, Disconnect(c)
  PROVE  /\ registered \in 1..made /\ registered \in Adapters
         /\ AdapterType'
         /\ \A d \in Adapters : d # registered => adapter'[d] = adapter[d]
         /\ \A d \in Adapters : /\ adapter'[d].last = adapter[d].last
                                /\ adapter'[d].mixed = adapter[d].mixed
                                /\ adapter'[d].asked = adapter[d].asked
         /\ adapter'[registered].timers =
              IF adapter[registered].handle THEN adapter[registered].timers - 1
              ELSE adapter[registered].timers
         /\ \E op \in {"disconnect", "unregister", "disconnectAll"} :
              \/ /\ adapter'[registered].open = adapter[registered].open
                 /\ call' = [call EXCEPT ![c] =
                               [op |-> op, by |-> registered, at |-> "telling"]]
                 /\ owed' = owed /\ queue' = queue
              \/ /\ Completes(registered)
                 /\ queue' = <<>> \/ queue' = queue
                 /\ \/ call' = call
                    \/ call' = [call EXCEPT ![c] =
                         [op |-> op, by |-> registered, at |-> "disconnected"]]
<1> DEFINE a == registered
           g == StopPolling(registered)
<1>1. a \in 1..made /\ a \in Adapters
  BY MadeAdapters DEF Disconnect, HostType
<1>2. /\ g \in [Adapters -> Fields]
      /\ \A d \in Adapters : d # a => g[d] = adapter[d]
      /\ \A d \in Adapters : /\ g[d].open = adapter[d].open
                             /\ g[d].last = adapter[d].last
                             /\ g[d].mixed = adapter[d].mixed
                             /\ g[d].asked = adapter[d].asked
      /\ g[a].timers = IF adapter[a].handle THEN adapter[a].timers - 1
                       ELSE adapter[a].timers
      /\ g[a].handle = FALSE
  BY <1>1, StopFacts
<1>3. PICK op \in {"disconnect", "unregister", "disconnectAll"} :
        \/ /\ adapter' = g
           /\ call' = [call EXCEPT ![c] = [op |-> op, by |-> a, at |-> "telling"]]
           /\ owed' = owed /\ queue' = queue
        \/ /\ Close(a, g)
           /\ \/ call' = call
              \/ call' = [call EXCEPT ![c] = [op |-> op, by |-> a, at |-> "disconnected"]]
  BY DEF Disconnect, Goto
<1> HIDE DEF g
<1>4. CASE /\ adapter' = g
           /\ call' = [call EXCEPT ![c] = [op |-> op, by |-> a, at |-> "telling"]]
           /\ owed' = owed /\ queue' = queue
  <2>1. AdapterType'
    BY <1>1, <1>2, <1>4 DEF AdapterType
  <2> QED BY <1>1, <1>2, <1>4, <2>1
<1>5. CASE /\ Close(a, g)
           /\ \/ call' = call
              \/ call' = [call EXCEPT ![c] = [op |-> op, by |-> a, at |-> "disconnected"]]
  <2>1. /\ adapter' \in [Adapters -> Fields]
        /\ \A d \in Adapters : d # a => adapter'[d] = g[d]
        /\ \A d \in Adapters : /\ adapter'[d].last = g[d].last
                               /\ adapter'[d].mixed = g[d].mixed
                               /\ adapter'[d].asked = g[d].asked
                               /\ adapter'[d].timers = g[d].timers
                               /\ adapter'[d].handle = g[d].handle
        /\ Completes(a)
        /\ queue' = <<>> \/ queue' = queue
    BY <1>1, <1>2, <1>5, CloseFacts
  <2>2. AdapterType'
    BY <1>1, <1>2, <2>1 DEF AdapterType
  <2> QED BY <1>1, <1>2, <1>5, <2>1, <2>2
<1> QED BY <1>3, <1>4, <1>5

LEMMA ToldFacts ==
  ASSUME HostType, AdapterType, CallType, NEW c \in Callers, Told(c),
         NEW a, a = call[c].by
  PROVE  /\ call[c] # NoCall /\ a \in 1..made /\ a \in Adapters
         /\ AdapterType'
         /\ \A d \in Adapters : d # a => adapter'[d] = adapter[d]
         /\ \A d \in Adapters : /\ adapter'[d].last = adapter[d].last
                                /\ adapter'[d].mixed = adapter[d].mixed
                                /\ adapter'[d].asked = adapter[d].asked
                                /\ adapter'[d].timers = adapter[d].timers
                                /\ adapter'[d].handle = adapter[d].handle
         /\ Completes(a)
         /\ queue' = <<>> \/ queue' = queue
         /\ \/ call' = [call EXCEPT ![c] = NoCall]
            \/ call' = [call EXCEPT ![c] =
                 [op |-> call[c].op, by |-> a, at |-> "disconnected"]]
<1>1. call[c] # NoCall
  BY DEF Told, NoCall
<1>2. a \in 1..made /\ a \in Adapters
  BY <1>1, MadeAdapters DEF CallType
<1>3. adapter \in [Adapters -> Fields] /\ Close(a, adapter)
  BY DEF Told, AdapterType
<1>4. /\ adapter' \in [Adapters -> Fields]
      /\ \A d \in Adapters : d # a => adapter'[d] = adapter[d]
      /\ \A d \in Adapters : /\ adapter'[d].last = adapter[d].last
                             /\ adapter'[d].mixed = adapter[d].mixed
                             /\ adapter'[d].asked = adapter[d].asked
                             /\ adapter'[d].timers = adapter[d].timers
                             /\ adapter'[d].handle = adapter[d].handle
      /\ Completes(a)
      /\ queue' = <<>> \/ queue' = queue
  BY <1>2, <1>3, CloseFacts
<1>5. AdapterType'
  BY <1>4 DEF AdapterType
<1>6. \/ call' = [call EXCEPT ![c] = NoCall]
      \/ call' = [call EXCEPT ![c] =
           [op |-> call[c].op, by |-> a, at |-> "disconnected"]]
  BY DEF Told, Goto, Return
<1> QED BY <1>1, <1>2, <1>4, <1>5, <1>6

\* Some bindings go, and with them what they heard and are owed.
LEMMA UnbindFacts ==
  ASSUME HostType, BoundInv, Unbind \/ Destroy \/ \E g \in Agents : UnbindAgent(g)
  PROVE  \E bs \in SUBSET Active :
           /\ Unsubscribe(bs) /\ BindingOnly /\ streams' = streams
           /\ stream' \in [Agents -> 0..streams]
           /\ \A b \in Active \ bs :
                stream'[binding[b].agent] = stream[binding[b].agent]
<1>1. CASE Unbind
  <2>1. PICK bs \in {{b} : b \in Active} \cup {Active} : Unsubscribe(bs)
    BY <1>1 DEF Unbind
  <2>2. bs \in SUBSET Active
    OBVIOUS
  <2>3. BindingOnly /\ streams' = streams /\ stream' = stream
    BY <1>1 DEF Unbind
  <2> QED BY <2>1, <2>2, <2>3 DEF HostType
<1>2. CASE Destroy
  <2>1. Unsubscribe(Active) /\ BindingOnly /\ streams' = streams
        /\ stream' = [g \in Agents |-> 0]
    BY <1>2 DEF Destroy
  <2>2. stream' \in [Agents -> 0..streams]
    BY <2>1 DEF HostType
  <2>3. \A b \in Active \ Active :
          stream'[binding[b].agent] = stream[binding[b].agent]
    OBVIOUS
  <2> QED BY <2>1, <2>2, <2>3
<1>3. CASE \E g \in Agents : UnbindAgent(g)
  <2>1. PICK g \in Agents : UnbindAgent(g)
    BY <1>3
  <2>2. Unsubscribe(BindingsOf(g)) /\ BindingOnly /\ streams' = streams
        /\ stream' = [stream EXCEPT ![g] = 0]
    BY <2>1 DEF UnbindAgent
  <2>3. stream' \in [Agents -> 0..streams]
    BY <2>2 DEF HostType
  <2>4. BindingsOf(g) \in SUBSET Active
    BY DEF BindingsOf
  <2>5. \A b \in Active \ BindingsOf(g) : binding[b].agent \in Agents \ {g}
    BY DEF BindingsOf, BoundInv
  <2>6. \A b \in Active \ BindingsOf(g) :
          stream'[binding[b].agent] = stream[binding[b].agent]
    BY <2>2, <2>5 DEF HostType
  <2> QED BY <2>2, <2>3, <2>4, <2>6
<1> QED BY <1>1, <1>2, <1>3

\* bind: an entry that was not there, to the agent's Subject.
LEMMA BindFacts ==
  ASSUME HostType, BoundInv, NEW g \in Agents, Bind(g)
  PROVE  /\ registered \in 1..made /\ BindingOnly
         /\ owed' = owed /\ heard' = heard
         /\ streams' \in Nat /\ streams <= streams'
         /\ stream' \in [Agents -> 0..streams']
         /\ \A h \in Agents : stream[h] # 0 => stream'[h] = stream[h]
         /\ \E b \in Bindings :
              /\ binding[b] = NoBinding
              /\ binding' = [binding EXCEPT ![b] =
                   [agent |-> g, by |-> registered, subject |-> stream'[g]]]
              /\ stream'[g] \in 1..streams'
<1>1. registered \in 1..made
  BY DEF Bind, HostType
<1>2. /\ BindingOnly /\ owed' = owed /\ heard' = heard
  BY DEF Bind
<1>3. PICK b \in Bindings :
        /\ binding[b] = NoBinding
        /\ IF stream[g] = 0
           THEN /\ stream' = [stream EXCEPT ![g] = streams + 1]
                /\ streams' = streams + 1
           ELSE UNCHANGED <<stream, streams>>
        /\ binding' = [binding EXCEPT ![b] =
                   [agent |-> g, by |-> registered, subject |-> stream'[g]]]
  BY DEF Bind
<1>4. streams \in Nat /\ stream \in [Agents -> 0..streams]
  BY DEF HostType
<1>5. /\ streams' \in Nat /\ streams <= streams'
      /\ stream' \in [Agents -> 0..streams']
      /\ \A h \in Agents : stream[h] # 0 => stream'[h] = stream[h]
      /\ stream'[g] \in 1..streams'
  <2>1. CASE stream[g] = 0
    BY <1>3, <1>4, <2>1
  <2>2. CASE stream[g] # 0
    <3>1. stream[g] \in 1..streams
      BY <1>4, <2>2
    <3> QED BY <1>3, <1>4, <2>2, <3>1
  <2> QED BY <2>1, <2>2
<1> QED BY <1>1, <1>2, <1>3, <1>5

LEMMA GetStreamFacts ==
  ASSUME HostType, NEW g \in Agents, GetAgentStream(g)
  PROVE  /\ BindingOnly /\ owed' = owed /\ heard' = heard /\ binding' = binding
         /\ streams' \in Nat /\ streams <= streams'
         /\ stream' \in [Agents -> 0..streams']
         /\ \A h \in Agents : stream[h] # 0 => stream'[h] = stream[h]
BY DEF GetAgentStream, HostType

\* An interval fires: polls of the same adapter that overlap are noted.
LEMMA PollFacts ==
  ASSUME AdapterType, poll \in [Polls -> InFlight], NEW a \in Adapters, Poll(a)
  PROVE  /\ adapter[a].timers > 0
         /\ AdapterType'
         /\ \A d \in Adapters : d # a => adapter'[d] = adapter[d]
         /\ \A d \in Adapters : /\ adapter'[d].open = adapter[d].open
                                /\ adapter'[d].last = adapter[d].last
                                /\ adapter'[d].timers = adapter[d].timers
                                /\ adapter'[d].handle = adapter[d].handle
                                /\ adapter'[d].asked = adapter[d].asked
                                /\ adapter[d].mixed => adapter'[d].mixed
         /\ (\E p \in Polls : poll[p].by = a) => adapter'[a].mixed
         /\ \E p \in Polls :
              /\ poll[p] = NoPoll /\ poll' \in [Polls -> InFlight]
              /\ \A q \in Polls : q # p => poll'[q] = poll[q]
              /\ poll'[p].by = a /\ poll'[p].from = adapter[a].last + 1
              /\ ~ poll'[p].answered
<1> DEFINE x == \E p \in Polls : poll[p].by = a
           f == [adapter[a] EXCEPT !.mixed = @ \/ x]
           n == [NoPoll EXCEPT !.by = a, !.from = adapter[a].last + 1]
<1>1. adapter[a] \in Fields /\ adapter[a].timers > 0
  BY DEF AdapterType, Poll
<1>2. adapter' = [adapter EXCEPT ![a] = f]
  BY DEF Poll
<1>3. PICK p \in Polls : poll[p] = NoPoll /\ poll' = [poll EXCEPT ![p] = n]
  BY DEF Poll, Offset
<1>4. x \in BOOLEAN
  OBVIOUS
<1>5. n \in InFlight /\ n.by = a /\ n.from = adapter[a].last + 1 /\ ~ n.answered
  <2>1. adapter[a].last \in Nat /\ a \in 0..MaxAdapters /\ 0 \in 0..Len(Events)
    BY <1>1, ChannelsAssumption DEF Fields, Adapters
  <2>2. adapter[a].last + 1 \in Nat
    BY <2>1
  <2> QED BY <2>1, <2>2 DEF InFlight, NoPoll
<1> HIDE DEF x, n
<1>6. /\ f \in Fields
      /\ f.open = adapter[a].open /\ f.last = adapter[a].last
      /\ f.timers = adapter[a].timers /\ f.handle = adapter[a].handle
      /\ f.asked = adapter[a].asked /\ (adapter[a].mixed => f.mixed) /\ (x => f.mixed)
  BY <1>1, <1>4 DEF Fields
<1> HIDE DEF f
<1>7. /\ adapter' \in [Adapters -> Fields] /\ adapter'[a] = f
      /\ \A d \in Adapters : d # a => adapter'[d] = adapter[d]
  BY <1>2, <1>6 DEF AdapterType
<1>8. AdapterType'
  BY <1>6, <1>7 DEF AdapterType
<1>9. /\ poll' \in [Polls -> InFlight] /\ poll'[p] = n
      /\ \A q \in Polls : q # p => poll'[q] = poll[q]
  BY <1>3, <1>5
<1>10. /\ poll'[p].by = a /\ poll'[p].from = adapter[a].last + 1
       /\ ~ poll'[p].answered
  BY <1>5, <1>9
<1> QED BY <1>1, <1>3, <1>6, <1>7, <1>8, <1>9, <1>10 DEF x

\* The answer begins where the platform has forgotten what is before.
LEMMA MeetFacts ==
  ASSUME NetType, poll \in [Polls -> InFlight], PollInv, NEW p \in Polls, Meet(p)
  PROVE  /\ poll[p].by # 0
         /\ gone' \in gone..written
         /\ gone' # gone => poll[p].from = gone' + 1
         /\ poll' \in [Polls -> InFlight]
         /\ \A q \in Polls : q # p => poll'[q] = poll[q]
         /\ poll'[p].by = poll[p].by /\ poll'[p].from = poll[p].from
         /\ poll'[p].answered
         /\ poll'[p].low = gone' + 1 /\ poll'[p].high = written
         /\ poll[p].from <= gone' + 1
<1> DEFINE f == [poll[p] EXCEPT !.answered = TRUE, !.low = gone' + 1, !.high = written]
<1>1. poll[p] \in InFlight /\ poll[p].by # 0 /\ poll[p].from \in 1..(written + 1)
  BY DEF PollInv, Meet
<1>2. gone' = IF poll[p].from > gone + 1 THEN poll[p].from - 1 ELSE gone
  BY DEF Meet
<1>3. written \in 0..Len(Events) /\ gone \in 0..written /\ Len(Events) \in Nat
  BY ChannelsAssumption DEF NetType
<1>4. poll[p].from \in Nat
  BY <1>1 DEF InFlight
<1>5. /\ gone' \in gone..written /\ gone' + 1 \in Nat /\ poll[p].from <= gone' + 1
      /\ gone' # gone => poll[p].from = gone' + 1
  BY <1>1, <1>2, <1>3, <1>4
<1>6. poll' = [poll EXCEPT ![p] = f]
  BY DEF Meet
<1>8. /\ f \in InFlight /\ f.by = poll[p].by /\ f.from = poll[p].from /\ f.answered
      /\ f.low = gone' + 1 /\ f.high = written
  BY <1>1, <1>3, <1>5 DEF InFlight
<1> HIDE DEF f
<1>9. /\ poll' \in [Polls -> InFlight] /\ poll'[p] = f
      /\ \A q \in Polls : q # p => poll'[q] = poll[q]
  BY <1>6, <1>8
<1> QED BY <1>1, <1>5, <1>8, <1>9

\* poll goes through an answer: the adapter's last update is the answer's.
LEMMA ReceiveFacts ==
  ASSUME AdapterType, NetType, poll \in [Polls -> InFlight], PollInv,
         NEW p \in Polls, Receive(p), NEW a, a = poll[p].by
  PROVE  /\ a \in Adapters /\ poll[p].answered
         /\ AdapterType'
         /\ \A d \in Adapters : d # a => adapter'[d] = adapter[d]
         /\ \A d \in Adapters : /\ adapter'[d].open = adapter[d].open
                                /\ adapter'[d].mixed = adapter[d].mixed
                                /\ adapter'[d].timers = adapter[d].timers
                                /\ adapter'[d].handle = adapter[d].handle
                                /\ adapter'[d].asked = adapter[d].asked
         /\ adapter'[a].last = IF poll[p].low > poll[p].high THEN adapter[a].last
                               ELSE poll[p].high
         /\ poll[p].low \in Nat /\ poll[p].high \in Nat
         /\ poll[p].low..poll[p].high \subseteq 1..written
         /\ Emit(a, poll[p].low..poll[p].high)
         /\ poll' = [poll EXCEPT ![p] = NoPoll] /\ UNCHANGED <<host, call, net, reused, out>>
<1>1. poll[p] \in InFlight /\ poll[p].answered /\ a # 0
  BY DEF PollInv, Receive
<1>2. a \in Adapters
  BY <1>1, ChannelsAssumption DEF InFlight, Adapters
<1>3. adapter[a] \in Fields
  BY <1>2 DEF AdapterType
<1>4. /\ poll[p].low \in Nat /\ poll[p].high \in Nat
      /\ poll[p].low..poll[p].high \subseteq 1..written
  <2>1. /\ poll[p].from \in Nat /\ poll[p].from >= 1 /\ poll[p].from <= poll[p].low
        /\ poll[p].high <= written
    BY <1>1 DEF PollInv
  <2>2. written \in Nat /\ poll[p].low \in Nat /\ poll[p].high \in Nat
    BY <1>1, ChannelsAssumption DEF NetType, InFlight
  <2> QED BY <2>1, <2>2
<1>5. /\ Emit(a, poll[p].low..poll[p].high)
      /\ poll' = [poll EXCEPT ![p] = NoPoll] /\ UNCHANGED <<host, call, net, reused, out>>
  BY DEF Receive
<1>6. CASE poll[p].low > poll[p].high
  <2>1. adapter' = adapter
    BY <1>6 DEF Receive
  <2> QED BY <1>1, <1>2, <1>4, <1>5, <1>6, <2>1 DEF AdapterType
<1>7. CASE ~ (poll[p].low > poll[p].high)
  <2> DEFINE f == [adapter[a] EXCEPT !.last = poll[p].high]
  <2>1. adapter' = [adapter EXCEPT ![a] = f]
    BY <1>7 DEF Receive
  <2>2. poll[p].high \in 0..Len(Events)
    BY <1>1 DEF InFlight
  <2>3. /\ f \in Fields /\ f.open = adapter[a].open /\ f.mixed = adapter[a].mixed
        /\ f.timers = adapter[a].timers /\ f.handle = adapter[a].handle
        /\ f.asked = adapter[a].asked /\ f.last = poll[p].high
    BY <1>3, <2>2 DEF Fields
  <2> HIDE DEF f
  <2>4. /\ adapter' \in [Adapters -> Fields] /\ adapter'[a] = f
        /\ \A d \in Adapters : d # a => adapter'[d] = adapter[d]
    BY <1>2, <2>1, <2>3 DEF AdapterType
  <2>5. AdapterType'
    BY <1>2, <2>3, <2>4 DEF AdapterType, Fields
  <2> QED BY <1>1, <1>2, <1>4, <1>5, <1>7, <2>3, <2>4, <2>5
<1> QED BY <1>6, <1>7

\* handleWebhook is given an update that the platform has not seen taken.
LEMMA WebhookFacts ==
  ASSUME NetType, NEW w \in Updates, HandleWebhook(w)
  PROVE  /\ w \in 1..written /\ {w} \subseteq 1..written
         /\ Emit(registered, {w}) /\ registered # 0 /\ ~ channel.polled
         /\ taken' = taken \/ taken' = taken \cup {w}
         /\ again' \in 0..MaxAgain
         /\ UNCHANGED <<host, adapter, call, poll, written, gone, owed, reused, out>>
<1>1. /\ w \in (1..written) \ taken /\ Emit(registered, {w})
      /\ registered # 0 /\ ~ channel.polled
      /\ \/ taken' = taken \cup {w} /\ UNCHANGED again
         \/ again > 0 /\ again' = again - 1 /\ UNCHANGED taken
      /\ UNCHANGED <<host, adapter, call, poll, written, gone, owed, reused, out>>
  BY DEF HandleWebhook
<1>2. again' \in 0..MaxAgain
  <2>1. again \in 0..MaxAgain /\ MaxAgain \in Nat
    BY ChannelsAssumption DEF NetType
  <2> QED BY <1>1, <2>1
<1> QED BY <1>1, <1>2

-----------------------------------------------------------------------------
\* The steps by what they do, all but the calls that are left.
LEMMA StepCases ==
  ASSUME ChannelsNext
  PROVE  \/ Register
         \/ \E c \in Callers : Connect(c) \/ Asked(c) \/ Disconnect(c) \/ Told(c)
                               \/ Deregister(c)
         \/ \E g \in Agents : Bind(g) \/ GetAgentStream(g)
         \/ Unbind \/ Destroy \/ \E g \in Agents : UnbindAgent(g)
         \/ Write \/ \E u \in Updates : HandleWebhook(u)
         \/ \E a \in Adapters : Poll(a)
         \/ \E p \in Polls : Meet(p) \/ LosePoll(p) \/ Receive(p)
         \/ PollMessages \/ \E b \in Bindings, u \in Updates : RouteOutbound(b, u)
BY DEF ChannelsNext, Hosts, Works

LEMMA HostChange ==
  ASSUME ChannelsNext
  PROVE  \/ UNCHANGED host
         \/ Register
         \/ \E c \in Callers : Deregister(c)
         \/ \E g \in Agents : Bind(g) \/ GetAgentStream(g)
         \/ Unbind \/ Destroy \/ \E g \in Agents : UnbindAgent(g)
BY StepCases DEF host, Connect, Asked, Disconnect, Told, Write, HandleWebhook, Poll,
   Meet, LosePoll, Receive, PollMessages, RouteOutbound

LEMMA AdapterChange ==
  ASSUME ChannelsNext
  PROVE  \/ UNCHANGED adapter
         \/ \E c \in Callers : Connect(c) \/ Asked(c) \/ Disconnect(c) \/ Told(c)
         \/ \E a \in Adapters : Poll(a)
         \/ \E p \in Polls : Receive(p)
BY StepCases DEF Register, Deregister, Bind, GetAgentStream, Unbind, Destroy,
   UnbindAgent, BindingOnly, Write, HandleWebhook, Meet, LosePoll, PollMessages,
   RouteOutbound

LEMMA CallChange ==
  ASSUME ChannelsNext
  PROVE  \/ UNCHANGED call
         \/ \E c \in Callers : Connect(c) \/ Asked(c) \/ Disconnect(c) \/ Told(c)
                               \/ Deregister(c)
BY StepCases DEF Register, Bind, GetAgentStream, Unbind, Destroy, UnbindAgent,
   BindingOnly, Write, HandleWebhook, Poll, Meet, LosePoll, Receive, PollMessages,
   RouteOutbound

LEMMA PollChange ==
  ASSUME ChannelsNext
  PROVE  \/ UNCHANGED poll
         \/ \E a \in Adapters : Poll(a)
         \/ \E p \in Polls : Meet(p) \/ LosePoll(p) \/ Receive(p)
BY StepCases DEF Register, Connect, Asked, Disconnect, Told, Deregister, Bind,
   GetAgentStream, Unbind, Destroy, UnbindAgent, BindingOnly, Write, HandleWebhook,
   PollMessages, RouteOutbound

LEMMA NetChange ==
  ASSUME ChannelsNext
  PROVE  \/ UNCHANGED <<written, gone, pushes>>
         \/ Write \/ (\E u \in Updates : HandleWebhook(u)) \/ \E p \in Polls : Meet(p)
BY StepCases DEF net, Register, Connect, Asked, Disconnect, Told, Deregister, Bind,
   GetAgentStream, Unbind, Destroy, UnbindAgent, BindingOnly, Poll, LosePoll, Receive,
   PollMessages, RouteOutbound

LEMMA OwedChange ==
  ASSUME ChannelsNext
  PROVE  \/ UNCHANGED owed
         \/ \E c \in Callers : Disconnect(c) \/ Told(c)
         \/ Unbind \/ Destroy \/ \E g \in Agents : UnbindAgent(g)
         \/ Write
BY StepCases DEF net, Register, Connect, Asked, Deregister, Bind, GetAgentStream,
   HandleWebhook, Poll, Meet, LosePoll, Receive, PollMessages, RouteOutbound

LEMMA HeardChange ==
  ASSUME ChannelsNext
  PROVE  \/ UNCHANGED heard
         \/ Unbind \/ Destroy \/ \E g \in Agents : UnbindAgent(g)
         \/ (\E u \in Updates : HandleWebhook(u)) \/ \E p \in Polls : Receive(p)
BY StepCases DEF Register, Connect, Asked, Disconnect, Told, Deregister, Bind,
   GetAgentStream, Write, Poll, Meet, LosePoll, PollMessages, RouteOutbound

LEMMA OutChange ==
  ASSUME ChannelsNext
  PROVE  \/ UNCHANGED <<queue, posted>>
         \/ posted' = posted /\ \E c \in Callers : Disconnect(c) \/ Told(c)
         \/ PollMessages \/ \E b \in Bindings, u \in Updates : RouteOutbound(b, u)
BY StepCases DEF out, Register, Connect, Asked, Disconnect, Told, Deregister, Bind,
   GetAgentStream, Unbind, Destroy, UnbindAgent, BindingOnly, Write, HandleWebhook,
   Poll, Meet, LosePoll, Receive

-----------------------------------------------------------------------------
LEMMA HostTypeStep ==
  ASSUME ChannelsTypeOK, BoundInv, ChannelsNext
  PROVE  HostType'
<1>1. HostType
  BY PartsTyped
<1>2. MaxAdapters \in Nat /\ made \in Nat /\ made <= MaxAdapters
  BY <1>1, ChannelsAssumption DEF HostType
<1>3. CASE UNCHANGED host
  BY <1>1, <1>3 DEF HostType, host
<1>4. CASE Register
  <2>1. /\ made < MaxAdapters /\ made' = made + 1 /\ registered' = made'
        /\ UNCHANGED <<binding, stream, streams>>
    BY <1>4 DEF Register
  <2>2. made' \in 0..MaxAdapters /\ registered' \in 0..made' /\ 0..made \subseteq 0..made'
    BY <1>2, <2>1
  <2> HIDE <1>2
  <2>3. binding' \in [Bindings -> [agent : Agents \cup {Nobody},
                                   by : 0..made', subject : 0..streams']]
    <3>1. \A b \in Bindings : binding[b] \in [agent : Agents \cup {Nobody},
                                              by : 0..made', subject : 0..streams]
      BY <1>1, <2>2 DEF HostType
    <3>2. binding \in [Bindings -> [agent : Agents \cup {Nobody},
                                    by : 0..made', subject : 0..streams]]
      BY <1>1, <3>1 DEF HostType
    <3> QED BY <2>1, <3>2
  <2> QED BY <1>1, <2>1, <2>2, <2>3 DEF HostType
<1>5. CASE \E c \in Callers : Deregister(c)
  <2>1. registered' = 0 /\ UNCHANGED <<made, binding, stream, streams>>
    BY <1>5 DEF Deregister
  <2> QED BY <1>1, <1>2, <2>1 DEF HostType
<1>6. CASE \E g \in Agents : Bind(g)
  <2>1. PICK g \in Agents : Bind(g)
    BY <1>6
  <2>2. /\ registered \in 1..made /\ BindingOnly
        /\ streams' \in Nat /\ streams <= streams'
        /\ stream' \in [Agents -> 0..streams']
    BY <1>1, <2>1, BindFacts
  <2>3. PICK b \in Bindings :
          /\ binding' = [binding EXCEPT ![b] =
                 [agent |-> g, by |-> registered, subject |-> stream'[g]]]
          /\ stream'[g] \in 1..streams'
    BY <1>1, <2>1, BindFacts
  <2>4. 0..streams \subseteq 0..streams' /\ registered \in 0..made
    BY <1>1, <2>2 DEF HostType
  <2>5. \A d \in Bindings : binding[d] \in [agent : Agents \cup {Nobody},
                                            by : 0..made, subject : 0..streams']
    BY <1>1, <2>4 DEF HostType
  <2>6. [agent |-> g, by |-> registered, subject |-> stream'[g]]
          \in [agent : Agents \cup {Nobody}, by : 0..made, subject : 0..streams']
    BY <2>2, <2>3, <2>4
  <2>7. binding' \in [Bindings -> [agent : Agents \cup {Nobody},
                                   by : 0..made, subject : 0..streams']]
    <3>1. binding \in [Bindings -> [agent : Agents \cup {Nobody},
                                    by : 0..made, subject : 0..streams']]
      BY <1>1, <2>5 DEF HostType
    <3> QED BY <2>3, <2>6, <3>1
  <2> QED BY <1>1, <2>2, <2>7 DEF HostType, BindingOnly
<1>7. CASE \E g \in Agents : GetAgentStream(g)
  <2>1. /\ BindingOnly /\ binding' = binding
        /\ streams' \in Nat /\ streams <= streams'
        /\ stream' \in [Agents -> 0..streams']
    BY <1>1, <1>7, GetStreamFacts
  <2>2. 0..streams \subseteq 0..streams'
    BY <1>1, <2>1 DEF HostType
  <2>3. \A d \in Bindings : binding[d] \in [agent : Agents \cup {Nobody},
                                            by : 0..made, subject : 0..streams']
    BY <1>1, <2>2 DEF HostType
  <2>4. binding \in [Bindings -> [agent : Agents \cup {Nobody},
                                  by : 0..made, subject : 0..streams']]
    BY <1>1, <2>3 DEF HostType
  <2> QED BY <1>1, <2>1, <2>4 DEF HostType, BindingOnly
<1>8. CASE Unbind \/ Destroy \/ \E g \in Agents : UnbindAgent(g)
  <2>1. PICK bs \in SUBSET Active :
          /\ Unsubscribe(bs) /\ BindingOnly /\ streams' = streams
          /\ stream' \in [Agents -> 0..streams]
    BY <1>1, <1>8, UnbindFacts
  <2>2. NoBinding \in [agent : Agents \cup {Nobody}, by : 0..made, subject : 0..streams]
    BY <1>1, <1>2 DEF NoBinding, HostType
  <2>3. binding' \in [Bindings -> [agent : Agents \cup {Nobody},
                                   by : 0..made, subject : 0..streams]]
    BY <1>1, <2>1, <2>2 DEF Unsubscribe, HostType
  <2> QED BY <1>1, <2>1, <2>3 DEF HostType, BindingOnly
<1> QED BY <1>3, <1>4, <1>5, <1>6, <1>7, <1>8, HostChange

LEMMA AdapterTypeStep ==
  ASSUME ChannelsTypeOK, PollInv, ChannelsNext
  PROVE  AdapterType'
<1>1. HostType /\ AdapterType /\ CallType /\ RestType /\ NetType /\ poll \in [Polls -> InFlight]
  BY PartsTyped
<1>2. CASE UNCHANGED adapter
  BY <1>1, <1>2 DEF AdapterType
<1>3. CASE \E c \in Callers : Connect(c) \/ Asked(c) \/ Disconnect(c) \/ Told(c)
  BY <1>1, <1>3, ConnectFacts, AskedFacts, DisconnectFacts, ToldFacts
<1>4. CASE \E a \in Adapters : Poll(a)
  BY <1>1, <1>4, PollFacts
<1>5. CASE \E p \in Polls : Receive(p)
  BY <1>1, <1>5, ReceiveFacts
<1> QED BY <1>2, <1>3, <1>4, <1>5, AdapterChange

LEMMA MadeGrows ==
  ASSUME HostType, ChannelsNext
  PROVE  1..made \subseteq 1..made' /\ made' \in Nat
<1>1. made \in Nat
  BY MadeAdapters
<1>2. made' = made \/ made' = made + 1
  BY HostChange DEF host, Register, Deregister, Bind, GetAgentStream, Unbind, Destroy,
     UnbindAgent, BindingOnly
<1> QED BY <1>1, <1>2

LEMMA CallTypeStep ==
  ASSUME ChannelsTypeOK, ChannelsNext
  PROVE  CallType'
<1>1. HostType /\ AdapterType /\ CallType /\ RestType
  BY PartsTyped
<1>2. 1..made \subseteq 1..made'
  BY <1>1, MadeGrows
<1> SUFFICES /\ call' \in [Callers -> HostCalls]
             /\ \A c \in Callers : call'[c] # NoCall => call'[c].by \in 1..made
  BY <1>2 DEF CallType
<1>3. \A n \in HostCalls, c \in Callers :
        call' = [call EXCEPT ![c] = n] /\ (n # NoCall => n.by \in 1..made) =>
          /\ call' \in [Callers -> HostCalls]
          /\ \A d \in Callers : call'[d] # NoCall => call'[d].by \in 1..made
  <2> SUFFICES ASSUME NEW n \in HostCalls, NEW c \in Callers,
                      call' = [call EXCEPT ![c] = n], n # NoCall => n.by \in 1..made
               PROVE  /\ call' \in [Callers -> HostCalls]
                      /\ \A d \in Callers : call'[d] # NoCall => call'[d].by \in 1..made
    OBVIOUS
  <2> QED BY <1>1 DEF CallType
<1>4. NoCall \in HostCalls
  BY ChannelsAssumption DEF NoCall, HostCalls
<1>5. \A op \in {"connect", "disconnect", "unregister", "disconnectAll"},
         at \in {"asking", "telling", "disconnected"}, a \in 1..made :
        [op |-> op, by |-> a, at |-> at] \in HostCalls
  <2>1. 1..made \subseteq 0..MaxAdapters
    BY <1>1, ChannelsAssumption DEF HostType
  <2> QED BY <2>1 DEF HostCalls
<1>6. CASE UNCHANGED call
  BY <1>1, <1>6 DEF CallType
<1>7. CASE \E c \in Callers : Connect(c)
  <2>1. PICK c \in Callers : Connect(c)
    BY <1>7
  <2>2. /\ registered \in 1..made
        /\ \/ call' = [call EXCEPT ![c] =
                         [op |-> "connect", by |-> registered, at |-> "asking"]]
           \/ call' = call
    BY <1>1, <2>1, ConnectFacts
  <2> DEFINE n == [op |-> "connect", by |-> registered, at |-> "asking"]
  <2>3. n \in HostCalls /\ n.by \in 1..made
    BY <1>5, <2>2
  <2> HIDE DEF n
  <2>4. call' = [call EXCEPT ![c] = n] \/ call' = call
    BY <2>2 DEF n
  <2> QED BY <1>3, <1>6, <2>3, <2>4
<1>8. CASE \E c \in Callers : Asked(c) \/ Deregister(c)
  BY <1>3, <1>4, <1>8 DEF Asked, Deregister, Return
<1>9. CASE \E c \in Callers : Disconnect(c)
  <2>1. PICK c \in Callers : Disconnect(c)
    BY <1>9
  <2>2. registered \in 1..made
    BY <1>1, <2>1, DisconnectFacts
  <2>3. PICK op \in {"disconnect", "unregister", "disconnectAll"},
             at \in {"telling", "disconnected"} :
          \/ call' = [call EXCEPT ![c] = [op |-> op, by |-> registered, at |-> at]]
          \/ call' = call
    BY <1>1, <2>1, DisconnectFacts
  <2> DEFINE n == [op |-> op, by |-> registered, at |-> at]
  <2>4. n \in HostCalls /\ n.by \in 1..made
    BY <1>5, <2>2
  <2> HIDE DEF n
  <2>5. call' = [call EXCEPT ![c] = n] \/ call' = call
    BY <2>3 DEF n
  <2> QED BY <1>3, <1>6, <2>4, <2>5
<1>10. CASE \E c \in Callers : Told(c)
  <2>1. PICK c \in Callers : Told(c)
    BY <1>10
  <2> DEFINE n == [op |-> call[c].op, by |-> call[c].by, at |-> "disconnected"]
  <2>2. /\ call[c] # NoCall /\ call[c].by \in 1..made
        /\ \/ call' = [call EXCEPT ![c] = NoCall]
           \/ call' = [call EXCEPT ![c] = n]
    BY <1>1, <2>1, ToldFacts
  <2>3. call[c] \in HostCalls
    BY <1>1 DEF CallType
  <2>4. n \in HostCalls /\ n.by \in 1..made
    BY <2>2, <2>3 DEF HostCalls
  <2> HIDE DEF n
  <2> QED BY <1>3, <1>4, <2>2, <2>4
<1> QED BY <1>6, <1>7, <1>8, <1>9, <1>10, CallChange

LEMMA PollTypeStep ==
  ASSUME ChannelsTypeOK, PollInv, ChannelsNext
  PROVE  (poll \in [Polls -> InFlight])'
<1>1. AdapterType /\ RestType /\ NetType /\ poll \in [Polls -> InFlight]
  BY PartsTyped
<1>2. NoPoll \in InFlight
  BY ChannelsAssumption DEF NoPoll, InFlight
<1>3. CASE UNCHANGED poll
  BY <1>1, <1>3
<1>4. CASE \E a \in Adapters : Poll(a)
  BY <1>1, <1>4, PollFacts
<1>5. CASE \E p \in Polls : Meet(p)
  BY <1>1, <1>5, MeetFacts
<1>6. CASE \E p \in Polls : LosePoll(p) \/ Receive(p)
  BY <1>1, <1>2, <1>6 DEF LosePoll, Receive
<1> QED BY <1>3, <1>4, <1>5, <1>6, PollChange

LEMMA WrittenGrows ==
  ASSUME ChannelsTypeOK, PollInv, ChannelsNext
  PROVE  /\ written \in Nat /\ written' \in written..Len(Events) /\ written' \in Nat
         /\ gone \in Nat /\ gone' \in gone..written'
<1>1. NetType /\ poll \in [Polls -> InFlight]
  BY PartsTyped
<1>2. /\ Len(Events) \in Nat /\ written \in Nat /\ written <= Len(Events)
      /\ gone \in Nat /\ gone <= written
  BY <1>1, ChannelsAssumption DEF NetType
<1>3. CASE UNCHANGED <<written, gone, pushes>>
  BY <1>2, <1>3
<1>4. CASE Write
  BY <1>2, <1>4 DEF Write
<1>5. CASE \E u \in Updates : HandleWebhook(u)
  <2>1. gone' = gone /\ written' = written
    BY <1>1, <1>5, WebhookFacts
  <2> QED BY <1>2, <2>1
<1>6. CASE \E p \in Polls : Meet(p)
  <2>1. gone' \in gone..written /\ written' = written
    BY <1>1, <1>6, MeetFacts DEF Meet
  <2> QED BY <1>2, <2>1
<1> QED BY <1>3, <1>4, <1>5, <1>6, NetChange

LEMMA NetTypeStep ==
  ASSUME ChannelsTypeOK, PollInv, ChannelsNext
  PROVE  NetType'
<1>1. NetType
  BY PartsTyped
<1>2. written' \in 0..Len(Events) /\ gone' \in 0..written'
  BY WrittenGrows
<1>4. taken' \subseteq 1..written' /\ again' \in 0..MaxAgain
  <2>1. taken \subseteq 1..written' /\ again \in 0..MaxAgain
    <3>1. 1..written \subseteq 1..written'
      BY WrittenGrows
    <3> QED BY <1>1, <3>1 DEF NetType
  <2>2. CASE UNCHANGED <<written, gone, pushes>>
    BY <2>1, <2>2 DEF pushes
  <2>3. CASE Write \/ \E p \in Polls : Meet(p)
    BY <2>1, <2>3 DEF Write, Meet, pushes
  <2>4. CASE \E u \in Updates : HandleWebhook(u)
    <3>1. PICK u \in Updates : HandleWebhook(u)
      BY <2>4
    <3>2. /\ u \in 1..written /\ written' = written /\ again' \in 0..MaxAgain
          /\ taken' = taken \/ taken' = taken \cup {u}
      BY <1>1, <3>1, WebhookFacts
    <3> QED BY <2>1, <3>2
  <2> QED BY <2>2, <2>3, <2>4, NetChange
<1>3. owed' \in [Updates -> SUBSET Bindings]
  <2>1. CASE UNCHANGED owed
    BY <1>1, <2>1 DEF NetType
  <2>2. ASSUME NEW bs, owed' = [u \in DOMAIN owed |-> owed[u] \ bs]
        PROVE  owed' \in [Updates -> SUBSET Bindings]
    BY <1>1, <2>2 DEF NetType
  <2>3. CASE \E c \in Callers : Disconnect(c) \/ Told(c)
    <3>1. HostType /\ AdapterType /\ CallType
      BY PartsTyped
    <3>2. (\E a : Completes(a)) \/ owed' = owed
      BY <2>3, <3>1, DisconnectFacts, ToldFacts
    <3> QED BY <2>1, <2>2, <3>2 DEF Completes
  <2>4. CASE Unbind \/ Destroy \/ \E g \in Agents : UnbindAgent(g)
    BY <2>2, <2>4 DEF Unbind, Destroy, UnbindAgent, Unsubscribe, Forgive
  <2>5. CASE Write
    <3> DEFINE bs == {b \in Active : IsMessage(written') /\ adapter[binding[b].by].open}
    <3>1. owed' = [owed EXCEPT ![written'] = bs]
      BY <2>5 DEF Write
    <3>2. bs \in SUBSET Bindings
      BY DEF Active
    <3> HIDE DEF bs
    <3> QED BY <1>1, <3>1, <3>2 DEF NetType
  <2> QED BY <2>1, <2>3, <2>4, <2>5, OwedChange
<1> QED BY <1>2, <1>3, <1>4 DEF NetType

LEMMA HeardTypeStep ==
  ASSUME ChannelsTypeOK, PollInv, ChannelsNext
  PROVE  HeardType'
<1>1. NetType /\ HeardType /\ AdapterType /\ poll \in [Polls -> InFlight]
  BY PartsTyped
<1>2. \A n : n \in Seq(1..written) => n \in Seq(1..written')
  <2>1. 1..written \subseteq 1..written'
    BY WrittenGrows
  <2> QED BY <2>1, SeqMonotonic
<1> SUFFICES heard' \in [Bindings -> Seq(1..written)]
  BY <1>2 DEF HeardType
<1>3. CASE UNCHANGED heard
  BY <1>1, <1>3 DEF HeardType
<1>4. CASE Unbind \/ Destroy \/ \E g \in Agents : UnbindAgent(g)
  <2>1. PICK bs : Unsubscribe(bs)
    BY <1>4 DEF Unbind, Destroy, UnbindAgent
  <2>2. <<>> \in Seq(1..written)
    OBVIOUS
  <2> QED BY <1>1, <2>1, <2>2 DEF Unsubscribe, HeardType
<1>5. CASE \E u \in Updates : HandleWebhook(u)
  BY <1>1, <1>5, WebhookFacts, EmitFacts
<1>6. CASE \E p \in Polls : Receive(p)
  BY <1>1, <1>6, ReceiveFacts, EmitFacts
<1> QED BY <1>3, <1>4, <1>5, <1>6, HeardChange

LEMMA RestTypeStep ==
  ASSUME ChannelsTypeOK, ChannelsNext
  PROVE  RestType'
<1>1. RestType /\ HostType /\ AdapterType
  BY PartsTyped
<1>2. channel' = channel /\ overlap' = overlap
  BY ChannelStays
<1>3. calls' \in Nat
  <2>1. calls \in Nat
    BY <1>1 DEF RestType
  <2>2. calls' = calls \/ (calls > 0 /\ calls' = calls - 1)
    BY DEF ChannelsNext, Hosts, Works, Register, Connect, Asked, Disconnect, Told,
       Deregister, Bind, Unbind, UnbindAgent, GetAgentStream, Destroy, Write,
       HandleWebhook, Poll, Meet, LosePoll, Receive, RouteOutbound, PollMessages,
       Begins, Lasting
  <2> QED BY <2>1, <2>2
<1>4. reused' \in BOOLEAN
  <2>1. reused \in BOOLEAN
    BY <1>1 DEF RestType
  <2>2. UNCHANGED reused \/ \E c \in Callers : Connect(c)
    BY DEF ChannelsNext, Hosts, Works, Register, Asked, Disconnect, Told,
       Deregister, Bind, Unbind, UnbindAgent, GetAgentStream, Destroy, Write,
       HandleWebhook, Poll, Meet, LosePoll, Receive, RouteOutbound, PollMessages,
       BindingOnly
  <2>3. CASE \E c \in Callers : Connect(c)
    <3>1. reused' = (reused \/ adapter[registered].asked \/ ~ adapter[registered].open)
      BY <2>3 DEF Connect
    <3> QED BY <3>1
  <2> QED BY <2>1, <2>2, <2>3
<1> QED BY <1>1, <1>2, <1>3, <1>4 DEF RestType

-----------------------------------------------------------------------------
\* What is posted, or queued, is in its conversation.
LEMMA RouteFacts ==
  ASSUME ChannelsTypeOK, BoundInv, NEW b \in Bindings, NEW u \in Updates,
         RouteOutbound(b, u)
  PROVE  \E m \in Posts :
           /\ Returns(m)
           /\ \/ /\ \E n \in Nat : queue' = queue \o [i \in 1..n |-> m]
                 /\ posted' = posted
              \/ posted' = posted \cup {m} /\ queue' = queue
<1>1. RestType /\ HostType
  BY PartsTyped
<1>2. IsMessage(u)
  <2>1. \E i \in 1..Len(heard[b]) : heard[b][i] = u
    BY DEF RouteOutbound
  <2>2. heard[b] \in Seq(1..written)
    BY DEF ChannelsTypeOK
  <2>3. DOMAIN heard[b] = 1..Len(heard[b])
    BY <2>2
  <2> QED BY <2>1, <2>3 DEF BoundInv
<1> DEFINE routed(o, p) ==
        LET m == [of |-> u, form |-> o, to |-> p.to, parts |-> p.parts] IN
          \/ /\ queue' = queue \o [i \in 1..Cardinality(BindingsOf(binding[b].agent)) |-> m]
             /\ UNCHANGED posted
          \/ posted' = posted \cup {m} /\ UNCHANGED queue
<1>9. PICK o \in Answers(u) : \E p \in Send(channel.kind, o) : routed(o, p)
  BY DEF RouteOutbound
<1>3. PICK p \in Send(channel.kind, o) : routed(o, p)
  BY <1>9
<1> DEFINE m == [of |-> u, form |-> o, to |-> p.to, parts |-> p.parts]
<1>4. /\ p.to = Place(Event(u)) \/ (channel.kind = "line" /\ p.to = Event(u).user)
      /\ p.parts \in SUBSET {"text", "image", "choices"} /\ p.parts # {}
      /\ o.parts = {"text"} => p.parts = {"text"}
  BY <1>1, <1>2, SendFacts
<1>5. m \in Posts
  <2>1. o \in UNION {Answers(w) : w \in Updates}
    OBVIOUS
  <2>2. p.to \in UNION {{Place(Event(w)), Event(w).user} : w \in Updates}
    <3>1. p.to \in {Place(Event(u)), Event(u).user}
      BY <1>4
    <3>2. {Place(Event(u)), Event(u).user}
            \in {{Place(Event(w)), Event(w).user} : w \in Updates}
      OBVIOUS
    <3> QED BY <3>1, <3>2
  <2> QED BY <1>4, <2>1, <2>2 DEF Posts
<1>6. Returns(m)
  BY <1>4 DEF Returns
<1>7. Cardinality(BindingsOf(binding[b].agent)) \in Nat
  <2>1. BindingsOf(binding[b].agent) \subseteq Bindings
    BY DEF BindingsOf, Active
  <2> QED BY <2>1, ChannelsAssumption, FS_Subset, FS_CardinalityType
<1> HIDE DEF m
<1>8. \/ /\ queue' = queue \o [i \in 1..Cardinality(BindingsOf(binding[b].agent)) |-> m]
         /\ posted' = posted
      \/ posted' = posted \cup {m} /\ queue' = queue
  BY <1>3 DEF m
<1> QED BY <1>5, <1>6, <1>7, <1>8

LEMMA OutStep ==
  ASSUME ChannelsTypeOK, BoundInv, PostInv, ChannelsNext
  PROVE  OutType' /\ PostInv'
<1>1. channel' = channel /\ Posts' = Posts /\ \A m : Returns(m)' <=> Returns(m)
  BY ChannelStays, MessagesStay
<1>2. queue \in Seq(Posts) /\ posted \subseteq Posts
  BY DEF ChannelsTypeOK
<1> SUFFICES /\ queue' \in Seq(Posts) /\ posted' \subseteq Posts
             /\ \A m \in posted' : Returns(m)
             /\ \A i \in DOMAIN queue' : Returns(queue'[i])
  <2>1. OutType'
    BY <1>1 DEF OutType
  <2>2. (\A m \in posted : Returns(m))'
    BY <1>1
  <2>3. (\A i \in DOMAIN queue : Returns(queue[i]))'
    <3> SUFFICES ASSUME NEW i \in DOMAIN queue', NEW q, q = queue'[i]
                 PROVE  Returns(q)'
      OBVIOUS
    <3> QED BY <1>1
  <2> QED BY <2>1, <2>2, <2>3 DEF PostInv
<1>3. /\ \A m \in posted : Returns(m)
      /\ \A i \in DOMAIN queue : Returns(queue[i])
  BY DEF PostInv
<1>4. CASE UNCHANGED <<queue, posted>>
  BY <1>2, <1>3, <1>4
<1>5. CASE posted' = posted /\ \E c \in Callers : Disconnect(c) \/ Told(c)
  <2>1. HostType /\ AdapterType /\ CallType
    BY PartsTyped
  <2>2. queue' = <<>> \/ queue' = queue
    BY <1>5, <2>1, DisconnectFacts, ToldFacts
  <2>3. <<>> \in Seq(Posts) /\ DOMAIN <<>> = {}
    OBVIOUS
  <2> QED BY <1>2, <1>3, <1>5, <2>2, <2>3
<1>6. CASE PollMessages
  <2>1. queue' = <<>> /\ posted' = posted \cup {queue[i] : i \in 1..Len(queue)}
    BY <1>6 DEF PollMessages
  <2>2. DOMAIN queue = 1..Len(queue) /\ \A i \in 1..Len(queue) : queue[i] \in Posts
    BY <1>2
  <2>3. <<>> \in Seq(Posts) /\ DOMAIN <<>> = {}
    OBVIOUS
  <2> QED BY <1>2, <1>3, <2>1, <2>2, <2>3
<1>7. CASE \E b \in Bindings, u \in Updates : RouteOutbound(b, u)
  <2>1. PICK m \in Posts :
           /\ Returns(m)
           /\ \/ /\ \E n \in Nat : queue' = queue \o [i \in 1..n |-> m]
                 /\ posted' = posted
              \/ posted' = posted \cup {m} /\ queue' = queue
    BY <1>7, RouteFacts
  <2>2. CASE posted' = posted \cup {m} /\ queue' = queue
    BY <1>2, <1>3, <2>1, <2>2
  <2>3. CASE posted' = posted /\ \E n \in Nat : queue' = queue \o [i \in 1..n |-> m]
    <3>1. PICK n \in Nat : queue' = queue \o [i \in 1..n |-> m]
      BY <2>3
    <3> DEFINE s == [i \in 1..n |-> m]
    <3>2. s \in Seq(Posts) /\ Len(s) = n /\ \A i \in 1..n : s[i] = m
      BY <2>1
    <3>3. queue' = queue \o s
      BY <3>1
    <3> HIDE DEF s
    <3>4. queue' \in Seq(Posts) /\ Len(queue') = Len(queue) + n /\ Len(queue) \in Nat
          /\ \A i \in 1..(Len(queue) + n) :
               queue'[i] = IF i <= Len(queue) THEN queue[i] ELSE s[i - Len(queue)]
      BY ZenonT(30), <1>2, <3>2, <3>3, ConcatProperties, LenProperties
    <3>5. ASSUME NEW i \in DOMAIN queue'
          PROVE  Returns(queue'[i])
      <4>1. i \in 1..(Len(queue) + n)
        BY <3>4
      <4>2. CASE i \in 1..Len(queue)
        <5>1. queue'[i] = queue[i] /\ i \in DOMAIN queue
          BY <1>2, <3>2, <3>3, <3>4, <4>1, <4>2
        <5> QED BY <1>3, <5>1
      <4>3. CASE i \notin 1..Len(queue)
        <5>1. queue'[i] = s[i - Len(queue)] /\ i - Len(queue) \in 1..n
          BY <1>2, <3>1, <3>2, <3>3, <3>4, <4>1, <4>3
        <5> QED BY <2>1, <3>2, <5>1
      <4> QED BY <4>2, <4>3
    <3> QED BY <1>2, <1>3, <2>3, <3>4, <3>5
  <2> QED BY <2>1, <2>2, <2>3
<1> QED BY <1>4, <1>5, <1>6, <1>7, OutChange

-----------------------------------------------------------------------------
(***************************************************************************)
(* What bindings hear, and what they are owed.                             *)
(***************************************************************************)
LEMMA ActiveFacts ==
  ASSUME ChannelsTypeOK, BoundInv, NEW b \in Active
  PROVE  /\ b \in Bindings /\ binding[b].agent \in Agents
         /\ binding[b].by \in 1..made /\ binding[b].by \in Adapters
         /\ binding[b].subject = stream[binding[b].agent]
         /\ binding[b].subject # 0
<1>1. HostType
  BY PartsTyped
<1>2. b \in Bindings /\ binding[b].agent \in Agents /\ binding[b].by # 0
      /\ binding[b].subject = stream[binding[b].agent]
      /\ binding[b].subject # 0
  BY DEF BoundInv, Active
<1>3. binding[b].by \in 0..made
  BY <1>1, <1>2 DEF HostType
<1>4. made \in Nat /\ 1..made \subseteq Adapters
  BY <1>1, MadeAdapters
<1> QED BY <1>2, <1>3, <1>4

LEMMA OpenStays ==
  ASSUME ChannelsTypeOK, PollInv, ChannelsNext,
         ~ \E c \in Callers : Disconnect(c) \/ Told(c)
  PROVE  \A a \in Adapters : adapter'[a].open = adapter[a].open
<1>1. HostType /\ AdapterType /\ CallType /\ RestType /\ NetType /\ poll \in [Polls -> InFlight]
  BY PartsTyped
<1>2. CASE UNCHANGED adapter
  BY <1>2
<1>3. CASE \E c \in Callers : Connect(c) \/ Asked(c)
  BY <1>1, <1>3, ConnectFacts, AskedFacts
<1>4. CASE \E a \in Adapters : Poll(a)
  BY <1>1, <1>4, PollFacts
<1>5. CASE \E p \in Polls : Receive(p)
  BY <1>1, <1>5, ReceiveFacts
<1> QED BY <1>2, <1>3, <1>4, <1>5, AdapterChange

\* A disconnect leaves its adapter open, or takes what its bindings are owed.
LEMMA DisconnectOwed ==
  ASSUME ChannelsTypeOK, NEW c \in Callers, Disconnect(c) \/ Told(c)
  PROVE  \E a \in Adapters :
           /\ \A d \in Adapters : d # a => adapter'[d] = adapter[d]
           /\ \/ adapter'[a].open = adapter[a].open /\ owed' = owed
              \/ Completes(a)
<1>1. HostType /\ AdapterType /\ CallType
  BY PartsTyped
<1>2. CASE Disconnect(c)
  BY <1>1, <1>2, DisconnectFacts
<1>3. CASE Told(c)
  BY <1>1, <1>3, ToldFacts
<1> QED BY <1>2, <1>3

LEMMA OwedStep ==
  ASSUME ChannelsTypeOK, BoundInv, PollInv, ChannelsNext, NEW u \in Updates,
         NEW b \in owed'[u]
  PROVE  /\ u <= written' /\ b \in Active /\ IsMessage(u)
         /\ adapter'[binding[b].by].open
         /\ Unbind \/ Destroy \/ (\E g \in Agents : UnbindAgent(g)) =>
              \E bs : Unsubscribe(bs) /\ b \notin bs
<1>1. owed \in [Updates -> SUBSET Bindings]
  BY DEF ChannelsTypeOK
<1>2. written \in Nat /\ written' \in Nat /\ written <= written' /\ u \in Nat
  BY WrittenGrows, ChannelsAssumption DEF Updates
<1>3. b \in owed[u] => /\ u <= written' /\ b \in Active /\ adapter[binding[b].by].open
                       /\ IsMessage(u) /\ binding[b].by \in Adapters
  BY <1>2, ActiveFacts DEF BoundInv
<1>4. CASE \E c \in Callers : Disconnect(c) \/ Told(c)
  <2>1. PICK c \in Callers : Disconnect(c) \/ Told(c)
    BY <1>4
  <2>2. PICK a \in Adapters :
           /\ \A d \in Adapters : d # a => adapter'[d] = adapter[d]
           /\ \/ adapter'[a].open = adapter[a].open /\ owed' = owed
              \/ Completes(a)
    BY <2>1, DisconnectOwed
  <2>3. b \in owed[u] /\ (Completes(a) => b \notin Subscribed(a))
    <3>1. CASE owed' = owed /\ ~ Completes(a)
      BY <3>1
    <3>2. CASE Completes(a)
      BY <1>1, <3>2 DEF Completes
    <3> QED BY <2>2, <3>1, <3>2
  <2>4. b \in Active /\ (Completes(a) => binding[b].by # a)
    BY <1>3, <2>3 DEF Subscribed
  <2>5. adapter'[binding[b].by].open
    BY <1>3, <2>2, <2>3, <2>4
  <2>6. ~ (Unbind \/ Destroy \/ \E g \in Agents : UnbindAgent(g))
        \/ \E bs : Unsubscribe(bs) /\ b \notin bs
    <3>1. SUFFICES ASSUME Unbind \/ Destroy \/ \E g \in Agents : UnbindAgent(g)
                   PROVE  \E bs : Unsubscribe(bs) /\ b \notin bs
      OBVIOUS
    <3>2. PICK bs : Unsubscribe(bs)
      BY <3>1 DEF Unbind, Destroy, UnbindAgent
    <3>3. b \notin bs
      BY <1>1, <3>2 DEF Unsubscribe, Forgive
    <3> QED BY <3>2, <3>3
  <2> QED BY <1>3, <2>3, <2>5, <2>6
<1>5. CASE ~ \E c \in Callers : Disconnect(c) \/ Told(c)
  <2>1. \A a \in Adapters : adapter'[a].open = adapter[a].open
    BY <1>5, OpenStays
  <2>2. CASE Unbind \/ Destroy \/ \E g \in Agents : UnbindAgent(g)
    <3>1. PICK bs : Unsubscribe(bs)
      BY <2>2 DEF Unbind, Destroy, UnbindAgent
    <3>2. b \notin bs /\ b \in owed[u]
      BY <1>1, <3>1 DEF Unsubscribe, Forgive
    <3> QED BY <1>3, <2>1, <3>1, <3>2
  <2>3. CASE ~ (Unbind \/ Destroy \/ \E g \in Agents : UnbindAgent(g))
    <3>1. CASE UNCHANGED owed
      BY <1>3, <2>1, <2>3, <3>1
    <3>2. CASE Write
      <4> DEFINE bs == {d \in Active : IsMessage(written') /\ adapter[binding[d].by].open}
      <4>1. owed' = [owed EXCEPT ![written'] = bs]
        BY <3>2 DEF Write
      <4>2. CASE u # written'
        BY <1>1, <1>3, <2>1, <2>3, <4>1, <4>2
      <4>3. CASE u = written'
        <5>1. b \in bs
          BY <1>1, <4>1, <4>3
        <5>2. b \in Active /\ IsMessage(u) /\ adapter[binding[b].by].open
          BY <4>3, <5>1
        <5>3. binding[b].by \in Adapters
          BY <5>2, ActiveFacts
        <5> QED BY <1>2, <2>1, <2>3, <4>3, <5>2, <5>3
      <4> QED BY <4>2, <4>3
    <3> QED BY <1>5, <2>3, <3>1, <3>2, OwedChange
  <2> QED BY <2>2, <2>3
<1> QED BY <1>4, <1>5

\* What a binding hears is messages.
LEMMA HeardMessages ==
  ASSUME ChannelsTypeOK, BoundInv, PollInv, ChannelsNext, NEW b \in Bindings,
         NEW i \in DOMAIN heard'[b]
  PROVE  IsMessage(heard'[b][i])
<1>1. AdapterType /\ HeardType /\ NetType /\ poll \in [Polls -> InFlight]
  BY PartsTyped
<1>2. heard[b] \in Seq(1..written) /\ DOMAIN heard[b] = 1..Len(heard[b])
  BY <1>1 DEF HeardType
<1>3. \A j \in DOMAIN heard[b] : IsMessage(heard[b][j])
  BY DEF BoundInv
<1>4. ASSUME NEW a, NEW us, us \subseteq 1..written, Emit(a, us)
      PROVE  IsMessage(heard'[b][i])
  <2>1. heard'[b] \in Seq(1..written)
    BY <1>1, <1>4, EmitFacts
  <2>2. i \in 1..Len(heard'[b]) /\ Len(heard[b]) \in Nat /\ Len(heard'[b]) \in Nat
    BY <1>2, <2>1, LenProperties
  <2>3. CASE i <= Len(heard[b])
    <3>1. i \in 1..Len(heard[b])
      BY <2>2, <2>3
    <3>2. heard'[b][i] = heard[b][i]
      BY <1>1, <1>4, <3>1, EmitFacts
    <3> QED BY <1>2, <1>3, <3>1, <3>2
  <2>4. CASE i > Len(heard[b])
    BY <1>1, <1>4, <2>2, <2>4, EmitFacts
  <2> QED BY <2>2, <2>3, <2>4
<1>5. CASE UNCHANGED heard
  BY <1>3, <1>5
<1>6. CASE Unbind \/ Destroy \/ \E g \in Agents : UnbindAgent(g)
  <2>1. PICK bs : Unsubscribe(bs)
    BY <1>6 DEF Unbind, Destroy, UnbindAgent
  <2>2. heard'[b] = <<>> \/ heard'[b] = heard[b]
    BY <2>1 DEF Unsubscribe
  <2> QED BY <1>3, <2>2
<1>7. CASE \E u \in Updates : HandleWebhook(u)
  BY <1>1, <1>4, <1>7, WebhookFacts
<1>8. CASE \E p \in Polls : Receive(p)
  BY <1>1, <1>4, <1>8, ReceiveFacts
<1> QED BY <1>5, <1>6, <1>7, <1>8, HeardChange

\* Only a binding that is there hears.
LEMMA HeardActive ==
  ASSUME ChannelsTypeOK, BoundInv, PollInv, ChannelsNext, NEW b \in Bindings,
         b \notin Active
  PROVE  heard'[b] = <<>>
<1>1. AdapterType /\ HeardType /\ NetType /\ poll \in [Polls -> InFlight]
  BY PartsTyped
<1>2. heard[b] = <<>>
  BY DEF BoundInv
<1>3. \A a : ~ Hears(b, a)
  BY DEF Hears, Subscribed
<1>4. CASE UNCHANGED heard
  BY <1>2, <1>4
<1>5. CASE Unbind \/ Destroy \/ \E g \in Agents : UnbindAgent(g)
  BY <1>2, <1>5 DEF Unbind, Destroy, UnbindAgent, Unsubscribe
<1>6. CASE \E u \in Updates : HandleWebhook(u)
  BY <1>1, <1>2, <1>3, <1>6, WebhookFacts, EmitFacts
<1>7. CASE \E p \in Polls : Receive(p)
  BY <1>1, <1>2, <1>3, <1>7, ReceiveFacts, EmitFacts
<1> QED BY <1>4, <1>5, <1>6, <1>7, HeardChange

LEMMA BoundStep ==
  ASSUME ChannelsTypeOK, BoundInv, PollInv, ChannelsNext
  PROVE  BoundInv'
<1>1. HostType
  BY PartsTyped
<1>2. \A u : IsMessage(u)' <=> IsMessage(u)
  BY ChannelStays, MessagesStay
<1>3. (\A b \in Bindings : \A i \in DOMAIN heard[b] : IsMessage(heard[b][i]))'
  <2> SUFFICES ASSUME NEW b \in Bindings, NEW i \in DOMAIN heard'[b],
                      NEW u, u = heard'[b][i]
               PROVE  IsMessage(u)'
    OBVIOUS
  <2> QED BY <1>2, HeardMessages
<1> SUFFICES /\ \A b \in Active' : /\ binding'[b].agent \in Agents /\ binding'[b].by # 0
                                   /\ binding'[b].subject = stream'[binding'[b].agent]
                                   /\ binding'[b].subject # 0
             /\ \A b \in Bindings \ Active' : heard'[b] = <<>>
             /\ \A u \in Updates : \A b \in owed'[u] :
                  b \in Active' /\ adapter'[binding'[b].by].open
  <2>1. (\A u \in Updates : \A b \in owed[u] :
           u <= written /\ b \in Active /\ adapter[binding[b].by].open /\ IsMessage(u))'
    BY <1>2, OwedStep
  <2> QED BY <1>3, <2>1 DEF BoundInv
<1>4. CASE UNCHANGED <<binding, stream>>
  <2>1. Active' = Active
    BY <1>4 DEF Active
  <2> QED BY <1>4, <2>1, ActiveFacts, HeardActive, OwedStep
<1>5. CASE Unbind \/ Destroy \/ \E g \in Agents : UnbindAgent(g)
  <2>1. PICK bs \in SUBSET Active :
           /\ Unsubscribe(bs)
           /\ \A b \in Active \ bs :
                stream'[binding[b].agent] = stream[binding[b].agent]
    BY <1>1, <1>5, UnbindFacts
  <2>2. \A b \in Bindings : binding'[b] = IF b \in bs THEN NoBinding ELSE binding[b]
    BY <2>1 DEF Unsubscribe
  <2>3. Active' = Active \ bs
    BY <2>2 DEF Active
  <2>4. \A b \in bs : heard'[b] = <<>>
    BY <2>1 DEF Unsubscribe, Active
  <2>5. \A u \in Updates : \A b \in owed'[u] : b \notin bs
    BY <2>1 DEF Unsubscribe, Forgive, ChannelsTypeOK
  <2>6. \A b \in Active' : b \in Active /\ b \in Bindings /\ binding'[b] = binding[b]
                           /\ stream'[binding[b].agent] = stream[binding[b].agent]
    BY <2>1, <2>2, <2>3 DEF Active
  <2> QED BY <2>2, <2>3, <2>4, <2>5, <2>6, ActiveFacts, HeardActive, OwedStep
<1>6. CASE \E g \in Agents : Bind(g)
  <2>1. PICK g \in Agents : Bind(g)
    BY <1>6
  <2>2. registered \in 1..made /\ heard' = heard
        /\ \A h \in Agents : stream[h] # 0 => stream'[h] = stream[h]
    BY <1>1, <2>1, BindFacts
  <2>3. PICK b \in Bindings :
           /\ binding[b] = NoBinding
           /\ binding' = [binding EXCEPT ![b] =
                   [agent |-> g, by |-> registered, subject |-> stream'[g]]]
           /\ stream'[g] \in 1..streams'
    BY <1>1, <2>1, BindFacts
  <2>4. b \notin Active
    BY <2>3 DEF Active
  <2>5. /\ binding'[b].agent = g /\ binding'[b].by = registered
        /\ binding'[b].subject = stream'[g]
        /\ \A d \in Bindings : d # b => binding'[d] = binding[d]
    BY <1>1, <2>3 DEF HostType
  <2>6. registered # 0 /\ stream'[g] # 0
    BY <2>2, <2>3
  <2>7. \A d \in Active' : d \in Bindings /\ (d = b \/ d \in Active)
    BY <2>5 DEF Active
  <2>8. \A d \in Active : d \in Active' /\ d # b
    BY <2>4, <2>5 DEF Active
  <2>9. \A d \in Active : d \in Bindings /\ binding'[d] = binding[d]
                          /\ stream'[binding[d].agent] = stream[binding[d].agent]
    BY <2>2, <2>5, <2>8, ActiveFacts
  <2>10. \A d \in Bindings \ Active' : heard'[d] = <<>>
    BY <2>2, <2>8 DEF BoundInv
  <2>11. \A d \in Active' : /\ binding'[d].agent \in Agents /\ binding'[d].by # 0
                            /\ binding'[d].subject = stream'[binding'[d].agent]
                            /\ binding'[d].subject # 0
    <3> SUFFICES ASSUME NEW d \in Active'
                 PROVE  /\ binding'[d].agent \in Agents /\ binding'[d].by # 0
                        /\ binding'[d].subject = stream'[binding'[d].agent]
                        /\ binding'[d].subject # 0
      OBVIOUS
    <3>1. CASE d = b
      BY <2>5, <2>6, <3>1
    <3>2. CASE d \in Active
      <4>1. binding[d].by # 0
        BY <3>2 DEF BoundInv
      <4> QED BY <2>9, <3>2, <4>1, ActiveFacts
    <3> QED BY <2>7, <3>1, <3>2
  <2>12. \A u \in Updates : \A d \in owed'[u] :
                  d \in Active' /\ adapter'[binding'[d].by].open
    BY <2>8, <2>9, OwedStep
  <2> QED BY <2>10, <2>11, <2>12
<1>7. CASE \E g \in Agents : GetAgentStream(g)
  <2>1. heard' = heard /\ binding' = binding
        /\ \A h \in Agents : stream[h] # 0 => stream'[h] = stream[h]
    BY <1>1, <1>7, GetStreamFacts
  <2>2. Active' = Active
    BY <2>1 DEF Active
  <2>3. \A b \in Active : binding[b].by # 0
    BY DEF BoundInv
  <2> QED BY <2>1, <2>2, <2>3, ActiveFacts, HeardActive, OwedStep
<1>8. UNCHANGED host \/ Register \/ (\E c \in Callers : Deregister(c))
      => UNCHANGED <<binding, stream>>
  BY DEF host, Register, Deregister
<1> QED BY <1>4, <1>5, <1>6, <1>7, <1>8, HostChange

-----------------------------------------------------------------------------
(***************************************************************************)
(* Intervals, polls and what they bring.                                   *)
(***************************************************************************)
\* Only an adapter of a polled channel gets an interval, once it is made.
LEMMA TimersFacts ==
  ASSUME ChannelsTypeOK, PollInv, ChannelsNext, NEW a \in Adapters,
         adapter'[a].timers > 0
  PROVE  adapter[a].timers > 0 \/ (channel.polled /\ a \in 1..made)
<1>1. HostType /\ AdapterType /\ CallType /\ RestType /\ NetType /\ poll \in [Polls -> InFlight]
  BY PartsTyped
<1>2. adapter[a].timers \in Nat /\ (adapter[a].handle => adapter[a].timers > 0)
  BY <1>1 DEF AdapterType, Fields
<1>3. CASE UNCHANGED adapter
  BY <1>3
<1>4. CASE \E c \in Callers : Connect(c)
  BY <1>1, <1>2, <1>4, ConnectFacts
<1>5. CASE \E c \in Callers : Asked(c)
  <2>1. PICK c \in Callers : Asked(c)
    BY <1>5
  <2>2. CASE a # call[c].by
    BY <1>1, <2>1, <2>2, AskedFacts
  <2>3. CASE a = call[c].by
    BY <1>1, <2>1, <2>3, AskedFacts
  <2> QED BY <2>2, <2>3
<1>6. CASE \E c \in Callers : Disconnect(c)
  <2>1. PICK c \in Callers : Disconnect(c)
    BY <1>6
  <2>2. CASE a # registered
    BY <1>1, <2>1, <2>2, DisconnectFacts
  <2>3. CASE a = registered
    <3>1. adapter'[a].timers = IF adapter[a].handle THEN adapter[a].timers - 1
                               ELSE adapter[a].timers
      BY <1>1, <2>1, <2>3, DisconnectFacts
    <3> QED BY <1>2, <3>1
  <2> QED BY <2>2, <2>3
<1>7. CASE \E c \in Callers : Told(c)
  BY <1>1, <1>7, ToldFacts
<1>8. CASE \E d \in Adapters : Poll(d)
  BY <1>1, <1>8, PollFacts
<1>9. CASE \E p \in Polls : Receive(p)
  BY <1>1, <1>9, ReceiveFacts
<1> QED BY <1>3, <1>4, <1>5, <1>6, <1>7, <1>8, <1>9, AdapterChange

\* lastUpdateId only changes as an answer is gone through.
LEMMA LastFacts ==
  ASSUME ChannelsTypeOK, PollInv, ChannelsNext, NEW a \in Adapters
  PROVE  /\ adapter[a].mixed => adapter'[a].mixed
         /\ \/ adapter'[a].last = adapter[a].last
            \/ \E p \in Polls :
                 /\ Receive(p) /\ poll[p].by = a /\ poll[p].low <= poll[p].high
                 /\ adapter'[a].last = poll[p].high
                 /\ adapter'[a].mixed = adapter[a].mixed
<1>1. HostType /\ AdapterType /\ CallType /\ RestType /\ NetType /\ poll \in [Polls -> InFlight]
  BY PartsTyped
<1>3. CASE UNCHANGED adapter
  BY <1>3
<1>4. CASE \E c \in Callers : Connect(c) \/ Asked(c)
  BY <1>1, <1>4, ConnectFacts, AskedFacts
<1>5. CASE \E c \in Callers : Disconnect(c) \/ Told(c)
  BY <1>1, <1>5, DisconnectFacts, ToldFacts
<1>6. CASE \E d \in Adapters : Poll(d)
  BY <1>1, <1>6, PollFacts
<1>7. CASE \E p \in Polls : Receive(p)
  <2>1. PICK p \in Polls : Receive(p)
    BY <1>7
  <2> DEFINE d == poll[p].by
  <2>2. /\ \A e \in Adapters : e # d => adapter'[e] = adapter[e]
        /\ adapter'[a].mixed = adapter[a].mixed
        /\ d \in Adapters
        /\ adapter'[d].last = IF poll[p].low > poll[p].high THEN adapter[d].last
                              ELSE poll[p].high
        /\ poll[p].low \in Nat /\ poll[p].high \in Nat
    BY <1>1, <2>1, ReceiveFacts
  <2>3. CASE a = d /\ poll[p].low <= poll[p].high
    BY <2>1, <2>2, <2>3
  <2>4. CASE a # d \/ poll[p].low > poll[p].high
    BY <2>2, <2>4
  <2> QED BY <2>2, <2>3, <2>4
<1> QED BY <1>3, <1>4, <1>5, <1>6, <1>7, AdapterChange

LEMMA PollStep ==
  ASSUME ChannelsTypeOK, PollInv, ChannelsNext
  PROVE  PollInv'
<1>1. HostType /\ AdapterType /\ CallType /\ RestType /\ NetType /\ poll \in [Polls -> InFlight]
  BY PartsTyped
<1>2. /\ written \in Nat /\ written' \in Nat /\ written <= written'
      /\ gone \in Nat /\ gone' \in Nat /\ gone <= gone'
  BY WrittenGrows
<1>3. channel' = channel /\ made \in Nat /\ made' \in Nat /\ 1..made \subseteq 1..made'
  BY <1>1, ChannelStays, MadeGrows, MadeAdapters
<1>4. AdapterType'
  BY AdapterTypeStep
<1>5. \A a \in Adapters : /\ adapter'[a].timers \in Nat /\ adapter[a].last \in Nat
                          /\ a \in Nat /\ a >= 1
  BY <1>1, <1>4, ChannelsAssumption DEF AdapterType, Fields, Adapters
<1>6. ASSUME NEW a \in Adapters
      PROVE  /\ ~ channel.polled => adapter'[a].timers = 0
             /\ adapter'[a].timers > 0 => a <= made'
             /\ adapter'[a].last <= written'
  <2>1. /\ ~ channel.polled => adapter[a].timers = 0
        /\ adapter[a].timers > 0 => a <= made
        /\ adapter[a].last <= written
    BY DEF PollInv
  <2>2. adapter'[a].timers > 0 => channel.polled /\ a \in 1..made
    BY <1>3, <1>5, <2>1, TimersFacts
  <2>3. adapter'[a].last <= written'
    <3>1. CASE adapter'[a].last = adapter[a].last
      BY <1>2, <1>5, <2>1, <3>1
    <3>2. CASE \E p \in Polls : Receive(p) /\ adapter'[a].last = poll[p].high
      <4>1. PICK p \in Polls : Receive(p) /\ adapter'[a].last = poll[p].high
        BY <3>2
      <4>2. poll[p].answered /\ poll[p].high \in Nat
        BY <1>1, <4>1, ReceiveFacts
      <4>3. poll[p].high <= written
        BY <4>2 DEF PollInv
      <4> QED BY <1>2, <4>1, <4>2, <4>3
    <3> QED BY <3>1, <3>2, LastFacts
  <2>4. adapter'[a].timers > 0 => a <= made'
    <3>1. SUFFICES ASSUME adapter'[a].timers > 0 PROVE a <= made'
      OBVIOUS
    <3>2. a \in 1..made'
      BY <1>3, <2>2, <3>1
    <3> QED BY <1>3, <3>2
  <2>5. adapter'[a].timers > 0 \/ adapter'[a].timers = 0
    BY <1>5
  <2> QED BY <2>2, <2>3, <2>4, <2>5
<1>7. ASSUME NEW p \in Polls
      PROVE  /\ ~ channel.polled => poll'[p].by = 0
             /\ poll'[p].by # 0 => poll'[p].from \in 1..(written' + 1)
             /\ poll'[p].answered =>
                  /\ poll'[p].by # 0 /\ poll'[p].high <= written'
                  /\ poll'[p].from <= poll'[p].low /\ poll'[p].low <= gone' + 1
  <2>1. /\ ~ channel.polled => poll[p].by = 0
        /\ poll[p].by # 0 => poll[p].from \in 1..(written + 1)
        /\ poll[p].answered =>
             /\ poll[p].by # 0 /\ poll[p].high <= written
             /\ poll[p].from <= poll[p].low /\ poll[p].low <= gone + 1
    BY DEF PollInv
  <2>2. poll[p].from \in Nat /\ poll[p].low \in Nat /\ poll[p].high \in Nat
    BY <1>1, ChannelsAssumption DEF InFlight
  <2>3. CASE poll'[p] = poll[p]
    BY <1>2, <2>1, <2>2, <2>3
  <2>4. CASE poll'[p] = NoPoll
    BY <2>4 DEF NoPoll
  <2>5. CASE \E a \in Adapters : Poll(a)
    <3>1. PICK a \in Adapters : Poll(a)
      BY <2>5
    <3>2. PICK q \in Polls :
              /\ \A r \in Polls : r # q => poll'[r] = poll[r]
              /\ poll'[q].by = a /\ poll'[q].from = adapter[a].last + 1
              /\ ~ poll'[q].answered
      BY <1>1, <3>1, PollFacts
    <3>3. adapter[a].timers > 0 /\ adapter[a].last <= written /\ channel.polled
      <4>1. adapter[a].timers > 0
        BY <1>1, <3>1, PollFacts
      <4> QED BY <4>1 DEF PollInv
    <3>4. CASE p = q
      <4>1. adapter[a].last + 1 \in 1..(written' + 1)
        BY <1>2, <1>5, <3>3
      <4> QED BY <3>2, <3>3, <3>4, <4>1
    <3> QED BY <2>3, <3>2, <3>4
  <2>6. CASE \E q \in Polls : Meet(q)
    <3>1. PICK q \in Polls : Meet(q)
      BY <2>6
    <3>2. /\ poll[q].by # 0
          /\ \A r \in Polls : r # q => poll'[r] = poll[r]
          /\ poll'[q].by = poll[q].by /\ poll'[q].from = poll[q].from
          /\ poll'[q].low = gone' + 1 /\ poll'[q].high = written
          /\ poll[q].from <= gone' + 1
      BY <1>1, <3>1, MeetFacts
    <3>3. CASE p = q
      BY <1>2, <2>1, <2>2, <3>2, <3>3
    <3> QED BY <2>3, <3>2, <3>3
  <2>7. CASE \E q \in Polls : LosePoll(q) \/ Receive(q)
    <3>1. poll'[p] = NoPoll \/ poll'[p] = poll[p]
      BY <1>1, <2>7 DEF LosePoll, Receive
    <3> QED BY <2>3, <2>4, <3>1
  <2> QED BY <2>3, <2>5, <2>6, <2>7, PollChange
<1> QED BY <1>3, <1>6, <1>7 DEF PollInv

-----------------------------------------------------------------------------
(***************************************************************************)
(* The order in which updates are heard.                                   *)
(***************************************************************************)
Sorted(s) == \A i, j \in 1..Len(s) : i < j => s[i] < s[j]

\* What comes later is emitted later: a sorted history stays sorted.
LEMMA EmitOrder ==
  ASSUME HeardType, NetType, NEW a, NEW us, us \subseteq 1..written, Emit(a, us),
         NEW b \in Bindings, Sorted(heard[b]),
         \A i \in 1..Len(heard[b]) : \A u \in us : Hears(b, a) => heard[b][i] < u
  PROVE  Sorted(heard'[b])
<1>1. /\ Len(heard[b]) \in Nat /\ Len(heard'[b]) \in Nat
      /\ Len(heard[b]) <= Len(heard'[b])
      /\ \A i \in 1..Len(heard[b]) : heard'[b][i] = heard[b][i]
      /\ \A i \in 1..Len(heard'[b]) : i > Len(heard[b]) =>
           Hears(b, a) /\ heard'[b][i] \in us
      /\ \A i, j \in 1..Len(heard'[b]) :
           Len(heard[b]) < i /\ i < j => heard'[b][i] < heard'[b][j]
  BY EmitFacts
<1> SUFFICES ASSUME NEW i \in 1..Len(heard'[b]), NEW j \in 1..Len(heard'[b]), i < j
             PROVE  heard'[b][i] < heard'[b][j]
  BY DEF Sorted
<1>2. CASE i > Len(heard[b])
  BY <1>1, <1>2
<1>3. CASE i <= Len(heard[b]) /\ j > Len(heard[b])
  <2>1. i \in 1..Len(heard[b])
    BY <1>1, <1>3
  <2>2. Hears(b, a) /\ heard'[b][j] \in us
    BY <1>1, <1>3
  <2>3. heard[b][i] < heard'[b][j]
    BY <2>1, <2>2
  <2> QED BY <1>1, <2>1, <2>3
<1>4. CASE i <= Len(heard[b]) /\ j <= Len(heard[b])
  <2>1. i \in 1..Len(heard[b]) /\ j \in 1..Len(heard[b])
    BY <1>1, <1>4
  <2> QED BY <1>1, <2>1 DEF Sorted
<1> QED BY <1>1, <1>2, <1>3, <1>4

\* A binding that is there was there before, or has heard nothing.
LEMMA ActiveStep ==
  ASSUME ChannelsTypeOK, BoundInv, PollInv, ChannelsNext, NEW b \in Active'
  PROVE  b \in Bindings /\ (heard'[b] = <<>> \/ (b \in Active /\ binding'[b] = binding[b]))
<1>1. HostType
  BY PartsTyped
<1>2. b \in Bindings /\ binding'[b] # NoBinding
  BY DEF Active
<1>3. CASE b \notin Active
  BY <1>2, <1>3, HeardActive
<1>4. CASE b \in Active
  <2>1. CASE UNCHANGED binding
    BY <1>2, <1>4, <2>1
  <2>2. CASE Unbind \/ Destroy \/ \E g \in Agents : UnbindAgent(g)
    <3>1. PICK bs : Unsubscribe(bs)
      BY <2>2 DEF Unbind, Destroy, UnbindAgent
    <3> QED BY <1>2, <1>4, <3>1 DEF Unsubscribe
  <2>3. CASE \E g \in Agents : Bind(g)
    <3>1. PICK d \in Bindings :
            binding[d] = NoBinding /\ \E x : binding' = [binding EXCEPT ![d] = x]
      BY <2>3 DEF Bind
    <3>2. b # d
      BY <1>4, <3>1 DEF Active
    <3> QED BY <1>1, <1>2, <1>4, <3>1, <3>2 DEF HostType
  <2> QED BY <2>1, <2>2, <2>3, HostChange DEF host, Register, Deregister, GetAgentStream
<1> QED BY <1>3, <1>4

\* What is asked for, and what comes, is after all that has been passed on.
LEMMA AnswerIsLater ==
  ASSUME ChannelsTypeOK, PollInv, OrderInv, NEW p \in Polls, Receive(p),
         NEW a, a = poll[p].by, ~ adapter[a].mixed
  PROVE  /\ a \in Adapters /\ channel.polled
         /\ poll[p].low \in Nat /\ adapter[a].last \in Nat
         /\ adapter[a].last < poll[p].low
         /\ \A q \in Polls : poll[q].by = a => q = p
<1>1. AdapterType /\ NetType /\ poll \in [Polls -> InFlight]
  BY PartsTyped
<1>2. a \in Adapters /\ poll[p].answered /\ poll[p].low \in Nat
  BY <1>1, ReceiveFacts
<1>3. adapter[a].last \in Nat /\ poll[p].from \in Nat
  BY <1>1, <1>2, ChannelsAssumption DEF AdapterType, Fields, InFlight
<1>4. a # 0 /\ poll[p].from <= poll[p].low /\ channel.polled
  BY <1>2 DEF PollInv
<1>5. /\ poll[p].from = adapter[a].last + 1
      /\ \A q \in Polls : poll[q].by = a => q = p
  BY <1>4 DEF OrderInv
<1> QED BY <1>2, <1>3, <1>4, <1>5

LEMMA PassedOnGrows ==
  ASSUME ChannelsTypeOK, PollInv, OrderInv, ChannelsNext, NEW a \in Adapters,
         ~ adapter[a].mixed
  PROVE  /\ adapter[a].last \in Nat /\ adapter'[a].last \in Nat
         /\ adapter[a].last <= adapter'[a].last
<1>1. AdapterType /\ AdapterType'
  BY PartsTyped, AdapterTypeStep
<1>2. adapter[a].last \in Nat /\ adapter'[a].last \in Nat
  BY <1>1, ChannelsAssumption DEF AdapterType, Fields
<1>3. CASE adapter'[a].last = adapter[a].last
  BY <1>2, <1>3
<1>4. CASE \E p \in Polls :
               /\ Receive(p) /\ poll[p].by = a /\ poll[p].low <= poll[p].high
               /\ adapter'[a].last = poll[p].high
  BY <1>2, <1>4, AnswerIsLater
<1> QED BY <1>2, <1>3, <1>4, LastFacts

LEMMA OrderHeard ==
  ASSUME ChannelsTypeOK, BoundInv, PollInv, OrderInv, ChannelsNext,
         channel.polled,
         NEW b \in Active, NEW a, a = binding[b].by, ~ adapter[a].mixed
  PROVE  Sorted(heard'[b]) /\ \A i \in 1..Len(heard'[b]) : heard'[b][i] <= adapter'[a].last
<1>1. AdapterType /\ HeardType /\ NetType /\ poll \in [Polls -> InFlight]
  BY PartsTyped
<1>2. b \in Bindings /\ a \in Adapters
  BY ActiveFacts
<1>3. Sorted(heard[b]) /\ \A i \in 1..Len(heard[b]) : heard[b][i] <= adapter[a].last
  BY DEF OrderInv, HeardInOrder, Sorted
<1>4. adapter[a].last \in Nat /\ adapter'[a].last \in Nat /\ adapter[a].last <= adapter'[a].last
  BY <1>2, PassedOnGrows
<1>5. /\ heard[b] \in Seq(1..written) /\ Len(heard[b]) \in Nat
      /\ \A i \in 1..Len(heard[b]) : heard[b][i] \in Nat
  <2>1. heard[b] \in Seq(1..written)
    BY <1>1, <1>2 DEF HeardType
  <2>2. Len(heard[b]) \in Nat /\ \A i \in 1..Len(heard[b]) : heard[b][i] \in 1..written
    BY <2>1, LenProperties, ElementOfSeq
  <2>3. 1..written \subseteq Nat
    BY <1>1, ChannelsAssumption DEF NetType
  <2> QED BY <2>1, <2>2, <2>3
<1>6. \A i \in 1..Len(heard[b]) : heard[b][i] <= adapter'[a].last
  BY <1>3, <1>4, <1>5
<1>7. CASE heard'[b] = heard[b]
  BY <1>3, <1>6, <1>7
<1>8. CASE heard'[b] = <<>>
  BY <1>8 DEF Sorted
<1>9. ASSUME NEW d, NEW us, us \subseteq 1..written, Emit(d, us),
             \A u \in us : Hears(b, d) => u \in Nat /\ adapter[a].last < u /\ u <= adapter'[a].last
      PROVE  Sorted(heard'[b]) /\ \A i \in 1..Len(heard'[b]) : heard'[b][i] <= adapter'[a].last
  <2>1. \A i \in 1..Len(heard[b]) : \A u \in us : Hears(b, d) => heard[b][i] < u
    BY <1>3, <1>4, <1>5, <1>9
  <2>2. Sorted(heard'[b])
    BY <1>1, <1>2, <1>3, <1>9, <2>1, EmitOrder
  <2>3. /\ Len(heard'[b]) \in Nat
        /\ \A i \in 1..Len(heard[b]) : heard'[b][i] = heard[b][i]
        /\ \A i \in 1..Len(heard'[b]) : i > Len(heard[b]) =>
             Hears(b, d) /\ heard'[b][i] \in us
    BY <1>1, <1>2, <1>9, EmitFacts
  <2>4. ASSUME NEW i \in 1..Len(heard'[b])
        PROVE  heard'[b][i] <= adapter'[a].last
    <3>1. CASE i > Len(heard[b])
      BY <1>9, <2>3, <3>1
    <3>2. CASE ~ (i > Len(heard[b]))
      <4>1. i \in 1..Len(heard[b])
        BY <1>5, <2>3, <3>2
      <4> QED BY <1>6, <2>3, <4>1
    <3> QED BY <3>1, <3>2
  <2> QED BY <2>2, <2>4
<1>10. CASE \E u \in Updates : HandleWebhook(u)
  BY <1>10 DEF HandleWebhook
<1>11. CASE \E p \in Polls : Receive(p)
  <2>1. PICK p \in Polls : Receive(p)
    BY <1>11
  <2> DEFINE us == poll[p].low..poll[p].high
             d == poll[p].by
  <2>2. /\ us \subseteq 1..written /\ Emit(d, us)
        /\ poll[p].low \in Nat /\ poll[p].high \in Nat
        /\ adapter'[d].last = IF poll[p].low > poll[p].high THEN adapter[d].last
                              ELSE poll[p].high
    BY <1>1, <2>1, ReceiveFacts
  <2>3. \A u \in us : Hears(b, d) => u \in Nat /\ adapter[a].last < u /\ u <= adapter'[a].last
    <3> SUFFICES ASSUME NEW u \in us, Hears(b, d)
                 PROVE  u \in Nat /\ adapter[a].last < u /\ u <= adapter'[a].last
      OBVIOUS
    <3>1. a = d
      BY DEF Hears, Subscribed
    <3>2. /\ channel.polled /\ adapter[a].last < poll[p].low /\ adapter[a].last \in Nat
      BY <2>1, <3>1, AnswerIsLater
    <3>4. u \in Nat /\ poll[p].low <= u /\ u <= poll[p].high
      BY <2>2
    <3> QED BY <2>2, <3>1, <3>2, <3>4
  <2> QED BY <1>9, <2>2, <2>3
<1>12. CASE Unbind \/ Destroy \/ \E g \in Agents : UnbindAgent(g)
  <2>1. heard'[b] = <<>> \/ heard'[b] = heard[b]
    BY <1>2, <1>12 DEF Unbind, Destroy, UnbindAgent, Unsubscribe
  <2> QED BY <1>7, <1>8, <2>1
<1> QED BY <1>7, <1>10, <1>11, <1>12, HeardChange

LEMMA OrderPolls ==
  ASSUME ChannelsTypeOK, PollInv, OrderInv, ChannelsNext, NEW p \in Polls,
         poll'[p].by # 0, ~ adapter'[poll'[p].by].mixed
  PROVE  /\ poll'[p].from = adapter'[poll'[p].by].last + 1
         /\ \A q \in Polls : poll'[q].by = poll'[p].by => q = p
<1>1. HostType /\ AdapterType /\ CallType /\ RestType /\ NetType /\ poll \in [Polls -> InFlight]
  BY PartsTyped
<1>2. (poll \in [Polls -> InFlight])'
  BY PollTypeStep
<1> DEFINE a == poll'[p].by
<1>3. a \in Adapters
  BY <1>2, ChannelsAssumption DEF InFlight, Adapters
<1>4. ~ adapter[a].mixed
  BY <1>3, LastFacts
<1>5. poll[p].by = a =>
        /\ poll[p].from = adapter[a].last + 1
        /\ \A q \in Polls : poll[q].by = a => q = p
  BY <1>3, <1>4, ChannelsAssumption DEF OrderInv, Adapters
<1>6. adapter'[a].last = adapter[a].last \/ \E q \in Polls : Receive(q) /\ poll[q].by = a
  BY <1>3, LastFacts
<1> HIDE DEF a
<1>0. a = poll'[p].by
  BY DEF a
<1>7. CASE UNCHANGED poll
  <2>1. ~ \E q \in Polls : Receive(q) /\ poll[q].by = a
    <3>1. SUFFICES ASSUME NEW q \in Polls, Receive(q), poll[q].by = a PROVE FALSE
      OBVIOUS
    <3>2. poll' = [poll EXCEPT ![q] = NoPoll]
      BY <3>1 DEF Receive
    <3>3. poll[q].by = 0
      BY <1>1, <1>7, <3>2 DEF NoPoll
    <3> QED BY <1>0, <3>1, <3>3
  <2> QED BY <1>0, <1>5, <1>6, <1>7, <2>1
<1>8. CASE \E d \in Adapters : Poll(d)
  <2>1. PICK d \in Adapters : Poll(d)
    BY <1>8
  <2>2. /\ adapter'[a].last = adapter[a].last
        /\ (\E q \in Polls : poll[q].by = d) => adapter'[d].mixed
    BY <1>1, <1>3, <2>1, PollFacts
  <2>3. PICK q \in Polls :
          /\ \A r \in Polls : r # q => poll'[r] = poll[r]
          /\ poll'[q].by = d /\ poll'[q].from = adapter[d].last + 1
    BY <1>1, <2>1, PollFacts
  <2>4. CASE p = q
    <3>1. a = d /\ ~ \E r \in Polls : poll[r].by = d
      BY <1>0, <2>2, <2>3, <2>4
    <3> QED BY <1>0, <2>2, <2>3, <2>4, <3>1
  <2>5. CASE p # q
    <3>1. poll'[p] = poll[p] /\ poll[p].by = a
      BY <1>0, <2>3, <2>5
    <3>2. d # a
      BY <1>0, <2>2, <3>1
    <3> QED BY <1>0, <1>5, <2>2, <2>3, <3>1, <3>2
  <2> QED BY <2>4, <2>5
<1>9. CASE \E q \in Polls : Meet(q)
  <2>1. PICK q \in Polls : Meet(q)
    BY <1>9
  <2>2. /\ \A r \in Polls : poll'[r].by = poll[r].by /\ poll'[r].from = poll[r].from
        /\ adapter' = adapter
    BY <1>1, <2>1, MeetFacts DEF Meet
  <2> QED BY <1>0, <1>5, <2>2
<1>10. CASE \E q \in Polls : LosePoll(q) \/ Receive(q)
  <2>1. PICK q \in Polls : LosePoll(q) \/ Receive(q)
    BY <1>10
  <2>2. poll' = [poll EXCEPT ![q] = NoPoll]
    BY <2>1 DEF LosePoll, Receive
  <2>3. p # q /\ \A r \in Polls : poll'[r].by = a => r # q /\ poll'[r] = poll[r]
    BY <1>0, <1>1, <2>2 DEF NoPoll
  <2>4. poll[p].by = a /\ poll'[p] = poll[p]
    BY <1>0, <2>3
  <2>5. poll[q].by # a
    BY <1>5, <2>3, <2>4
  <2>6. adapter'[a].last = adapter[a].last
    <3>1. CASE LosePoll(q)
      BY <3>1 DEF LosePoll
    <3>2. CASE Receive(q)
      BY <1>1, <1>3, <2>5, <3>2, ReceiveFacts
    <3> QED BY <2>1, <3>1, <3>2
  <2> QED BY <1>0, <1>5, <2>3, <2>4, <2>6
<1> QED BY <1>7, <1>8, <1>9, <1>10, PollChange

LEMMA OrderStep ==
  ASSUME ChannelsTypeOK, BoundInv, PollInv, OrderInv, ChannelsNext
  PROVE  OrderInv'
<1>1. ASSUME channel.polled, NEW b \in Active', NEW a, a = binding'[b].by,
             ~ adapter'[a].mixed
      PROVE  /\ Sorted(heard'[b])
             /\ \A i \in 1..Len(heard'[b]) : heard'[b][i] <= adapter'[a].last
  <2>1. CASE heard'[b] = <<>>
    BY <2>1 DEF Sorted
  <2>2. CASE b \in Active /\ binding'[b] = binding[b]
    <3>1. a = binding[b].by /\ a \in Adapters
      BY <1>1, <2>2, ActiveFacts
    <3>2. ~ adapter[a].mixed
      BY <1>1, <3>1, LastFacts
    <3> QED BY <1>1, <2>2, <3>1, <3>2, OrderHeard
  <2> QED BY <2>1, <2>2, ActiveStep
<1>2. channel' = channel
  BY ChannelStays
<1>3. HeardInOrder'
  BY <1>1, <1>2 DEF HeardInOrder, Sorted
<1>4. (channel.polled => \A b \in Active : ~ adapter[binding[b].by].mixed =>
         \A i \in 1..Len(heard[b]) : heard[b][i] <= adapter[binding[b].by].last)'
  BY <1>1, <1>2
<1>5. (\A p \in Polls : poll[p].by # 0 /\ ~ adapter[poll[p].by].mixed =>
         /\ poll[p].from = adapter[poll[p].by].last + 1
         /\ \A q \in Polls : poll[q].by = poll[p].by => q = p)'
  BY OrderPolls
<1> QED BY <1>3, <1>4, <1>5 DEF OrderInv

-----------------------------------------------------------------------------
(***************************************************************************)
(* One call at a time.                                                     *)
(***************************************************************************)
\* What SerialInv is about, after a step.
Serial ==
  /\ \A c, d \in Callers : call[c] # NoCall /\ call[d] # NoCall => c = d
  /\ \A a \in 1..made : adapter[a].open => a = registered
  /\ \A c \in Callers : call[c] # NoCall =>
       /\ call[c].by = registered
       /\ call[c].at = "disconnected" => ~ adapter[registered].open
  /\ ~ reused => \A a \in Adapters : OnceConnected(a)

LEMMA SerialMeans ==
  /\ SerialInv <=> (~ overlap => Serial)
  /\ SerialInv' <=> (~ overlap' => Serial')
BY DEF SerialInv, Serial

LEMMA SerialFacts ==
  ASSUME ChannelsTypeOK, Serial, NEW a \in Adapters
  PROVE  /\ adapter[a].timers \in Nat /\ (adapter[a].handle => adapter[a].timers > 0)
         /\ adapter[a].open \in BOOLEAN
         /\ a \in 1..made /\ adapter[a].open => a = registered
         /\ ~ reused => OnceConnected(a)
BY DEF Serial, ChannelsTypeOK, Fields

LEMMA RegisterSerial ==
  ASSUME ChannelsTypeOK, Serial, ~ overlap, Register
  PROVE  Serial'
<1>1. HostType
  BY PartsTyped
<1>2. /\ \A c \in Callers : call[c] = NoCall
      /\ registered = 0 /\ made' = made + 1 /\ registered' = made'
      /\ call' = call /\ adapter' = adapter /\ poll' = poll /\ reused' = reused
  BY DEF Register, Begins
<1>3. made \in Nat
  BY <1>1, MadeAdapters
<1>4. \A a \in 1..made' : adapter'[a].open => a = registered'
  <2> SUFFICES ASSUME NEW a \in 1..made', adapter[a].open
               PROVE  a = made'
    BY <1>2
  <2>1. CASE a \in 1..made
    <3>1. a = 0
      BY <1>2, <2>1 DEF Serial
    <3> QED BY <1>3, <2>1, <3>1
  <2>2. CASE a \notin 1..made
    BY <1>2, <1>3, <2>2
  <2> QED BY <2>1, <2>2
<1>5. \A a : OnceConnected(a)' <=> OnceConnected(a)
  BY <1>2 DEF OnceConnected, Settled
<1>6. (~ reused => \A a \in Adapters : OnceConnected(a))'
  BY <1>2, <1>5 DEF Serial
<1> QED BY <1>2, <1>4, <1>6 DEF Serial

\* An adapter that a call is not about stays as fresh as it was.
LEMMA FreshElsewhere ==
  ASSUME NEW a \in Adapters, OnceConnected(a), adapter'[a] = adapter[a],
         \A p \in Polls : poll'[p].by = a => poll[p].by = a,
         \A c \in Callers : call'[c].by = a /\ call'[c] # NoCall => call'[c] = call[c],
         \A c \in Callers : call[c].at = "asking" => call[c].by # a
  PROVE  OnceConnected(a)'
<1>1. Settled(a) => Settled(a)'
  <2>1. \A c \in Callers : call'[c].at = "asking" => call'[c] # NoCall
    BY DEF NoCall
  <2> QED BY <2>1 DEF Settled
<1> QED BY <1>1 DEF OnceConnected

LEMMA ConnectSerial ==
  ASSUME ChannelsTypeOK, Serial, ~ overlap, NEW c \in Callers, Connect(c)
  PROVE  Serial'
<1>1. HostType /\ AdapterType /\ RestType /\ CallType
  BY PartsTyped
<1> PICK a : a = registered
  OBVIOUS
<1>2. /\ \A d \in Callers : call[d] = NoCall
      /\ reused' = (reused \/ adapter[a].asked \/ ~ adapter[a].open)
      /\ made' = made /\ registered' = registered /\ poll' = poll
  BY DEF Connect, Begins, host
<1>3. /\ a \in 1..made /\ a \in Adapters /\ AdapterType'
      /\ \A d \in Adapters : d # a => adapter'[d] = adapter[d]
      /\ \A d \in Adapters : /\ adapter'[d].open = adapter[d].open
                             /\ adapter'[d].last = adapter[d].last
      /\ adapter'[a].asked
  BY <1>1, ConnectFacts
<1>4. \/ /\ adapter'[a].timers = adapter[a].timers
         /\ call' = [call EXCEPT ![c] = [op |-> "connect", by |-> a, at |-> "asking"]]
      \/ /\ adapter'[a].handle = channel.polled
         /\ adapter'[a].timers = IF channel.polled THEN adapter[a].timers + 1
                                 ELSE adapter[a].timers
         /\ call' = call
  BY <1>1, ConnectFacts
<1>5. /\ \A d \in Callers : d # c => call'[d] = NoCall
      /\ call'[c] = NoCall \/ call'[c] = [op |-> "connect", by |-> a, at |-> "asking"]
  BY <1>1, <1>2, <1>4 DEF CallType
<1>6. 1..made \subseteq Adapters
  BY <1>1, MadeAdapters
<1>7. ASSUME ~ reused', NEW d \in Adapters
      PROVE  OnceConnected(d)'
  <2>1. ~ reused /\ ~ adapter[a].asked /\ adapter[a].open
    BY <1>2, <1>7
  <2>2. OnceConnected(d) /\ OnceConnected(a)
    BY <1>3, <2>1, SerialFacts
  <2>3. CASE d # a
    <3>1. \A e \in Callers : call[e].at # "asking"
      BY <1>2 DEF NoCall
    <3>2. \A e \in Callers : call'[e].by = d => call'[e] = NoCall
      BY <1>5, <2>3
    <3> QED BY <1>2, <1>3, <2>2, <2>3, <3>1, <3>2, FreshElsewhere
  <2>4. CASE d = a
    <3>1. /\ adapter[a].timers = 0 /\ adapter[a].last = 0
          /\ \A p \in Polls : poll[p].by # a
      BY <2>1, <2>2 DEF OnceConnected, Settled
    <3>2. adapter'[a].open /\ adapter'[a].last = 0 /\ \A p \in Polls : poll'[p].by # a
      BY <1>2, <1>3, <2>1, <3>1
    <3>3. CASE /\ adapter'[a].timers = adapter[a].timers
               /\ call' = [call EXCEPT ![c] = [op |-> "connect", by |-> a, at |-> "asking"]]
      <4>1. adapter'[a].timers = 0
        BY <3>1, <3>3
      <4>2. \A e \in Callers : call'[e] # NoCall => call'[e].at = "asking"
        BY <1>5
      <4> QED BY <2>4, <3>2, <4>1, <4>2 DEF OnceConnected
    <3>4. CASE /\ adapter'[a].handle = channel.polled
               /\ adapter'[a].timers = IF channel.polled THEN adapter[a].timers + 1
                                       ELSE adapter[a].timers
               /\ call' = call
      <4>1. \A e \in Callers : call'[e] = NoCall /\ call'[e].at # "asking"
        BY <1>2, <3>4 DEF NoCall
      <4>2. Settled(a)'
        BY <1>3, <4>1 DEF Settled
      <4>3. adapter'[a].timers > 0 => adapter'[a].handle /\ adapter'[a].timers = 1
        BY <3>1, <3>4
      <4> QED BY <2>4, <3>2, <4>1, <4>2, <4>3 DEF OnceConnected
    <3> QED BY <1>4, <3>3, <3>4
  <2> QED BY <2>3, <2>4
<1>8. \A d \in 1..made' : adapter'[d].open => d = registered'
  BY <1>2, <1>3, <1>6 DEF Serial
<1> QED BY <1>2, <1>5, <1>7, <1>8 DEF Serial

LEMMA AskedSerial ==
  ASSUME ChannelsTypeOK, Serial, ~ overlap, NEW c \in Callers, Asked(c)
  PROVE  Serial'
<1>1. HostType /\ AdapterType /\ RestType /\ CallType
  BY PartsTyped
<1> PICK a : a = call[c].by
  OBVIOUS
<1>2. /\ call[c].at = "asking" /\ call' = [call EXCEPT ![c] = NoCall]
      /\ made' = made /\ registered' = registered /\ poll' = poll /\ reused' = reused
  BY DEF Asked, Return, host
<1>3. /\ call[c] # NoCall /\ a \in Adapters
      /\ \A d \in Adapters : d # a => adapter'[d] = adapter[d]
      /\ \A d \in Adapters : /\ adapter'[d].open = adapter[d].open
                             /\ adapter'[d].last = adapter[d].last
      /\ adapter[a].asked => adapter'[a].asked
      /\ \/ /\ adapter'[a].timers = adapter[a].timers
            /\ adapter'[a].handle = adapter[a].handle
         \/ /\ adapter'[a].handle = channel.polled /\ adapter'[a].asked
            /\ adapter'[a].timers = IF channel.polled THEN adapter[a].timers + 1
                                    ELSE adapter[a].timers
  BY <1>1, AskedFacts
<1>4. \A d \in Callers : d # c => call[d] = NoCall
  BY <1>3 DEF Serial
<1>5. \A d \in Callers : call'[d] = NoCall /\ call'[d].at # "asking"
  BY <1>1, <1>2, <1>4 DEF CallType, NoCall
<1>6. 1..made \subseteq Adapters
  BY <1>1, MadeAdapters
<1>7. ASSUME ~ reused', NEW d \in Adapters
      PROVE  OnceConnected(d)'
  <2>1. OnceConnected(d) /\ OnceConnected(a)
    BY <1>2, <1>3, <1>7, SerialFacts
  <2>2. CASE d # a
    <3>1. \A e \in Callers : call[e].at = "asking" => call[e].by # d
      BY <1>4, <2>2 DEF NoCall
    <3> QED BY <1>2, <1>3, <1>5, <2>1, <2>2, <3>1, FreshElsewhere
  <2>3. CASE d = a
    <3>1. ~ Settled(a)
      BY <1>2 DEF Settled
    <3>2. /\ adapter[a].timers = 0 /\ adapter[a].last = 0 /\ adapter[a].open
          /\ \A p \in Polls : poll[p].by # a
      BY <1>2, <1>3, <2>1, <3>1 DEF OnceConnected
    <3>3. adapter'[a].open /\ adapter'[a].last = 0 /\ \A p \in Polls : poll'[p].by # a
      BY <1>2, <1>3, <3>2
    <3>4. /\ adapter'[a].timers > 0 => adapter'[a].handle /\ adapter'[a].timers = 1
          /\ ~ adapter'[a].asked => adapter'[a].timers = 0
      BY <1>3, <3>2
    <3>5. ~ Settled(a)' => adapter'[a].timers = 0
      BY <1>5, <3>4 DEF Settled
    <3> QED BY <1>5, <2>3, <3>3, <3>4, <3>5 DEF OnceConnected
  <2> QED BY <2>2, <2>3
<1>8. \A d \in 1..made' : adapter'[d].open => d = registered'
  BY <1>2, <1>3, <1>6 DEF Serial
<1> QED BY <1>5, <1>7, <1>8 DEF Serial

LEMMA DisconnectSerial ==
  ASSUME ChannelsTypeOK, Serial, ~ overlap, NEW c \in Callers, Disconnect(c)
  PROVE  Serial'
<1>1. HostType /\ AdapterType /\ CallType
  BY PartsTyped
<1> PICK a : a = registered
  OBVIOUS
<1>2. /\ \A d \in Callers : call[d] = NoCall
      /\ made' = made /\ registered' = registered /\ poll' = poll /\ reused' = reused
  BY DEF Disconnect, Begins, host
<1>3. /\ a \in 1..made /\ a \in Adapters
      /\ \A d \in Adapters : d # a => adapter'[d] = adapter[d]
      /\ \A d \in Adapters : /\ adapter'[d].last = adapter[d].last
                             /\ adapter'[d].asked = adapter[d].asked
      /\ adapter'[a].timers = IF adapter[a].handle THEN adapter[a].timers - 1
                              ELSE adapter[a].timers
  BY <1>1, DisconnectFacts
<1>4. PICK op \in {"disconnect", "unregister", "disconnectAll"} :
        \/ call' = [call EXCEPT ![c] = [op |-> op, by |-> a, at |-> "telling"]]
        \/ /\ adapter'[a].open = FALSE
           /\ \/ call' = call
              \/ call' = [call EXCEPT ![c] = [op |-> op, by |-> a, at |-> "disconnected"]]
  BY <1>1, DisconnectFacts DEF Completes
<1>5. /\ \A d \in Callers : d # c => call'[d] = NoCall
      /\ \/ call'[c] = NoCall
         \/ call'[c] = [op |-> op, by |-> a, at |-> "telling"]
         \/ /\ call'[c] = [op |-> op, by |-> a, at |-> "disconnected"]
            /\ adapter'[a].open = FALSE
  BY <1>1, <1>2, <1>4 DEF CallType
<1>6. 1..made \subseteq Adapters
  BY <1>1, MadeAdapters
<1>7. ASSUME ~ reused', NEW d \in Adapters
      PROVE  OnceConnected(d)'
  <2>1. OnceConnected(d) /\ OnceConnected(a)
    BY <1>2, <1>3, <1>7, SerialFacts
  <2>2. \A e \in Callers : call[e].at # "asking" /\ call'[e].at # "asking"
    BY <1>2, <1>5 DEF NoCall
  <2>3. CASE d # a
    <3>1. \A e \in Callers : call'[e].by = d => call'[e] = NoCall
      BY <1>5, <2>3
    <3> QED BY <1>2, <1>3, <2>1, <2>2, <2>3, <3>1, FreshElsewhere
  <2>4. CASE d = a
    <3>1. adapter'[a].timers = 0
      <4>1. /\ adapter[a].timers \in Nat /\ (adapter[a].handle => adapter[a].timers > 0)
            /\ adapter[a].timers > 0 => adapter[a].handle /\ adapter[a].timers = 1
        BY <1>3, <2>1, SerialFacts DEF OnceConnected
      <4> QED BY <1>3, <4>1
    <3>2. Settled(a)' <=> Settled(a)
      BY <1>3, <2>2 DEF Settled
    <3>3. ~ Settled(a) => adapter[a].last = 0 /\ \A p \in Polls : poll[p].by # a
      BY <2>1 DEF OnceConnected
    <3>4. ~ Settled(a)' => adapter'[a].last = 0 /\ \A p \in Polls : poll'[p].by # a
      BY <1>2, <1>3, <3>2, <3>3
    <3> QED BY <2>2, <2>4, <3>1, <3>4 DEF OnceConnected
  <2> QED BY <2>3, <2>4
<1>8. \A d \in 1..made' : adapter'[d].open => d = registered'
  BY <1>2, <1>3, <1>6 DEF Serial
<1> QED BY <1>2, <1>5, <1>7, <1>8 DEF Serial

LEMMA ToldSerial ==
  ASSUME ChannelsTypeOK, Serial, ~ overlap, NEW c \in Callers, Told(c)
  PROVE  Serial'
<1>1. HostType /\ AdapterType /\ CallType
  BY PartsTyped
<1> PICK a : a = call[c].by
  OBVIOUS
<1>2. /\ call[c].at = "telling"
      /\ made' = made /\ registered' = registered /\ poll' = poll /\ reused' = reused
  BY DEF Told, host
<1>3. /\ call[c] # NoCall /\ a \in Adapters
      /\ \A d \in Adapters : d # a => adapter'[d] = adapter[d]
      /\ \A d \in Adapters : /\ adapter'[d].last = adapter[d].last
                             /\ adapter'[d].asked = adapter[d].asked
                             /\ adapter'[d].timers = adapter[d].timers
                             /\ adapter'[d].handle = adapter[d].handle
      /\ adapter'[a].open = FALSE
      /\ \/ call' = [call EXCEPT ![c] = NoCall]
         \/ call' = [call EXCEPT ![c] =
              [op |-> call[c].op, by |-> a, at |-> "disconnected"]]
  <2>1. Completes(a)
    BY <1>1, ToldFacts
  <2>2. adapter'[a].open = FALSE
    BY <2>1 DEF Completes
  <2> QED BY <1>1, <2>2, ToldFacts
<1>4. a = registered /\ \A d \in Callers : d # c => call[d] = NoCall
  BY <1>3 DEF Serial
<1>5. /\ \A d \in Callers : d # c => call'[d] = NoCall
      /\ \/ call'[c] = NoCall
         \/ call'[c] = [op |-> call[c].op, by |-> a, at |-> "disconnected"]
  BY <1>1, <1>3, <1>4 DEF CallType
<1>6. 1..made \subseteq Adapters
  BY <1>1, MadeAdapters
<1>7. ASSUME ~ reused', NEW d \in Adapters
      PROVE  OnceConnected(d)'
  <2>1. OnceConnected(d) /\ OnceConnected(a)
    BY <1>2, <1>3, <1>7, SerialFacts
  <2>2. \A e \in Callers : call[e].at # "asking" /\ call'[e].at # "asking"
    BY <1>2, <1>4, <1>5 DEF NoCall
  <2>3. CASE d # a
    <3>1. \A e \in Callers : call'[e].by = d => call'[e] = NoCall
      BY <1>5, <2>3
    <3> QED BY <1>2, <1>3, <2>1, <2>2, <2>3, <3>1, FreshElsewhere
  <2>4. CASE d = a
    <3>1. adapter'[a].timers = 0
      BY <1>2, <1>3, <2>1 DEF OnceConnected
    <3>2. Settled(a)' <=> Settled(a)
      BY <1>3, <2>2 DEF Settled
    <3>3. ~ Settled(a) => adapter[a].last = 0 /\ \A p \in Polls : poll[p].by # a
      BY <2>1 DEF OnceConnected
    <3>4. ~ Settled(a)' => adapter'[a].last = 0 /\ \A p \in Polls : poll'[p].by # a
      BY <1>2, <1>3, <3>2, <3>3
    <3> QED BY <2>2, <2>4, <3>1, <3>4 DEF OnceConnected
  <2> QED BY <2>3, <2>4
<1>8. \A d \in 1..made' : adapter'[d].open => d = registered'
  BY <1>2, <1>3, <1>6 DEF Serial
<1> QED BY <1>2, <1>3, <1>4, <1>5, <1>7, <1>8 DEF Serial

LEMMA DeregisterSerial ==
  ASSUME ChannelsTypeOK, Serial, ~ overlap, NEW c \in Callers, Deregister(c)
  PROVE  Serial'
<1>1. HostType /\ CallType
  BY PartsTyped
<1>2. /\ call[c].at = "disconnected" /\ call' = [call EXCEPT ![c] = NoCall]
      /\ made' = made /\ registered' = 0 /\ poll' = poll /\ reused' = reused
      /\ adapter' = adapter
  BY DEF Deregister, Return
<1>3. call[c] # NoCall
  BY <1>2 DEF NoCall
<1>4. ~ adapter[registered].open /\ \A d \in Callers : d # c => call[d] = NoCall
  BY <1>2, <1>3 DEF Serial
<1>5. \A d \in Callers : /\ call'[d] = NoCall /\ call'[d].at # "asking"
                         /\ call[d].at # "asking"
  BY <1>1, <1>2, <1>4 DEF CallType, NoCall
<1>6. ASSUME ~ reused', NEW d \in Adapters
      PROVE  OnceConnected(d)'
  <2>1. OnceConnected(d)
    BY <1>2, <1>6, SerialFacts
  <2> QED BY <1>2, <1>5, <2>1, FreshElsewhere
<1>7. \A d \in 1..made' : adapter'[d].open => d = registered'
  BY <1>2, <1>4 DEF Serial
<1> QED BY <1>5, <1>6, <1>7 DEF Serial

\* Polls come and go for adapters that are connected.
LEMMA PollingSerial ==
  ASSUME ChannelsTypeOK, PollInv, Serial, ~ overlap,
         \/ \E a \in Adapters : Poll(a)
         \/ \E p \in Polls : Meet(p) \/ LosePoll(p) \/ Receive(p)
  PROVE  Serial'
<1>1. HostType /\ AdapterType /\ RestType /\ NetType /\ poll \in [Polls -> InFlight]
  BY PartsTyped
<1>2. made' = made /\ registered' = registered /\ call' = call /\ reused' = reused
  BY DEF Poll, Meet, LosePoll, Receive, host
<1>3. \A d \in Adapters : /\ adapter'[d].open = adapter[d].open
                          /\ adapter'[d].timers = adapter[d].timers
                          /\ adapter'[d].handle = adapter[d].handle
                          /\ adapter'[d].asked = adapter[d].asked
  <2>1. CASE \E a \in Adapters : Poll(a)
    BY <1>1, <2>1, PollFacts
  <2>2. CASE \E p \in Polls : Meet(p) \/ LosePoll(p)
    BY <2>2 DEF Meet, LosePoll
  <2>3. CASE \E p \in Polls : Receive(p)
    BY <1>1, <2>3, ReceiveFacts
  <2> QED BY <2>1, <2>2, <2>3
<1>4. ASSUME NEW d \in Adapters, ~ reused, ~ Settled(d)
      PROVE  adapter'[d].last = 0 /\ \A p \in Polls : poll'[p].by # d
  <2>1. adapter[d].timers = 0 /\ adapter[d].last = 0 /\ \A p \in Polls : poll[p].by # d
    BY <1>4, SerialFacts DEF OnceConnected
  <2>2. CASE \E a \in Adapters : Poll(a)
    <3>1. PICK a \in Adapters : Poll(a)
      BY <2>2
    <3>2. adapter[a].timers > 0 /\ adapter'[d].last = adapter[d].last
      BY <1>1, <3>1, PollFacts
    <3>3. \E p \in Polls : /\ \A q \in Polls : q # p => poll'[q] = poll[q]
                           /\ poll'[p].by = a
      BY <1>1, <3>1, PollFacts
    <3> QED BY <2>1, <3>2, <3>3
  <2>3. CASE \E p \in Polls : Meet(p)
    <3>1. PICK p \in Polls : Meet(p)
      BY <2>3
    <3>2. /\ \A q \in Polls : poll'[q].by = poll[q].by
          /\ adapter' = adapter
      BY <1>1, <3>1, MeetFacts DEF Meet
    <3> QED BY <2>1, <3>2
  <2>4. CASE \E p \in Polls : LosePoll(p) \/ Receive(p)
    <3>1. PICK p \in Polls : LosePoll(p) \/ Receive(p)
      BY <2>4
    <3>2. poll' = [poll EXCEPT ![p] = NoPoll]
      BY <3>1 DEF LosePoll, Receive
    <3>3. \A q \in Polls : poll'[q].by = 0 \/ poll'[q] = poll[q]
      BY <1>1, <3>2 DEF NoPoll
    <3>4. d # 0
      BY ChannelsAssumption DEF Adapters
    <3>5. adapter'[d].last = adapter[d].last
      <4>1. CASE LosePoll(p)
        BY <4>1 DEF LosePoll
      <4>2. CASE Receive(p)
        BY <1>1, <2>1, <4>2, ReceiveFacts
      <4> QED BY <3>1, <4>1, <4>2
    <3> QED BY <2>1, <3>3, <3>4, <3>5
  <2> QED BY <2>2, <2>3, <2>4
<1>5. ASSUME ~ reused', NEW d \in Adapters
      PROVE  OnceConnected(d)'
  <2>1. OnceConnected(d) /\ ~ reused
    BY <1>2, <1>5, SerialFacts
  <2>2. Settled(d)' <=> Settled(d)
    BY <1>2, <1>3 DEF Settled
  <2> QED BY <1>2, <1>3, <1>4, <2>1, <2>2 DEF OnceConnected
<1>6. 1..made \subseteq Adapters /\ (registered # 0 => registered \in Adapters)
  BY <1>1, MadeAdapters DEF HostType
<1>7. \A c \in Callers : call[c] # NoCall => registered # 0
  BY <1>1, PartsTyped DEF CallType, Serial
<1>8. \A d \in 1..made' : adapter'[d].open => d = registered'
  BY <1>2, <1>3, <1>6 DEF Serial
<1> QED BY <1>2, <1>3, <1>5, <1>6, <1>7, <1>8 DEF Serial

LEMMA SerialStep ==
  ASSUME ChannelsTypeOK, PollInv, SerialInv, ChannelsNext
  PROVE  SerialInv'
<1> SUFFICES ASSUME ~ overlap
             PROVE  Serial'
  BY ChannelStays, SerialMeans
<1>1. Serial
  BY SerialMeans
<1>2. CASE UNCHANGED <<registered, made, adapter, call, poll, reused>>
  BY <1>1, <1>2 DEF Serial, OnceConnected, Settled
<1>3. CASE \E c \in Callers : Connect(c) \/ Asked(c) \/ Disconnect(c) \/ Told(c)
                               \/ Deregister(c)
  BY <1>1, <1>3, ConnectSerial, AskedSerial, DisconnectSerial, ToldSerial,
     DeregisterSerial
<1>4. CASE \/ \E a \in Adapters : Poll(a)
           \/ \E p \in Polls : Meet(p) \/ LosePoll(p) \/ Receive(p)
  BY <1>1, <1>4, PollingSerial
<1>5. CASE Register
  BY <1>1, <1>5, RegisterSerial
<1> QED BY <1>2, <1>3, <1>4, <1>5, StepCases
        DEF Bind, GetAgentStream, Unbind, Destroy, UnbindAgent, BindingOnly, Write,
            HandleWebhook, PollMessages, RouteOutbound, host

-----------------------------------------------------------------------------
(***************************************************************************)
(* What is forgotten has been heard.                                       *)
(***************************************************************************)
\* Only what is written now is owed anew.
LEMMA OwedShrinks ==
  ASSUME ChannelsTypeOK, ChannelsNext, NEW u \in Updates, u <= written
  PROVE  owed'[u] \subseteq owed[u]
<1>1. owed \in [Updates -> SUBSET Bindings] /\ written \in Nat /\ u \in Nat
  BY ChannelsAssumption DEF ChannelsTypeOK, Updates
<1>2. CASE UNCHANGED owed
  BY <1>2
<1>3. CASE \E c \in Callers : Disconnect(c) \/ Told(c)
  BY <1>1, <1>3, DisconnectOwed DEF Completes
<1>4. CASE Unbind \/ Destroy \/ \E g \in Agents : UnbindAgent(g)
  <2>1. PICK bs : Unsubscribe(bs)
    BY <1>4 DEF Unbind, Destroy, UnbindAgent
  <2> QED BY <1>1, <2>1 DEF Unsubscribe, Forgive
<1>5. CASE Write
  <2>1. PICK bs : owed' = [owed EXCEPT ![written'] = bs]
    BY <1>5 DEF Write
  <2>2. u # written'
    BY <1>1, <1>5 DEF Write
  <2> QED BY <1>1, <2>1, <2>2
<1> QED BY <1>2, <1>3, <1>4, <1>5, OwedChange

LEMMA AllHeardStays ==
  ASSUME ChannelsTypeOK, BoundInv, PollInv, ChannelsNext, NEW u \in Updates,
         u <= written, AllHeard(u)
  PROVE  AllHeard(u)'
<1>1. AdapterType /\ HeardType /\ NetType /\ poll \in [Polls -> InFlight]
  BY PartsTyped
<1> SUFFICES ASSUME NEW b \in owed'[u]
             PROVE  \E i \in 1..Len(heard'[b]) : heard'[b][i] = u
  BY DEF AllHeard
<1>2. b \in owed[u]
  BY OwedShrinks
<1>3. PICK i \in 1..Len(heard[b]) : heard[b][i] = u
  BY <1>2 DEF AllHeard
<1>4. b \in Bindings
  BY <1>1, <1>2 DEF NetType
<1>5. CASE heard'[b] = heard[b]
  BY <1>3, <1>5
<1>6. ASSUME NEW a, NEW us, us \subseteq 1..written, Emit(a, us)
      PROVE  \E j \in 1..Len(heard'[b]) : heard'[b][j] = u
  <2>1. /\ Len(heard[b]) \in Nat /\ Len(heard'[b]) \in Nat
        /\ Len(heard[b]) <= Len(heard'[b])
        /\ \A j \in 1..Len(heard[b]) : heard'[b][j] = heard[b][j]
    BY <1>1, <1>4, <1>6, EmitFacts
  <2>2. i \in 1..Len(heard'[b])
    BY <2>1
  <2> QED BY <1>3, <2>1, <2>2
<1>7. CASE Unbind \/ Destroy \/ \E g \in Agents : UnbindAgent(g)
  <2>1. PICK bs : Unsubscribe(bs) /\ b \notin bs
    BY <1>7, OwedStep
  <2>2. heard'[b] = heard[b]
    BY <1>4, <2>1 DEF Unsubscribe
  <2> QED BY <1>5, <2>2
<1>8. CASE \E w \in Updates : HandleWebhook(w)
  BY <1>1, <1>6, <1>8, WebhookFacts
<1>9. CASE \E p \in Polls : Receive(p)
  BY <1>1, <1>6, <1>9, ReceiveFacts
<1> QED BY <1>5, <1>7, <1>8, <1>9, HeardChange

\* What the adapter in the registry emits comes to all it is owed to.
LEMMA EmitHeard ==
  ASSUME ChannelsTypeOK, BoundInv, Serial, NEW us, us \subseteq 1..written,
         NEW a, a = registered, Emit(a, us), owed' = owed, NEW u \in us, u \in Updates
  PROVE  AllHeard(u)'
<1>1. HeardType /\ NetType
  BY PartsTyped
<1> SUFFICES ASSUME NEW b \in owed[u]
             PROVE  \E i \in 1..Len(heard'[b]) : heard'[b][i] = u
  BY DEF AllHeard
<1>2. b \in Active /\ adapter[binding[b].by].open /\ IsMessage(u)
  BY DEF BoundInv
<1>3. /\ b \in Bindings /\ binding[b].by \in 1..made
      /\ binding[b].subject = stream[binding[b].agent]
  BY <1>2, ActiveFacts
<1>4. binding[b].by = a
  BY <1>2, <1>3 DEF Serial
<1>5. Hears(b, a)
  BY <1>2, <1>3, <1>4 DEF Hears, Subscribed
<1> DEFINE ms == {w \in us : IsMessage(w)}
           h == heard[b]
           k == heard'[b]
<1>6. Len(Events) \in Nat /\ written \in Nat /\ 1..written \subseteq Updates
  BY <1>1, ChannelsAssumption DEF NetType, Updates
<1>7. PICK s \in Ascending(ms) :
        heard' = [d \in Bindings |-> IF Hears(d, a) THEN heard[d] \o s ELSE heard[d]]
  BY DEF Emit
<1>8. ms \in SUBSET Updates /\ ms \subseteq 1..written /\ u \in ms
  BY <1>2, <1>6
<1>9. s \in Seq(1..written) /\ \A w \in ms : \E i \in 1..Len(s) : s[i] = w
  BY <1>7, <1>8, AscendingFacts
<1> HIDE DEF ms
<1>10. PICK i \in 1..Len(s) : s[i] = u
  BY <1>8, <1>9
<1>11. h \in Seq(1..written) /\ k = h \o s
  BY <1>1, <1>3, <1>5, <1>7 DEF HeardType
<1> HIDE DEF h, k
<1>12. i + Len(h) \in 1..Len(k) /\ k[i + Len(h)] = u
  <2>1. /\ Len(h) \in Nat /\ Len(s) \in Nat
        /\ i + Len(h) \in 1..Len(h \o s) /\ (h \o s)[i + Len(h)] = s[i]
    BY <1>9, <1>11
  <2> QED BY <1>10, <1>11, <2>1
<1> QED BY <1>12 DEF k

\* An adapter has passed on nothing when it gets its interval.
LEMMA NewInterval ==
  ASSUME ChannelsTypeOK, PollInv, Serial, ~ overlap, ~ reused', ChannelsNext,
         NEW a \in Adapters, ~ (adapter[a].timers > 0), adapter'[a].timers > 0
  PROVE  adapter'[a].last = 0
<1>1. HostType /\ AdapterType /\ CallType /\ RestType /\ NetType /\ poll \in [Polls -> InFlight]
  BY PartsTyped
<1>2. adapter[a].timers \in Nat /\ (adapter[a].handle => adapter[a].timers > 0)
  BY SerialFacts
<1>3. CASE UNCHANGED adapter
  BY <1>3
<1>4. CASE \E c \in Callers : Connect(c)
  <2>1. PICK c \in Callers : Connect(c)
    BY <1>4
  <2>2. a = registered /\ adapter'[a].last = adapter[a].last
    BY <1>1, <2>1, ConnectFacts
  <2>3. ~ reused /\ ~ adapter[a].asked
    BY <2>1, <2>2 DEF Connect
  <2>4. adapter[a].last = 0
    BY <2>3, SerialFacts DEF OnceConnected, Settled
  <2> QED BY <2>2, <2>4
<1>5. CASE \E c \in Callers : Asked(c)
  <2>1. PICK c \in Callers : Asked(c)
    BY <1>5
  <2>2. PICK d : d = call[c].by
    OBVIOUS
  <2>3. /\ \A e \in Adapters : e # d => adapter'[e] = adapter[e]
        /\ adapter'[a].last = adapter[a].last
    BY <1>1, <2>1, <2>2, AskedFacts
  <2>4. a = d
    BY <2>3
  <2>5. ~ Settled(a) /\ ~ reused
    BY <2>1, <2>2, <2>4 DEF Settled, Asked
  <2>6. adapter[a].last = 0
    BY <2>5, SerialFacts DEF OnceConnected
  <2> QED BY <2>3, <2>6
<1>6. CASE \E c \in Callers : Disconnect(c)
  <2>1. PICK c \in Callers : Disconnect(c)
    BY <1>6
  <2>2. /\ \A d \in Adapters : d # registered => adapter'[d] = adapter[d]
        /\ adapter'[registered].timers =
              IF adapter[registered].handle THEN adapter[registered].timers - 1
              ELSE adapter[registered].timers
    BY <1>1, <2>1, DisconnectFacts
  <2>3. a = registered
    BY <2>2
  <2> QED BY <1>2, <2>2, <2>3
<1>7. CASE \E c \in Callers : Told(c)
  BY <1>1, <1>7, ToldFacts
<1>8. CASE \E d \in Adapters : Poll(d)
  BY <1>1, <1>8, PollFacts
<1>9. CASE \E p \in Polls : Receive(p)
  BY <1>1, <1>9, ReceiveFacts
<1> QED BY <1>3, <1>4, <1>5, <1>6, <1>7, <1>8, <1>9, AdapterChange

LEMMA HeardStep ==
  ASSUME ChannelsTypeOK, BoundInv, PollInv, SerialInv, HeardInv, ChannelsNext
  PROVE  HeardInv'
<1> SUFFICES ASSUME ~ overlap, ~ reused'
             PROVE  /\ \A u \in (1..gone') \cup taken' : AllHeard(u)'
                    /\ \A a \in Adapters : adapter'[a].timers > 0 =>
                         \A u \in 1..adapter'[a].last : AllHeard(u)'
                    /\ \A p \in Polls : poll'[p].by # 0 =>
                         \A u \in Updates : u < poll'[p].from => AllHeard(u)'
  BY ChannelStays DEF HeardInv
<1>1. HostType /\ AdapterType /\ CallType /\ RestType /\ NetType /\ poll \in [Polls -> InFlight]
  BY PartsTyped
<1>2. Serial
  BY SerialMeans
<1>3. ~ reused
  <2>1. UNCHANGED reused \/ \E c \in Callers : Connect(c)
    BY DEF ChannelsNext, Hosts, Works, Register, Asked, Disconnect, Told,
       Deregister, Bind, Unbind, UnbindAgent, GetAgentStream, Destroy, Write,
       HandleWebhook, Poll, Meet, LosePoll, Receive, RouteOutbound, PollMessages,
       BindingOnly
  <2> QED BY <2>1 DEF Connect
<1>4. /\ \A u \in (1..gone) \cup taken : AllHeard(u)
      /\ \A a \in Adapters : adapter[a].timers > 0 =>
           \A u \in 1..adapter[a].last : AllHeard(u)
      /\ \A p \in Polls : poll[p].by # 0 =>
           \A u \in Updates : u < poll[p].from => AllHeard(u)
  BY <1>3 DEF HeardInv
<1>5. /\ written \in Nat /\ gone \in Nat /\ gone' \in Nat /\ written <= Len(Events)
      /\ gone <= written /\ Len(Events) \in Nat /\ taken \subseteq 1..written
  BY <1>1, WrittenGrows, ChannelsAssumption DEF NetType
<1>6. \A u : u \in 1..written => u \in Updates /\ u \in Nat /\ u <= written
  BY <1>5 DEF Updates
<1>7. \A u \in 1..written : AllHeard(u) => AllHeard(u)'
  BY <1>6, AllHeardStays
<1>8. ASSUME NEW u \in (1..gone') \cup taken'
      PROVE  AllHeard(u)'
  <2>1. CASE u \in (1..gone) \cup taken
    <3>1. u \in 1..written
      BY <1>5, <2>1
    <3> QED BY <1>4, <1>7, <2>1, <3>1
  <2>2. CASE (\E w \in Updates : HandleWebhook(w)) /\ u \notin (1..gone) \cup taken
    <3>1. PICK w \in Updates : HandleWebhook(w)
      BY <2>2
    <3>2. /\ gone' = gone /\ w \in 1..written /\ {w} \subseteq 1..written
          /\ taken' = taken \/ taken' = taken \cup {w}
          /\ Emit(registered, {w}) /\ owed' = owed
      BY <1>1, <3>1, WebhookFacts
    <3>3. u = w
      BY <2>2, <3>2
    <3> QED BY <1>2, <1>6, <3>2, <3>3, EmitHeard
  <2>3. CASE (\E p \in Polls : Meet(p)) /\ u \notin (1..gone) \cup taken
    <3>1. PICK p \in Polls : Meet(p)
      BY <2>3
    <3>2. /\ poll[p].by # 0 /\ gone' \in gone..written
          /\ gone' # gone => poll[p].from = gone' + 1
      BY <1>1, <3>1, MeetFacts
    <3>3. taken' = taken
      BY <3>1 DEF Meet, pushes
    <3>4. u \in Nat /\ u >= 1 /\ u <= gone'
      BY <1>5, <2>3, <3>3
    <3>5. gone' # gone /\ gone' <= written
      BY <1>5, <2>3, <3>2, <3>3
    <3>6. poll[p].from = gone' + 1 /\ u \in 1..written /\ u < poll[p].from
      BY <1>5, <3>2, <3>4, <3>5
    <3> QED BY <1>4, <1>6, <1>7, <3>2, <3>6
  <2>4. CASE UNCHANGED <<written, gone, pushes>> \/ Write
    BY <2>1, <2>4 DEF Write, pushes
  <2> QED BY <2>1, <2>2, <2>3, <2>4, NetChange
<1>9. ASSUME NEW a \in Adapters, adapter'[a].timers > 0, NEW u \in 1..adapter'[a].last
      PROVE  AllHeard(u)'
  <2>1. adapter[a].last \in Nat /\ adapter[a].last <= written
    BY <1>1, ChannelsAssumption DEF AdapterType, Fields, PollInv
  <2>2. CASE ~ (adapter[a].timers > 0)
    <3>1. adapter'[a].last = 0
      BY <1>2, <1>9, <2>2, NewInterval
    <3> QED BY <3>1
  <2>3. CASE adapter[a].timers > 0 /\ adapter'[a].last = adapter[a].last
    <3>1. u \in 1..adapter[a].last /\ u \in 1..written
      BY <1>5, <2>1, <2>3
    <3> QED BY <1>4, <1>7, <2>3, <3>1
  <2>4. CASE adapter[a].timers > 0 /\ \E p \in Polls :
                 /\ Receive(p) /\ poll[p].by = a /\ poll[p].low <= poll[p].high
                 /\ adapter'[a].last = poll[p].high
    <3>1. PICK p \in Polls :
                 /\ Receive(p) /\ poll[p].by = a /\ poll[p].low <= poll[p].high
                 /\ adapter'[a].last = poll[p].high
      BY <2>4
    <3>2. /\ poll[p].answered /\ poll[p].low \in Nat /\ poll[p].high \in Nat
          /\ poll[p].low..poll[p].high \subseteq 1..written
          /\ Emit(a, poll[p].low..poll[p].high) /\ owed' = owed
      BY <1>1, <3>1, ReceiveFacts DEF net
    <3>3. poll[p].low <= gone + 1 /\ a <= made
      BY <2>4, <3>2 DEF PollInv
    <3>4. a = registered
      <4>1. adapter[a].open
        BY <1>2, <1>3, <2>4, SerialFacts DEF OnceConnected
      <4>2. a \in 1..made
        BY <1>1, <3>3, MadeAdapters, ChannelsAssumption DEF Adapters
      <4> QED BY <1>2, <4>1, <4>2, SerialFacts
    <3>5. CASE u < poll[p].low
      <4>1. u \in (1..gone) \cup taken /\ u \in 1..written
        BY <1>5, <3>1, <3>2, <3>3, <3>5
      <4> QED BY <1>4, <1>7, <4>1
    <3>6. CASE ~ (u < poll[p].low)
      <4>1. u \in poll[p].low..poll[p].high
        BY <3>1, <3>2, <3>6
      <4>2. u \in Updates
        BY <1>6, <3>2, <4>1
      <4> QED BY <1>2, <3>2, <3>4, <4>1, <4>2, EmitHeard
    <3> QED BY <3>5, <3>6
  <2> QED BY <2>2, <2>3, <2>4, LastFacts
<1>10. ASSUME NEW p \in Polls, poll'[p].by # 0, NEW u \in Updates, u < poll'[p].from
       PROVE  AllHeard(u)'
  <2>0. u \in Nat /\ u >= 1
    BY <1>5 DEF Updates
  <2>1. CASE poll'[p].by = poll[p].by /\ poll'[p].from = poll[p].from
    <3>1. poll[p].by # 0 /\ poll[p].from \in 1..(written + 1) /\ u < poll[p].from
      BY <1>10, <2>1 DEF PollInv
    <3>2. u \in 1..written
      BY <1>5, <2>0, <3>1
    <3> QED BY <1>4, <1>7, <3>1, <3>2
  <2>2. CASE \E a \in Adapters : Poll(a)
    <3>1. PICK a \in Adapters : Poll(a)
      BY <2>2
    <3>2. PICK q \in Polls :
              /\ \A r \in Polls : r # q => poll'[r] = poll[r]
              /\ poll'[q].by = a /\ poll'[q].from = adapter[a].last + 1
      BY <1>1, <3>1, PollFacts
    <3>3. CASE p = q
      <4>1. adapter[a].timers > 0
        BY <1>1, <3>1, PollFacts
      <4>2. adapter[a].last \in Nat /\ adapter[a].last <= written
        BY <1>1, ChannelsAssumption DEF AdapterType, Fields, PollInv
      <4>3. u \in 1..adapter[a].last /\ u \in 1..written
        BY <1>5, <1>10, <2>0, <3>2, <3>3, <4>2
      <4> QED BY <1>4, <1>7, <4>1, <4>3
    <3> QED BY <2>1, <3>2, <3>3
  <2>3. CASE \E q \in Polls : Meet(q)
    BY <1>1, <2>1, <2>3, MeetFacts
  <2>4. CASE \E q \in Polls : LosePoll(q) \/ Receive(q)
    <3>1. poll'[p] = NoPoll \/ poll'[p] = poll[p]
      BY <1>1, <2>4 DEF LosePoll, Receive
    <3>2. poll'[p] = poll[p]
      BY <1>10, <3>1 DEF NoPoll
    <3> QED BY <2>1, <3>2
  <2>5. CASE UNCHANGED poll
    BY <2>1, <2>5
  <2> QED BY <2>2, <2>3, <2>4, <2>5, PollChange
<1> QED BY <1>8, <1>9, <1>10

-----------------------------------------------------------------------------
(***************************************************************************)
(* The theorems.                                                           *)
(***************************************************************************)
LEMMA ChannelsInitial == ChannelsInit => ChannelsInv
<1> SUFFICES ASSUME ChannelsInit
             PROVE  ChannelsInv
  OBVIOUS
<1>1. /\ Len(Events) \in Nat /\ MaxAdapters \in Nat /\ MaxCalls \in Nat /\ MaxRacing \in Nat
      /\ MaxAgain \in Nat
  BY ChannelsAssumption
<1>2. /\ registered = 0 /\ made = 0 /\ streams = 0 /\ stream = [g \in Agents |-> 0]
      /\ binding = [b \in Bindings |-> NoBinding]
      /\ adapter = [a \in Adapters |-> NewAdapter]
      /\ call = [c \in Callers |-> NoCall] /\ poll = [p \in Polls |-> NoPoll]
      /\ written = 0 /\ gone = 0 /\ taken = {} /\ again = MaxAgain
      /\ owed = [u \in Updates |-> {}]
      /\ heard = [b \in Bindings |-> <<>>] /\ queue = <<>> /\ posted = {}
  BY DEF ChannelsInit
<1>3. NewAdapter \in Fields
  BY <1>1 DEF NewAdapter, Fields
<1>4. NoCall \in HostCalls /\ NoPoll \in InFlight
  BY <1>1 DEF NoCall, HostCalls, NoPoll, InFlight
<1>5. HostType
  BY <1>1, <1>2 DEF HostType, NoBinding
<1>6. AdapterType
  BY <1>2, <1>3 DEF AdapterType, NewAdapter
<1>7. CallType /\ poll \in [Polls -> InFlight]
  BY <1>2, <1>4 DEF CallType
<1>8. NetType /\ HeardType
  <2>1. <<>> \in Seq(1..written)
    OBVIOUS
  <2> QED BY <1>1, <1>2, <2>1 DEF NetType, HeardType
<1>9. OutType
  <2>1. <<>> \in Seq(Posts)
    OBVIOUS
  <2> QED BY <1>2, <2>1 DEF OutType
<1>10. RestType
  BY <1>1 DEF ChannelsInit, RestType
<1>11. ChannelsTypeOK
  BY <1>5, <1>6, <1>7, <1>8, <1>9, <1>10, TypeParts
<1>12. Active = {}
  BY <1>2 DEF Active
<1>13. \A b \in Bindings : heard[b] = <<>> /\ DOMAIN heard[b] = {}
  BY <1>2
<1>14. BoundInv
  BY <1>2, <1>12, <1>13 DEF BoundInv
<1>15. PostInv
  <2>1. DOMAIN queue = {}
    BY <1>2
  <2> QED BY <1>2, <2>1 DEF PostInv
<1>16. /\ \A p \in Polls : poll[p].by = 0 /\ ~ poll[p].answered
       /\ \A c \in Callers : call[c] = NoCall /\ call[c].at = "idle"
       /\ \A a \in Adapters : adapter[a].timers = 0 /\ adapter[a].last = 0
  BY <1>2 DEF NoPoll, NoCall, NewAdapter
<1>17. PollInv
  BY <1>2, <1>16 DEF PollInv
<1>18. OrderInv
  BY <1>12, <1>16 DEF OrderInv, HeardInOrder
<1>19. \A a \in Adapters : OnceConnected(a)
  <2> SUFFICES ASSUME NEW a \in Adapters PROVE OnceConnected(a)
    OBVIOUS
  <2>1. a # 0
    BY <1>1 DEF Adapters
  <2> QED BY <1>16, <2>1 DEF OnceConnected
<1>20. SerialInv
  <2>1. 1..made = {}
    BY <1>2
  <2> QED BY <1>16, <1>19, <2>1 DEF SerialInv
<1>21. HeardInv
  BY <1>2, <1>16 DEF HeardInv
<1> QED BY <1>11, <1>14, <1>15, <1>17, <1>18, <1>20, <1>21 DEF ChannelsInv

LEMMA ChannelsStep == ChannelsInv /\ [ChannelsNext]_channelVars => ChannelsInv'
<1> SUFFICES ASSUME ChannelsInv, [ChannelsNext]_channelVars
             PROVE  ChannelsInv'
  OBVIOUS
<1>1. /\ ChannelsTypeOK /\ BoundInv /\ PostInv /\ PollInv /\ OrderInv /\ SerialInv
      /\ HeardInv
  BY DEF ChannelsInv
<1>2. CASE ChannelsNext
  <2>1. ChannelsTypeOK'
    BY <1>1, <1>2, HostTypeStep, AdapterTypeStep, CallTypeStep, PollTypeStep,
       NetTypeStep, HeardTypeStep, OutStep, RestTypeStep, TypePartsNext
  <2> QED BY <1>1, <1>2, <2>1, BoundStep, OutStep, PollStep, OrderStep, SerialStep,
             HeardStep DEF ChannelsInv
<1>3. CASE UNCHANGED channelVars
  <2>1. UNCHANGED <<channel, overlap, registered, made, binding, stream, streams,
                    adapter, call, poll, written, gone, taken, again, owed, heard,
                    reused, queue, posted, calls>>
    BY <1>3 DEF channelVars, host, net, pushes, out
  <2>2. /\ Posts' = Posts /\ \A m : Returns(m)' <=> Returns(m)
        /\ \A u : IsMessage(u)' <=> IsMessage(u)
    BY <2>1, MessagesStay
  <2>3. ChannelsTypeOK'
    BY <1>1, <2>1, <2>2 DEF ChannelsTypeOK
  <2>4. Active' = Active
    BY <2>1 DEF Active
  <2>5. BoundInv'
    BY <1>1, <2>1, <2>2, <2>4 DEF BoundInv
  <2>6. PostInv'
    BY <1>1, <2>1, <2>2 DEF PostInv
  <2>7. PollInv'
    BY <1>1, <2>1 DEF PollInv
  <2>8. OrderInv'
    BY <1>1, <2>1, <2>4 DEF OrderInv, HeardInOrder
  <2>9. SerialInv'
    BY <1>1, <2>1 DEF SerialInv, OnceConnected, Settled
  <2>10. HeardInv'
    BY <1>1, <2>1 DEF HeardInv, AllHeard
  <2> QED BY <2>3, <2>5, <2>6, <2>7, <2>8, <2>9, <2>10 DEF ChannelsInv
<1> QED BY <1>2, <1>3

\* The inductive invariant of a channel, its adapters and its bindings.
THEOREM ChannelsInvariance == ChannelsSpec => []ChannelsInv
BY ChannelsInitial, ChannelsStep, PTL DEF ChannelsSpec

\* Every variable of the channels keeps its type: intervals, polls, histories and
\* posts alike.
THEOREM ChannelsTypeCorrect == ChannelsSpec => []ChannelsTypeOK
<1>1. ChannelsInv => ChannelsTypeOK
  BY DEF ChannelsInv
<1> QED BY <1>1, ChannelsInvariance, PTL

\* What reaches a platform's users is in the conversation it answers, however
\* the adapters of the ten kinds address it.
THEOREM RepliesCorrect == ChannelsSpec => []RepliesReturn
<1>1. ChannelsInv => RepliesReturn
  BY DEF ChannelsInv, PostInv, Returns, RepliesReturn
<1> QED BY <1>1, ChannelsInvariance, PTL

\* On a polled channel a binding hears each update once and in order, unless two
\* polls of its adapter were in flight together.
THEOREM OrderCorrect == ChannelsSpec => []HeardInOrder
<1>1. ChannelsInv => HeardInOrder
  BY DEF ChannelsInv, OrderInv
<1> QED BY <1>1, ChannelsInvariance, PTL

\* With one call at a time, and no adapter connected twice, what the platform
\* has forgotten, or seen taken, was heard by all it was owed to.
THEOREM ForgettingCorrect == ChannelsSpec => []ForgottenWasHeard
<1>1. ChannelsInv => ForgottenWasHeard
  BY DEF ChannelsInv, HeardInv, AllHeard, ForgottenWasHeard
<1> QED BY <1>1, ChannelsInvariance, PTL

=============================================================================
