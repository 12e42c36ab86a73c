---------------------------- MODULE AgentLifecycle ----------------------------
(***************************************************************************)
(* AgentLifecycleManager and the OpenClawGatewayClient it commands agents  *)
(* through.  Each command opens a WebSocket of its own, and one timer      *)
(* bounds the wait for its answer; the timer leaves the socket alone.  The *)
(* gateway, external, runs the agents.                                     *)
(*                                                                         *)
(* A command's request is held until its socket is open, then on its way   *)
(* until the gateway has dealt with it, or it is lost.                     *)
(***************************************************************************)
EXTENDS Naturals, FiniteSets

CONSTANTS
  MaxCommands,     (* bound: commands the host gives, numbered in order       *)
  MaxInstances,    (* bound: agents the gateway spawns, numbered in order     *)
  None,            (* no id, or an option that is not set                     *)
  Levels,          (* autonomy levels                                         *)
  DefaultLevel,    (* the definition's defaultAutonomy                        *)
  MaxCrashes       (* bound: agents that fail by themselves                   *)

ASSUME AgentsAssumption ==
  /\ MaxCommands \in Nat /\ MaxInstances \in Nat /\ MaxCrashes \in Nat
  /\ None \notin Nat \cup Levels
  /\ DefaultLevel \in Levels

VARIABLES
  cmd,             (* each command: what the host, the socket and the         *)
                   (* gateway know of it                                      *)
  agent,           (* the gateway's agents                                    *)
  instances,       (* the manager's registry                                  *)
  doubt,           (* history: the registry may be wrong about these          *)
  crashes          (* what is left of MaxCrashes                              *)

vars == <<cmd, agent, instances, doubt, crashes>>

Commands == 1..MaxCommands
Instances == 1..MaxInstances

Unused == [op |-> "none", on |-> None, level |-> None, caller |-> "idle",
           socket |-> "closed", request |-> "gone", answer |-> "none",
           alone |-> TRUE]

NoAgent == [status |-> "none", level |-> None]

-----------------------------------------------------------------------------
(***************************************************************************)
(* What a spawn tells the gateway and notes itself.                        *)
(***************************************************************************)
\* buildSpawnPayload and buildAgentInstance: options.autonomy ?? default.
Level(option) == IF option = None THEN DefaultLevel ELSE option

PayloadLevel(option) == Level(option)

InstanceLevel(option) == Level(option)

\* The source of a prompt variable: resolveSystemPrompt has built-in values,
\* which mergedOptions' override, and mergedOptions' are the spawn's own if
\* it has any, the manager's defaults and all, or else those defaults.
PromptVariable(v, builtIn, defaults, given) ==
  LET merged == IF given = {} THEN defaults ELSE given IN
    CASE v \in merged /\ given # {} -> "spawn"
      [] v \in merged /\ given = {} -> "manager"
      [] v \notin merged /\ v \in builtIn -> "built in"
      [] OTHER -> "left as a token"

\* A spawn that gives a variable loses every default of the manager's.
ASSUME SpawnVariablesReplaceDefaults ==
  /\ PromptVariable("name", {"name"}, {"name"}, {}) = "manager"
  /\ PromptVariable("name", {"name"}, {"name"}, {"tone"}) = "built in"

-----------------------------------------------------------------------------
\* A command that may yet change the agent, or whose answer may yet come.
Live(c) == cmd[c].request # "gone" \/ cmd[c].caller = "waiting"

LiveOn(i) == {c \in Commands : cmd[c].on = i /\ Live(c)}

\* sendCommand: the handler and the timer are set; the socket is opening, or
\* could not be created and nothing will ever come.
Dispatch(op, i, level) ==
  [Unused EXCEPT !.op = op, !.on = i, !.level = level, !.caller = "waiting",
                 !.socket = "opening", !.request = "held"]

NoSocket(d) == [d EXCEPT !.socket = "closed", !.request = "gone"]

Started(d) == {d, NoSocket(d)}

\* The next command the host gives.
Fresh(c) == \A d \in Commands : cmd[d] = Unused <=> d >= c

\* Options a spawn may give: the default or another.
Options == (Levels \ {DefaultLevel}) \cup {None}

\* spawn, of an agent that has a definition.
Spawn(c) ==
  /\ Fresh(c)
  /\ \E level \in Options :
       \E d \in Started(Dispatch("spawn", None, level)) :
         cmd' = [cmd EXCEPT ![c] = d]
  /\ UNCHANGED <<agent, instances, doubt, crashes>>

\* spawnMany, of two: Promise.all throws when one does, and leaves the rest.
SpawnMany ==
  /\ \E c \in Commands :
       /\ Fresh(c) /\ c + 1 \in Commands
       /\ cmd' = [cmd EXCEPT ![c] = Dispatch("spawn", None, None),
                             ![c + 1] = Dispatch("spawn", None, None)]
  /\ UNCHANGED <<agent, instances, doubt, crashes>>

\* stop, restart and status, of an instance the registry has.
Command(c, op, i) ==
  /\ Fresh(c)
  /\ instances[i] # NoAgent
  /\ \E d \in Started(Dispatch(op, i, None)) :
       cmd' = [x \in Commands |->
                 IF x = c THEN [d EXCEPT !.alone = LiveOn(i) = {}]
                 ELSE IF x \in LiveOn(i) THEN [cmd[x] EXCEPT !.alone = FALSE]
                 ELSE cmd[x]]
  /\ doubt' = IF LiveOn(i) = {} THEN doubt ELSE doubt \cup {i}
  /\ UNCHANGED <<agent, instances, crashes>>

-----------------------------------------------------------------------------
\* Mutant: the timer is for the connection, and is cleared as it opens.
Timer_Connect(c) == cmd[c].caller = "waiting" /\ cmd[c].socket # "open"

Timer(c) == cmd[c].caller = "waiting"

\* The caller gets an error: what the command did is not known.
Fails(c) ==
  /\ cmd' = [cmd EXCEPT ![c].caller = "failed"]
  /\ doubt' = doubt \cup {cmd[c].on}

\* The timer: the handler is dropped, and the socket stays as it is.
TimeOut(c) ==
  /\ Timer(c)
  /\ Fails(c)
  /\ UNCHANGED <<agent, instances, crashes>>

\* onopen sends the message, whoever still waits.
Open(c) ==
  /\ cmd[c].socket = "opening"
  /\ cmd' = [cmd EXCEPT ![c].socket = "open", ![c].request = "sent"]
  /\ UNCHANGED <<agent, instances, doubt, crashes>>

\* The socket breaks, with an error that reaches the handler if there is one,
\* or closes, which nobody hears of; what was sent may arrive or not.
Break(c) ==
  /\ cmd[c].socket # "closed"
  /\ \E heard \in BOOLEAN, lost \in BOOLEAN :
       LET told == heard /\ cmd[c].caller = "waiting" IN
         /\ cmd' = [cmd EXCEPT
              ![c].socket = "closed",
              ![c].answer = "none",
              ![c].request = IF lost \/ @ = "held" THEN "gone" ELSE @,
              ![c].caller = IF told THEN "failed" ELSE @]
         /\ doubt' = IF told THEN doubt \cup {cmd[c].on} ELSE doubt
  /\ UNCHANGED <<agent, instances, crashes>>

\* The gateway's answer, for a socket that is still there.
Reply(c, answer) == IF cmd[c].socket = "open" THEN answer ELSE "none"

\* The gateway refuses a request.
Refuse(c) ==
  /\ cmd[c].request = "sent"
  /\ cmd' = [cmd EXCEPT ![c].request = "gone", ![c].answer = Reply(c, "refused")]
  /\ UNCHANGED <<agent, instances, doubt, crashes>>

\* The gateway carries out a request; its answer need not tell a status.
Execute(c) ==
  /\ cmd[c].request = "sent"
  /\ \/ /\ cmd[c].op = "spawn"
        /\ \E i \in Instances :
             /\ agent[i] = NoAgent /\ \A j \in 1..(i - 1) : agent[j] # NoAgent
             /\ agent' = [agent EXCEPT ![i] =
                  [status |-> "running", level |-> PayloadLevel(cmd[c].level)]]
             /\ cmd' = [cmd EXCEPT ![c].request = "gone", ![c].on = i,
                                   ![c].answer = Reply(c, "running")]
     \/ /\ cmd[c].op # "spawn"
        /\ LET s == CASE cmd[c].op = "stop"    -> "stopped"
                      [] cmd[c].op = "restart" -> "running"
                      [] cmd[c].op = "status"  -> agent[cmd[c].on].status
           IN /\ agent' = [agent EXCEPT ![cmd[c].on].status = s]
              /\ \E said \in {s, "untold"} :
                   /\ said = "untold" => cmd[c].op = "status"
                   /\ cmd' = [cmd EXCEPT ![c].request = "gone",
                                         ![c].answer = Reply(c, said)]
  /\ UNCHANGED <<instances, doubt, crashes>>

\* Mutant: what comes back is taken for a running agent.
Noted_Running(c) ==
  [status |-> "running",
   level |-> IF cmd[c].op = "spawn" THEN InstanceLevel(cmd[c].level)
             ELSE instances[cmd[c].on].level]

\* The registry's entry once a command has been answered: an agent of which no
\* status is told is taken for stopped.
Noted(c) ==
  [status |-> CASE cmd[c].op \in {"spawn", "restart"} -> "running"
                [] cmd[c].op = "stop"                 -> "stopped"
                [] cmd[c].op = "status"               ->
                     IF cmd[c].answer = "untold" THEN "stopped" ELSE cmd[c].answer,
   level |-> IF cmd[c].op = "spawn" THEN InstanceLevel(cmd[c].level)
             ELSE instances[cmd[c].on].level]

\* Mutant: of agents spawned together, none is noted once one has failed.
Answer_AllOrNothing(c) ==
  /\ cmd[c].socket = "open" /\ cmd[c].answer # "none"
  /\ cmd' = [cmd EXCEPT ![c].socket = "closed", ![c].answer = "none",
               ![c].caller = IF @ = "waiting" THEN "returned" ELSE @]
  /\ instances' =
       IF /\ cmd[c].caller = "waiting" /\ cmd[c].answer # "refused"
          /\ \A d \in Commands : cmd[d].caller # "failed"
       THEN [instances EXCEPT ![cmd[c].on] = Noted(c)] ELSE instances
  /\ doubt' = doubt
  /\ UNCHANGED <<agent, crashes>>

\* onmessage, with the answer: it settles the command if anyone waits, and
\* stop, restart, status or spawn note what it says.
Answer(c) ==
  /\ cmd[c].socket = "open" /\ cmd[c].answer # "none"
  /\ \/ /\ cmd[c].caller = "waiting" /\ cmd[c].answer # "refused"
        /\ cmd' = [cmd EXCEPT ![c].socket = "closed", ![c].answer = "none",
                             ![c].caller = "returned"]
        /\ instances' = [instances EXCEPT ![cmd[c].on] = Noted(c)]
        /\ doubt' = IF cmd[c].answer = "untold" THEN doubt \cup {cmd[c].on}
                    ELSE IF cmd[c].alone THEN doubt \ {cmd[c].on} ELSE doubt
     \/ /\ cmd[c].caller = "waiting" /\ cmd[c].answer = "refused"
        /\ cmd' = [cmd EXCEPT ![c].socket = "closed", ![c].answer = "none",
                             ![c].caller = "failed"]
        /\ UNCHANGED <<instances, doubt>>
     \/ /\ cmd[c].caller # "waiting"
        /\ cmd' = [cmd EXCEPT ![c].socket = "closed", ![c].answer = "none"]
        /\ UNCHANGED <<instances, doubt>>
  /\ UNCHANGED <<agent, crashes>>

\* An agent fails by itself.
AgentFails(i) ==
  /\ crashes > 0 /\ crashes' = crashes - 1
  /\ agent[i].status = "running"
  /\ agent' = [agent EXCEPT ![i].status = "error"]
  /\ doubt' = doubt \cup {i}
  /\ cmd' = [c \in Commands |->
               IF c \in LiveOn(i) THEN [cmd[c] EXCEPT !.alone = FALSE] ELSE cmd[c]]
  /\ UNCHANGED instances

-----------------------------------------------------------------------------
Init ==
  /\ cmd = [c \in Commands |-> Unused]
  /\ agent = [i \in Instances |-> NoAgent]
  /\ instances = [i \in Instances |-> NoAgent]
  /\ doubt = {}
  /\ crashes = MaxCrashes

Next ==
  \/ \E c \in Commands : Spawn(c) \/ TimeOut(c) \/ Open(c) \/ Break(c)
                           \/ Refuse(c) \/ Execute(c) \/ Answer(c)
  \/ \E c \in Commands, i \in Instances, op \in {"stop", "restart", "status"} :
       Command(c, op, i)
  \/ SpawnMany
  \/ \E i \in Instances : AgentFails(i)

Spec == Init /\ [][Next]_vars

\* Timers fire.
FairSpec == Spec /\ \A c \in Commands : WF_vars(TimeOut(c))

-----------------------------------------------------------------------------
(***************************************************************************)
(* Properties.                                                             *)
(***************************************************************************)
Statuses == {"none", "running", "stopped", "error"}

AgentRecords == [status : Statuses, level : Levels \cup {None}]

\* Every variable keeps its type.
TypeOK ==
  /\ cmd \in [Commands ->
       [op : {"none", "spawn", "stop", "restart", "status"},
        on : Instances \cup {None}, level : Levels \cup {None},
        caller : {"idle", "waiting", "returned", "failed"},
        socket : {"closed", "opening", "open"},
        request : {"held", "sent", "gone"},
        answer : Statuses \cup {"refused", "untold"}, alone : BOOLEAN]]
  /\ agent \in [Instances -> AgentRecords]
  /\ instances \in [Instances -> AgentRecords]
  /\ doubt \subseteq Instances \cup {None}
  /\ crashes \in 0..MaxCrashes

\* An agent that runs at the gateway is in the manager's registry, or its
\* spawn is under way, or its spawn was reported as failed: an agent is not
\* lost because another of a spawnMany failed, or for any other reason.
NoAgentIsForgotten ==
  \A i \in Instances : agent[i] # NoAgent =>
    \/ instances[i] # NoAgent
    \/ \E c \in Commands : /\ cmd[c].op = "spawn" /\ cmd[c].on = i
                           /\ cmd[c].caller \in {"waiting", "failed"}

\* When no command about an agent is under way, the registry has the status
\* and the autonomy the gateway has, unless since the last command that was
\* alone and answered the agent failed by itself, a command was reported as
\* failed, an answer told no status, or commands about it overlapped: one lone
\* answer heals the rest, and a command that timed out and runs all the same is
\* no lone one's peer.
RegistryFollowsGateway ==
  \A i \in Instances :
    instances[i] # NoAgent /\ i \notin doubt /\ LiveOn(i) = {} =>
      instances[i] = agent[i]

\* Every command returns or throws, whatever the socket and the gateway do.
CommandsSettle ==
  \A c \in Commands : cmd[c].caller = "waiting" ~> cmd[c].caller # "waiting"
=============================================================================
