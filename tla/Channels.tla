------------------------------- MODULE Channels -------------------------------
(***************************************************************************)
(* One channel id of the ChannelRegistry, the adapters registered under it *)
(* one after the other, the AgentBindingService that subscribes agents to  *)
(* them, and the platform they talk to.  Telegram may be polled; the other *)
(* channels, and Telegram with a webhook, are pushed to.                   *)
(*                                                                         *)
(* A step is a stretch of code between two awaits.  The platform numbers   *)
(* its updates and returns to getUpdates(offset) what is left from offset  *)
(* on, forgetting what is before.  What it pushes it pushes in any order,  *)
(* and again until it knows that it was taken; no adapter asks whether an  *)
(* update has come before.                                                 *)
(***************************************************************************)
EXTENDS ChannelMessages, Naturals, Sequences, FiniteSets

CONSTANTS
  Kinds,           (* the channel's type is one of these                      *)
  Agents, Nobody,
  Bindings,        (* ids of the bindings there are at once                   *)
  Polls,           (* polls in flight at once                                 *)
  Callers,         (* asynchronous host calls in flight at once               *)
  Events,          (* the sequence of the platform's updates                  *)
  MaxAgain,        (* bound: updates pushed that will be pushed again         *)
  MaxAdapters,     (* bound: adapters created                                 *)
  MaxCalls,        (* bound: calls the host and its agents make               *)
  MaxRacing        (* the same, when they overlap                             *)

ASSUME ChannelsAssumption ==
  /\ Kinds \subseteq {"line", "facebook", "instagram", "tiktok", "whatsapp",
                      "telegram", "slack", "discord", "email", "webchat"}
  /\ Nobody \notin Agents
  /\ IsFiniteSet(Bindings)
  /\ Len(Events) \in Nat
  /\ \A u \in 1..Len(Events) :
       Events[u] \in [user : {Events[u].user}, group : {Events[u].group}, own : BOOLEAN]
  /\ MaxAgain \in Nat
  /\ MaxAdapters \in Nat /\ MaxCalls \in Nat /\ MaxRacing \in Nat

VARIABLES
  channel,         (* config: its kind, and whether it is polled: set once    *)
  overlap,         (* the host's calls may overlap: set once                  *)
  registered,      (* the adapter in the registry, or 0                       *)
  made,            (* adapters created: their ids are 1..made                 *)
  adapter,         (* each adapter's fields, and the intervals it has running *)
  binding,         (* each binding's entry and its subscription               *)
  stream,          (* the Subject of each agent, by number, or 0              *)
  streams,         (* Subjects created for agents so far                      *)
  call,            (* the await each host call is at                          *)
  poll,            (* the polls in flight                                     *)
  written,         (* updates written so far                                  *)
  gone,            (* polled: the last update the platform has forgotten      *)
  taken,           (* pushed: the updates it knows were taken                 *)
  again,           (* what is left of MaxAgain                                *)
  owed,            (* history: bindings that were there as it was written     *)
  heard,           (* what each binding's subscription passed to its agent    *)
  reused,          (* history: an adapter was connected that had been before  *)
  queue,           (* outboundQueue of the web chat                           *)
  posted,          (* what the platform's users have got                      *)
  calls            (* what is left of MaxCalls                                *)

host == <<registered, made, binding, stream, streams>>
pushes == <<taken, again>>
net == <<written, gone, pushes, owed>>
out == <<queue, posted>>
channelVars == <<channel, overlap, host, adapter, call, poll, net, heard, reused, out,
          calls>>

Adapters == 1..MaxAdapters
Updates == 1..Len(Events)

\* Update u as this platform gives it; a bound: no echo is polled for.
Event(u) ==
  [Events[u] EXCEPT
     !.group = IF channel.kind \in Grouped THEN @ ELSE NoGroup,
     !.own = @ /\ channel.kind \in Echoing /\ ~ channel.polled]

NewAdapter == [status |-> "disconnected", open |-> TRUE, timers |-> 0,
               handle |-> FALSE, last |-> 0, asked |-> FALSE, mixed |-> FALSE]

NoBinding == [agent |-> Nobody, by |-> 0, subject |-> 0]

Active == {b \in Bindings : binding[b] # NoBinding}

NoCall == [op |-> "none", by |-> 0, at |-> "idle"]

NoPoll == [by |-> 0, from |-> 0, low |-> 0, high |-> 0, answered |-> FALSE]

\* connect asks the platform first; disconnect tells it at the end.
Asks == Kinds \ {"email", "webchat"}

Tells(c) == c.kind \in {"facebook", "email"} \/ (c.kind = "telegram" /\ ~ c.polled)

-----------------------------------------------------------------------------
\* The host begins a call, and none other is under way unless they overlap.
Begins ==
  /\ overlap \/ \A c \in Callers : call[c] = NoCall
  /\ calls > 0 /\ calls' = calls - 1
  /\ UNCHANGED <<channel, overlap>>

Goto(c, op, a, at) == call' = [call EXCEPT ![c] = [op |-> op, by |-> a, at |-> at]]

Return(c) == call' = [call EXCEPT ![c] = NoCall]

Lasting == UNCHANGED <<channel, overlap, calls>>

\* The bindings that adapter a's Subject reaches.
Subscribed(a) == {b \in Active : binding[b].by = a}

\* The updates of a set as a sequence, in their order: there is one.
Ascending(us) ==
  {s \in [1..Cardinality(us) -> us] : \A i, j \in DOMAIN s : i < j => s[i] < s[j]}

\* What the adapters make of update u is a message.
IsMessage(u) == Inbound(channel.kind, Event(u)) # Dropped

\* What adapter a's Subject emits comes to the agent of b.
Hears(b, a) ==
  /\ b \in Subscribed(a) /\ adapter[a].open
  /\ binding[b].subject = stream[binding[b].agent]

\* messageSubject.next, one after the other, of the messages among us.
Emit(a, us) ==
  \E s \in Ascending({u \in us : IsMessage(u)}) :
    heard' = [b \in Bindings |-> IF Hears(b, a) THEN heard[b] \o s ELSE heard[b]]

Forgive(bs) == owed' = [u \in DOMAIN owed |-> owed[u] \ bs]

-----------------------------------------------------------------------------
(***************************************************************************)
(* The registry and the adapters' connections.                             *)
(***************************************************************************)
\* register, of a new adapter: it throws when the id is taken.
Register ==
  /\ Begins
  /\ registered = 0 /\ made < MaxAdapters
  /\ made' = made + 1
  /\ registered' = made'
  /\ UNCHANGED <<adapter, binding, stream, streams, call, poll, net, heard,
                 reused, out>>

\* setConnected, after startPolling when the channel is polled: the interval
\* is new and takes the place of the one the adapter knew.
Connected(a) ==
  adapter' = [adapter EXCEPT
    ![a].status = "connected",
    ![a].timers = IF channel.polled THEN @ + 1 ELSE @,
    ![a].handle = channel.polled,
    ![a].asked = TRUE]

\* connect, by the host or by connectAll, which asks whatever the status.
Connect(c) ==
  /\ Begins
  /\ call[c] = NoCall /\ registered # 0
  /\ LET a == registered IN
       /\ reused' = (reused \/ adapter[a].asked \/ ~ adapter[a].open)
       /\ \/ /\ channel.kind \in Asks
             /\ adapter' = [adapter EXCEPT ![a].status = "initializing",
                                           ![a].asked = TRUE]
             /\ Goto(c, "connect", a, "asking")
          \/ /\ channel.kind \notin Asks
             /\ Connected(a)
             /\ UNCHANGED call
  /\ UNCHANGED <<host, poll, net, heard, out>>

\* The platform has answered connect's request.
Asked(c) ==
  /\ call[c].at = "asking"
  /\ \/ Connected(call[c].by)
     \/ adapter' = [adapter EXCEPT ![call[c].by].status = "error"]
  /\ Return(c)
  /\ Lasting
  /\ UNCHANGED <<host, poll, net, heard, reused, out>>

\* clearInterval of the interval the adapter knows.
StopPolling(a) ==
  [adapter EXCEPT ![a].timers = IF adapter[a].handle THEN @ - 1 ELSE @,
                  ![a].handle = FALSE]

\* setDisconnected, and the Subject completes for good.
Closed(a, fields) == [fields EXCEPT ![a].status = "disconnected", ![a].open = FALSE]

\* The last step of disconnect, and of the web chat's: its queues are cleared.
Close(a, fields) ==
  /\ adapter' = Closed(a, fields)
  /\ Forgive(Subscribed(a))
  /\ queue' = IF channel.kind = "webchat" THEN <<>> ELSE queue

\* disconnect, alone, in unregister, or in disconnectAll.
Disconnect(c) ==
  /\ Begins
  /\ call[c] = NoCall /\ registered # 0
  /\ \E op \in {"disconnect", "unregister", "disconnectAll"} :
       \/ /\ Tells(channel)
          /\ adapter' = StopPolling(registered)
          /\ Goto(c, op, registered, "telling")
          /\ UNCHANGED <<owed, queue>>
       \/ /\ ~ Tells(channel)
          /\ Close(registered, StopPolling(registered))
          /\ IF op = "disconnect" THEN UNCHANGED call
             ELSE Goto(c, op, registered, "disconnected")
  /\ UNCHANGED <<host, poll, written, gone, pushes, heard, reused, posted>>

\* The platform has answered, or not: the adapter does not mind.
Told(c) ==
  /\ call[c].at = "telling"
  /\ Close(call[c].by, adapter)
  /\ IF call[c].op = "disconnect" THEN Return(c)
     ELSE Goto(c, call[c].op, call[c].by, "disconnected")
  /\ Lasting
  /\ UNCHANGED <<host, poll, written, gone, pushes, heard, reused, posted>>

\* unregister deletes the id, and disconnectAll clears the map, whatever
\* adapter is there by now.
Deregister(c) ==
  /\ call[c].at = "disconnected"
  /\ registered' = 0
  /\ Return(c)
  /\ Lasting
  /\ UNCHANGED <<made, adapter, binding, stream, streams, poll, net, heard,
                 reused, out>>

-----------------------------------------------------------------------------
(***************************************************************************)
(* AgentBindingService.                                                    *)
(***************************************************************************)
\* What the bindings' calls leave alone.
BindingOnly ==
  UNCHANGED <<registered, made, adapter, call, poll, written, gone, pushes, reused, out>>

\* bind: the agent's Subject is created if there is none.
Bind(g) ==
  /\ Begins
  /\ registered # 0
  /\ \E b \in Bindings :
       /\ binding[b] = NoBinding
       /\ IF stream[g] = 0
          THEN /\ stream' = [stream EXCEPT ![g] = streams + 1]
               /\ streams' = streams + 1
          ELSE UNCHANGED <<stream, streams>>
       /\ binding' = [binding EXCEPT ![b] =
            [agent |-> g, by |-> registered, subject |-> stream'[g]]]
  /\ UNCHANGED <<owed, heard>>
  /\ BindingOnly

\* The bindings in bs lose their subscriptions and their entries.
Unsubscribe(bs) ==
  /\ binding' = [b \in Bindings |-> IF b \in bs THEN NoBinding ELSE binding[b]]
  /\ heard' = [b \in Bindings |-> IF b \in bs THEN <<>> ELSE heard[b]]
  /\ Forgive(bs)

\* unbind, and unbindChannel, which unbinds every agent of this channel.
Unbind ==
  /\ Begins
  /\ \E bs \in {{b} : b \in Active} \cup {Active} : bs # {} /\ Unsubscribe(bs)
  /\ UNCHANGED <<stream, streams>>
  /\ BindingOnly

BindingsOf(g) == {b \in Active : binding[b].agent = g}

\* Mutant: the agent's Subject is completed and its bindings are kept.
UnbindAgent_Keeps(g) ==
  /\ Begins
  /\ stream[g] # 0
  /\ stream' = [stream EXCEPT ![g] = 0]
  /\ UNCHANGED <<streams, owed, heard, binding>>
  /\ BindingOnly

\* unbindAgent: the agent's Subject completes and is dropped.
UnbindAgent(g) ==
  /\ Begins
  /\ stream[g] # 0
  /\ Unsubscribe(BindingsOf(g))
  /\ stream' = [stream EXCEPT ![g] = 0]
  /\ UNCHANGED streams
  /\ BindingOnly

\* getAgentStream, of an agent that has no Subject yet.
GetAgentStream(g) ==
  /\ Begins
  /\ stream[g] = 0
  /\ stream' = [stream EXCEPT ![g] = streams + 1]
  /\ streams' = streams + 1
  /\ UNCHANGED <<owed, heard, binding>>
  /\ BindingOnly

\* onModuleDestroy.
Destroy ==
  /\ Begins
  /\ \E g \in Agents : stream[g] # 0
  /\ Unsubscribe(Active)
  /\ stream' = [g \in Agents |-> 0]
  /\ UNCHANGED streams
  /\ BindingOnly

-----------------------------------------------------------------------------
(***************************************************************************)
(* What comes in.                                                          *)
(***************************************************************************)
\* A user writes: owed to the bindings whose adapter's Subject is open.
Write ==
  /\ written < Len(Events)
  /\ written' = written + 1
  /\ owed' = [owed EXCEPT ![written'] =
       {b \in Active : IsMessage(written') /\ adapter[binding[b].by].open}]
  /\ Lasting
  /\ UNCHANGED <<host, adapter, call, poll, gone, pushes, heard, reused, out>>

\* handleWebhook, handleInbound, ingestEmail: the host finds the adapter in
\* the registry, and the platform tries again if there is none, or if the
\* host's answer is late or lost.
HandleWebhook(u) ==
  /\ ~ channel.polled
  /\ registered # 0
  /\ u \in (1..written) \ taken
  /\ Emit(registered, {u})
  /\ \/ taken' = taken \cup {u} /\ UNCHANGED again
     \/ again > 0 /\ again' = again - 1 /\ UNCHANGED taken
  /\ Lasting
  /\ UNCHANGED <<host, adapter, call, poll, written, gone, owed, reused, out>>

\* Mutant: the offset is the last update's and not the next one's.
Offset_Last(a) == adapter[a].last

Offset(a) == adapter[a].last + 1

\* An interval of adapter a fires, whether or not an earlier poll is back.
Poll(a) ==
  /\ adapter[a].timers > 0
  /\ \E p \in Polls :
       /\ poll[p] = NoPoll
       /\ poll' = [poll EXCEPT ![p] = [NoPoll EXCEPT !.by = a, !.from = Offset(a)]]
  /\ adapter' = [adapter EXCEPT ![a].mixed =
                   @ \/ \E p \in Polls : poll[p].by = a]
  /\ Lasting
  /\ UNCHANGED <<host, call, net, heard, reused, out>>

\* The platform meets the request and has what is left from the offset on.
Meet(p) ==
  /\ poll[p].by # 0 /\ ~ poll[p].answered
  /\ gone' = IF poll[p].from > gone + 1 THEN poll[p].from - 1 ELSE gone
  /\ poll' = [poll EXCEPT ![p] =
       [@ EXCEPT !.answered = TRUE, !.low = gone' + 1, !.high = written]]
  /\ Lasting
  /\ UNCHANGED <<host, adapter, call, written, pushes, owed, heard, reused, out>>

\* The request or its answer is lost or refused: the error is swallowed.
LosePoll(p) ==
  /\ poll[p].by # 0
  /\ poll' = [poll EXCEPT ![p] = NoPoll]
  /\ Lasting
  /\ UNCHANGED <<host, adapter, call, net, heard, reused, out>>

\* poll goes through the answer, whatever has become of the adapter.
Receive(p) ==
  /\ poll[p].answered
  /\ LET a == poll[p].by IN
       /\ adapter' = IF poll[p].low > poll[p].high THEN adapter
                     ELSE [adapter EXCEPT ![a].last = poll[p].high]
       /\ Emit(a, poll[p].low..poll[p].high)
  /\ poll' = [poll EXCEPT ![p] = NoPoll]
  /\ Lasting
  /\ UNCHANGED <<host, call, net, reused, out>>

-----------------------------------------------------------------------------
(***************************************************************************)
(* What goes out.                                                          *)
(***************************************************************************)
\* The messages an agent may send about what it heard.
Answers(u) ==
  LET m == Inbound(channel.kind, Event(u)) IN
    {BuildReply(m)} \cup
    {Plain(m, ps) : ps \in {{"text"}, {"text", "image"}, {"text", "choices"}}}

\* routeOutbound by an agent that is bound to the channel: the adapter that
\* is registered sends, whatever its status, once for each of its bindings,
\* or the platform fails.
RouteOutbound(b, u) ==
  /\ Begins
  /\ b \in Active /\ registered # 0
  /\ \E i \in 1..Len(heard[b]) : heard[b][i] = u
  /\ \E o \in Answers(u) :
       \E p \in Send(channel.kind, o) :
         LET m == [of |-> u, form |-> o, to |-> p.to, parts |-> p.parts] IN
           \/ /\ channel.kind = "webchat"
              /\ queue' = queue \o [i \in 1..Cardinality(BindingsOf(binding[b].agent)) |-> m]
              /\ UNCHANGED posted
           \/ /\ channel.kind # "webchat"
              /\ posted' = posted \cup {m}
              /\ UNCHANGED queue
  /\ UNCHANGED <<host, adapter, call, poll, net, heard, reused>>

\* pollMessages: the visitor's queue is taken.
PollMessages ==
  /\ queue # <<>>
  /\ posted' = posted \cup {queue[i] : i \in 1..Len(queue)}
  /\ queue' = <<>>
  /\ Lasting
  /\ UNCHANGED <<host, adapter, call, poll, net, heard, reused>>

-----------------------------------------------------------------------------
ChannelsInit ==
  /\ overlap \in BOOLEAN
  /\ channel \in [kind : Kinds, polled : BOOLEAN]
  /\ channel.polled => channel.kind = "telegram"
  /\ registered = 0 /\ made = 0
  /\ adapter = [a \in Adapters |-> NewAdapter]
  /\ binding = [b \in Bindings |-> NoBinding]
  /\ stream = [g \in Agents |-> 0] /\ streams = 0
  /\ call = [c \in Callers |-> NoCall]
  /\ poll = [p \in Polls |-> NoPoll]
  /\ written = 0 /\ gone = 0 /\ taken = {} /\ again = MaxAgain
  /\ owed = [u \in Updates |-> {}]
  /\ heard = [b \in Bindings |-> <<>>]
  /\ reused = FALSE
  /\ queue = <<>> /\ posted = {}
  /\ calls = IF overlap THEN MaxRacing ELSE MaxCalls

Hosts ==
  \/ Register
  \/ \E c \in Callers : Connect(c) \/ Disconnect(c)
  \/ \E g \in Agents : Bind(g) \/ UnbindAgent(g) \/ GetAgentStream(g)
  \/ Unbind \/ Destroy
  \/ \E b \in Bindings, u \in Updates : RouteOutbound(b, u)

Works ==
  \/ \E c \in Callers : Asked(c) \/ Told(c) \/ Deregister(c)
  \/ \E a \in Adapters : Poll(a)
  \/ \E p \in Polls : Meet(p) \/ LosePoll(p) \/ Receive(p)
  \/ \E u \in Updates : HandleWebhook(u)
  \/ Write \/ PollMessages

ChannelsNext == Hosts \/ Works

ChannelsSpec == ChannelsInit /\ [][ChannelsNext]_channelVars

-----------------------------------------------------------------------------
(***************************************************************************)
(* Properties.                                                             *)
(***************************************************************************)
Fields ==
  [status : {"disconnected", "initializing", "connected", "error"},
   open : BOOLEAN, timers : Nat, handle : BOOLEAN, last : 0..Len(Events),
   asked : BOOLEAN, mixed : BOOLEAN]

HostCalls ==
  [op : {"none", "connect", "disconnect", "unregister", "disconnectAll"},
   by : 0..MaxAdapters, at : {"idle", "asking", "telling", "disconnected"}]

InFlight ==
  [by : 0..MaxAdapters, from : Nat, low : Nat, high : 0..Len(Events),
   answered : BOOLEAN]

Posts ==
  [of : Updates, form : UNION {Answers(u) : u \in Updates},
   to : UNION {{Place(Event(u)), Event(u).user} : u \in Updates},
   parts : SUBSET {"text", "image", "choices"}]

\* Every variable keeps its type, and what is not there says nothing.
ChannelsTypeOK ==
  /\ channel \in [kind : Kinds, polled : BOOLEAN] /\ overlap \in BOOLEAN
  /\ registered \in 0..made /\ made \in 0..MaxAdapters
  /\ adapter \in [Adapters -> Fields]
  /\ \A a \in Adapters : adapter[a].handle => adapter[a].timers > 0
  /\ streams \in Nat /\ stream \in [Agents -> 0..streams]
  /\ binding \in [Bindings -> [agent : Agents \cup {Nobody},
                               by : 0..made, subject : 0..streams]]
  /\ call \in [Callers -> HostCalls]
  /\ \A c \in Callers : call[c] # NoCall => call[c].by \in 1..made
  /\ poll \in [Polls -> InFlight]
  /\ written \in 0..Len(Events) /\ gone \in 0..written
  /\ taken \subseteq 1..written /\ again \in 0..MaxAgain
  /\ owed \in [Updates -> SUBSET Bindings]
  /\ heard \in [Bindings -> Seq(1..written)]
  /\ reused \in BOOLEAN
  /\ queue \in Seq(Posts) /\ posted \subseteq Posts
  /\ calls \in Nat

\* When the host's calls do not overlap and no adapter is connected again,
\* what the platform will not give any more was heard by every binding that
\* was there when it was written and has been there since, its adapter not
\* disconnected: however polls overlap, fail or outlive their adapter, and in
\* whatever order updates are pushed.
ForgottenWasHeard ==
  ~ overlap /\ ~ reused =>
    \A u \in (1..gone) \cup taken : \A b \in owed[u] :
      \E i \in 1..Len(heard[b]) : heard[b][i] = u

\* On a polled channel a binding hears each update once and in order, failed
\* polls, other adapters and its agent's other bindings notwithstanding,
\* unless two polls of its adapter were in flight together: lastUpdateId, one
\* for each adapter, is all that tells an update from the next.  A pushed
\* update comes as often as the platform gives it.
HeardInOrder ==
  \A b \in Active :
    channel.polled /\ ~ adapter[binding[b].by].mixed =>
      \A i, j \in 1..Len(heard[b]) : i < j => heard[b][i] < heard[b][j]

\* What reaches a platform's users in answer to a message is in the
\* conversation the message was written in, is not empty, and is whole if it
\* was a text: except that LINE writes to the sender.
RepliesReturn ==
  \A m \in posted :
    LET e == Event(m.of) IN
      /\ m.to = Place(e) \/ (channel.kind = "line" /\ m.to = e.user)
      /\ m.parts # {}
      /\ m.form.parts = {"text"} => m.parts = {"text"}
=============================================================================
