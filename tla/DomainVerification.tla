-------------------------- MODULE DomainVerification --------------------------
(***************************************************************************)
(* The life of one verification record: VerificationService's check,       *)
(* activate and cancel, and VerificationPollerService, whose chains of     *)
(* timers and checks the host starts and stops.                            *)
(*                                                                         *)
(* A check reads the record, asks the DNS and writes back what it computed *)
(* from the record it read, whatever happened to the record in between.    *)
(*                                                                         *)
(* Abstracted: times and delays (a timer fires at any moment it is armed), *)
(* the DNS answer (matched or not), the events (a listener is one more     *)
(* reason for a poll to throw).                                            *)
(***************************************************************************)
EXTENDS Naturals, FiniteSets

CONSTANTS
  Entries,         (* the PollerEntry objects startPolling may create         *)
  Callers,         (* host calls of the service in flight at once             *)
  NoEntry,         (* pollers has no entry for the record                     *)
  MaxAttempts,     (* record.maxAttempts                                      *)
  MaxChecks,       (* bound: attempts after which the host asks for no more   *)
                   (* checks                                                  *)
  MaxFaults,       (* bound: how often the database or a listener may throw   *)
  Restarts         (* the process may be restarted                            *)

ASSUME VerificationAssumption ==
  /\ NoEntry \notin Entries
  /\ Entries \cap Callers = {}
  /\ MaxAttempts \in Nat \ {0}
  /\ MaxChecks \in Nat
  /\ MaxFaults \in Nat
  /\ Restarts \in BOOLEAN

VARIABLES
  row,             (* the record in the database                              *)
  poller,          (* pollers.get(record.id), or NoEntry                      *)
  armed,           (* entries whose timer is pending                          *)
  unused,          (* entries not created yet                                 *)
  phase,           (* the await each entry's poll or caller's call is at      *)
  seen,            (* the record each of them holds                           *)
  proved,          (* history: a check has matched the TXT record             *)
  overlapped,      (* history: an operation began while another was in flight *)
  faults           (* how many more reads, writes or listeners may throw      *)

vars == <<row, poller, armed, unused, phase, seen, proved, overlapped, faults>>

Tasks == Entries \cup Callers

Statuses ==
  {"pending", "verifying", "verified", "active", "failed", "cancelled"}

Rows == [status : Statuses, attempts : Nat, verifiedAt : BOOLEAN]

\* What startVerification creates.
NewRow == [status |-> "pending", attempts |-> 0, verifiedAt |-> FALSE]

\* The statuses checkVerification returns at once.
Inactive == {"active", "failed", "cancelled"}

\* The statuses that end a poller: it stops at "verified", a check does not.
Satisfied == Inactive \cup {"verified"}

-----------------------------------------------------------------------------
(***************************************************************************)
(* checkVerification.                                                      *)
(***************************************************************************)
\* Mutant: attempts are compared before this one is counted.
Outcome_LateLimit(r, matched) ==
  LET n == r.attempts + 1
      s == IF r.status = "pending" THEN "verifying" ELSE r.status
  IN [status     |-> IF matched THEN "verified"
                     ELSE IF r.attempts >= MaxAttempts THEN "failed" ELSE s,
      attempts   |-> n,
      verifiedAt |-> matched \/ r.verifiedAt]

\* Mutant: the attempt is not counted.
Outcome_NotCounted(r, matched) ==
  LET s == IF r.status = "pending" THEN "verifying" ELSE r.status
  IN [status     |-> IF matched THEN "verified"
                     ELSE IF r.attempts + 1 >= MaxAttempts THEN "failed" ELSE s,
      attempts   |-> r.attempts,
      verifiedAt |-> matched \/ r.verifiedAt]

\* What a check that read r writes.
Outcome(r, matched) ==
  LET n == r.attempts + 1
      s == IF r.status = "pending" THEN "verifying" ELSE r.status
  IN [status     |-> IF matched THEN "verified"
                     ELSE IF n >= MaxAttempts THEN "failed" ELSE s,
      attempts   |-> n,
      verifiedAt |-> matched \/ r.verifiedAt]

\* Mutant: a cancelled record is checked too.
CheckRead_Cancelled(t) ==
  /\ phase[t] = "reading"
  /\ phase' = [phase EXCEPT ![t] = IF row.status \in {"active", "failed"}
                                   THEN "returning" ELSE "lookup"]
  /\ seen' = [seen EXCEPT ![t] = row]
  /\ UNCHANGED <<row, poller, armed, unused, proved, faults, overlapped>>

\* findOrThrow, and the early return of an inactive record.
CheckRead(t) ==
  /\ phase[t] = "reading"
  /\ phase' = [phase EXCEPT ![t] = IF row.status \in Inactive
                                   THEN "returning" ELSE "lookup"]
  /\ seen' = [seen EXCEPT ![t] = row]
  /\ UNCHANGED <<row, poller, armed, unused, proved, faults, overlapped>>

\* The DNS has answered and the update is committed.
CheckWrite(t) ==
  /\ phase[t] = "lookup"
  /\ \E matched \in BOOLEAN :
       /\ row' = Outcome(seen[t], matched)
       /\ proved' = (proved \/ matched)
  /\ seen' = [seen EXCEPT ![t] = row']
  /\ phase' = [phase EXCEPT ![t] = "returning"]
  /\ UNCHANGED <<poller, armed, unused, faults, overlapped>>

(***************************************************************************)
(* VerificationPollerService.                                              *)
(***************************************************************************)
Stopped == poller' = NoEntry /\ armed' = armed \ {poller}

\* A poll or a call is over, and with it the record it held.
Over(t) ==
  /\ phase' = [phase EXCEPT ![t] = "idle"]
  /\ seen' = [seen EXCEPT ![t] = NewRow]

\* A read, a write or a listener throws: not for ever.
Throws == faults > 0 /\ faults' = faults - 1

\* An operation begins: nothing keeps it from overlapping another.
Begins ==
  overlapped' = (overlapped \/ \E t \in Tasks : phase[t] # "idle")

StartPolling ==
  /\ Begins
  /\ poller = NoEntry
  /\ \E e \in unused :
       /\ poller' = e
       /\ armed' = armed \cup {e}
       /\ unused' = unused \ {e}
  /\ UNCHANGED <<row, phase, seen, proved, faults>>

\* The host's stopPolling, and stopAll on shutdown.
StopPolling ==
  /\ Begins
  /\ poller # NoEntry
  /\ Stopped
  /\ UNCHANGED <<row, unused, phase, seen, proved, faults>>

\* The top of poll: the entry is looked up by the record's id, so any entry
\* in the map will do.
TimerFires(e) ==
  /\ Begins
  /\ e \in armed
  /\ armed' = armed \ {e}
  /\ phase' = IF poller = NoEntry THEN phase
              ELSE [phase EXCEPT ![e] = "reading"]
  /\ UNCHANGED <<row, poller, unused, seen, proved, faults>>

\* The check of a poll has returned: stop whatever entry the record has, or
\* go on, without asking whether the poller was stopped meanwhile.
PollReturns(e) ==
  /\ phase[e] = "returning"
  /\ Over(e)
  /\ \/ seen[e].status \in Satisfied /\ Stopped
     \/ seen[e].status \notin Satisfied /\ armed' = armed \cup {e}
        /\ UNCHANGED poller
  /\ UNCHANGED <<row, unused, proved, faults, overlapped>>

\* Mutant: an error ends the chain and leaves its entry in the map.
PollThrows_Ends(e) ==
  /\ Throws
  /\ phase[e] \in {"reading", "lookup", "returning"}
  /\ Over(e)
  /\ UNCHANGED <<row, poller, armed, unused, proved, overlapped>>

\* The check threw: the read or the update failed, the update's answer was
\* lost, or a listener threw.
PollThrows(e) ==
  /\ Throws
  /\ phase[e] \in {"reading", "lookup", "returning"}
  /\ Over(e)
  /\ armed' = IF poller = NoEntry THEN armed ELSE armed \cup {e}
  /\ UNCHANGED <<row, poller, unused, proved, overlapped>>

(***************************************************************************)
(* Calls of the host.                                                      *)
(***************************************************************************)
Begin(c, p) ==
  /\ Begins
  /\ phase[c] = "idle"
  /\ phase' = [phase EXCEPT ![c] = p]
  /\ UNCHANGED <<row, poller, armed, unused, seen, proved, faults>>

CallCheck(c) == row.attempts < MaxChecks /\ Begin(c, "reading")

\* Mutant: the transition is not asserted.
CallActivate_Unasserted(c) == row.status # "active" /\ Begin(c, "activating")

\* activateVerification up to its update: the transition is asserted of the
\* record as it is now.
CallActivate(c) == row.status = "verified" /\ Begin(c, "activating")

CallCancel(c) ==
  row.status \in {"pending", "verifying"} /\ Begin(c, "cancelling")

CallReturns(c) ==
  /\ \/ phase[c] = "returning" /\ UNCHANGED row
     \/ phase[c] = "activating" /\ row' = [row EXCEPT !.status = "active"]
     \/ phase[c] = "cancelling" /\ row' = [row EXCEPT !.status = "cancelled"]
  /\ Over(c)
  /\ UNCHANGED <<poller, armed, unused, proved, faults, overlapped>>

CallThrows(c) ==
  /\ Throws
  /\ phase[c] # "idle"
  /\ Over(c)
  /\ UNCHANGED <<row, poller, armed, unused, proved, overlapped>>

\* The process dies and comes back: onModuleInit starts no poller.
Restart ==
  /\ Restarts
  /\ poller' = NoEntry /\ armed' = {}
  /\ phase' = [t \in Tasks |-> "idle"]
  /\ seen' = [t \in Tasks |-> NewRow]
  /\ UNCHANGED <<row, unused, proved, faults, overlapped>>

-----------------------------------------------------------------------------
Init ==
  /\ row = NewRow
  /\ poller = NoEntry /\ armed = {} /\ unused = Entries
  /\ phase = [t \in Tasks |-> "idle"]
  /\ seen = [t \in Tasks |-> NewRow]
  /\ proved = FALSE /\ overlapped = FALSE
  /\ faults = MaxFaults

Check == \E t \in Tasks : CheckRead(t) \/ CheckWrite(t)

Poll == \E e \in Entries : TimerFires(e) \/ PollReturns(e) \/ PollThrows(e)

Host ==
  \/ StartPolling \/ StopPolling
  \/ \E c \in Callers : \/ CallCheck(c) \/ CallActivate(c) \/ CallCancel(c)
                        \/ CallReturns(c) \/ CallThrows(c)

Next == Check \/ Poll \/ Host \/ Restart

Spec == Init /\ [][Next]_vars

(***************************************************************************)
(* Fairness: timers fire, the database and the DNS answer (dns-lookup      *)
(* never throws and its resolver has a timeout of its own).                *)
(***************************************************************************)
FairSpec ==
  /\ Spec
  /\ \A t \in Tasks : WF_vars(CheckRead(t)) /\ WF_vars(CheckWrite(t))
  /\ \A e \in Entries : WF_vars(TimerFires(e)) /\ WF_vars(PollReturns(e))
  /\ \A c \in Callers : WF_vars(CallReturns(c))

-----------------------------------------------------------------------------
(***************************************************************************)
(* Properties.                                                             *)
(***************************************************************************)
Lifecycle == INSTANCE VerificationLifecycle WITH status <- row.status

\* The chain of timers and checks of entry e goes on.
Live(e) == e \in armed \/ phase[e] # "idle"

\* Every variable keeps its type.
TypeOK ==
  /\ row \in Rows
  /\ poller \in Entries \cup {NoEntry}
  /\ armed \subseteq Entries
  /\ unused \subseteq Entries
  /\ phase \in [Tasks -> {"idle", "reading", "lookup", "returning",
                          "activating", "cancelling"}]
  /\ seen \in [Tasks -> Rows]
  /\ proved \in BOOLEAN /\ overlapped \in BOOLEAN
  /\ faults \in Nat

\* A record still being verified has an attempt left: whatever overlaps, no
\* check leaves a record waiting that the limit should have failed.
WaitingHasAttemptsLeft ==
  row.status \in {"pending", "verifying"} => row.attempts < MaxAttempts

\* Ownership was proved: a record is "verified" or "active" only if a check
\* found its TXT record, stale writes, restarts and retries included.
OwnershipWasProved == row.status \in {"verified", "active"} => proved

\* An entry in the map is being polled: startPolling, which does nothing for
\* a record that has an entry, never refuses because of a dead one.
MapEntryIsLive == poller # NoEntry => Live(poller)

\* As long as no operation has begun while another was in flight, a record
\* keeps to the declared life.
FollowsLifecycle ==
  Lifecycle!Init /\ [][overlapped' \/ [Lifecycle!Next]_(row.status)]_vars

\* As long as none has, an active record has its verifiedAt.
ActiveHasVerifiedAt == ~overlapped /\ row.status = "active" => row.verifiedAt

\* Every chain of polls comes to an end, one that stopPolling missed and
\* one of two for the same record included, unless something throws for ever.
ChainsEnd == \A e \in Entries : Live(e) ~> ~ Live(e)
=============================================================================
