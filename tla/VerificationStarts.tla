-------------------------- MODULE VerificationStarts --------------------------
(***************************************************************************)
(* startVerification and its rate limit, for one domain: the limit is      *)
(* enforced on a first read of the domain's latest record, the new         *)
(* record's window and count are computed from a second one, and nothing   *)
(* ties either read to the record that is then created.                    *)
(*                                                                         *)
(* Abstracted: the TXT record and the fields the limit does not read.  One *)
(* tick of the clock is the least time two records are told apart by.      *)
(***************************************************************************)
EXTENDS Naturals, Sequences, FiniteSets

CONSTANTS
  Starters,        (* host calls of startVerification in flight at once       *)
  MaxStarts,       (* config.maxStartsPerHour                                 *)
  Hour,            (* length of the window in ticks                           *)
  MaxClock,        (* bound: ticks                                            *)
  MaxRows          (* bound: records created                                  *)

ASSUME StartsAssumption ==
  /\ MaxStarts \in Nat \ {0}
  /\ Hour \in Nat \ {0}
  /\ MaxClock \in Nat
  /\ MaxRows \in Nat

VARIABLES
  startsOverlap,   (* the host's starts may overlap or share a tick: set once *)
  clock,           (* Date.now()                                              *)
  rows,            (* the domain's records, in the order they were created    *)
  step,            (* the await each call is at                               *)
  draft            (* the record each call is about to create                 *)

startVars == <<startsOverlap, clock, rows, step, draft>>

Drafts == [createdAt : Nat, resetAt : Nat, count : Nat]

StartRows == {r \in Drafts : r.count >= 1 /\ r.createdAt < r.resetAt}

NoStart == [createdAt |-> 0, resetAt |-> 0, count |-> 0]

\* What findFirst with orderBy createdAt desc may return: records created in
\* one tick come in any order.  With no record, the window counts as over.
Latest ==
  IF rows = <<>> THEN {NoStart}
  ELSE {rows[i] : i \in {j \in DOMAIN rows :
                          \A k \in DOMAIN rows :
                            rows[k].createdAt <= rows[j].createdAt}}

\* Mutant: the limit is passed before it stops anyone.
Limited_OneMore(r) == clock < r.resetAt /\ r.count > MaxStarts

\* enforceRateLimit: the window is active and its count used up.
Limited(r) == clock < r.resetAt /\ r.count >= MaxStarts

\* Mutant: every record starts a window of its own.
Drafted_NewWindow(now, r) ==
  [createdAt |-> now, resetAt |-> now + Hour,
   count |-> IF now >= r.resetAt THEN 1 ELSE r.count + 1]

\* The record a call with this now creates after it read r.
Drafted(now, r) ==
  IF now >= r.resetAt
  THEN [createdAt |-> now, resetAt |-> now + Hour, count |-> 1]
  ELSE [createdAt |-> now, resetAt |-> r.resetAt, count |-> r.count + 1]

\* The host waits for a start to return, and the clock has moved on.
MayBegin ==
  \/ startsOverlap
  \/ /\ \A s \in Starters : step[s] = "idle"
     /\ \A i \in DOMAIN rows : rows[i].createdAt < clock

\* enforceRateLimit has passed, and now is taken.
Enforce(s) ==
  /\ step[s] = "idle"
  /\ MayBegin
  /\ \E r \in Latest : ~ Limited(r)
  /\ step' = [step EXCEPT ![s] = "counting"]
  /\ draft' = [draft EXCEPT ![s].createdAt = clock]
  /\ UNCHANGED <<startsOverlap, clock, rows>>

Count(s) ==
  /\ step[s] = "counting"
  /\ \E r \in Latest :
       draft' = [draft EXCEPT ![s] = Drafted(draft[s].createdAt, r)]
  /\ step' = [step EXCEPT ![s] = "creating"]
  /\ UNCHANGED <<startsOverlap, clock, rows>>

CreateStart(s) ==
  /\ step[s] = "creating"
  /\ Len(rows) < MaxRows
  /\ rows' = Append(rows, draft[s])
  /\ step' = [step EXCEPT ![s] = "idle"]
  /\ draft' = [draft EXCEPT ![s] = NoStart]
  /\ UNCHANGED <<startsOverlap, clock>>

\* A read or the create throws.
StartThrows(s) ==
  /\ step[s] # "idle"
  /\ step' = [step EXCEPT ![s] = "idle"]
  /\ draft' = [draft EXCEPT ![s] = NoStart]
  /\ UNCHANGED <<startsOverlap, clock, rows>>

Tick ==
  /\ clock < MaxClock
  /\ clock' = clock + 1
  /\ UNCHANGED <<startsOverlap, rows, step, draft>>

-----------------------------------------------------------------------------
StartsInit ==
  /\ startsOverlap \in BOOLEAN
  /\ clock = 1
  /\ rows = <<>>
  /\ step = [s \in Starters |-> "idle"]
  /\ draft = [s \in Starters |-> NoStart]

StartsNext ==
  \/ \E s \in Starters : Enforce(s) \/ Count(s) \/ CreateStart(s) \/ StartThrows(s)
  \/ Tick

StartsSpec == StartsInit /\ [][StartsNext]_startVars

-----------------------------------------------------------------------------
(***************************************************************************)
(* Properties.                                                             *)
(***************************************************************************)
\* The records created in the window that ends at w.
Window(w) == {i \in DOMAIN rows : rows[i].createdAt \in (w - Hour)..(w - 1)}

\* Every variable keeps its type: a record that is created has a count and a
\* window that is not over.
StartsTypeOK ==
  /\ startsOverlap \in BOOLEAN
  /\ clock \in Nat
  /\ rows \in Seq(StartRows)
  /\ step \in [Starters -> {"idle", "counting", "creating"}]
  /\ draft \in [Starters -> Drafts]

\* No window has more records than the limit allows, whichever record's
\* window one looks at: what verification.service.ts says of
\* startVerification, "throws RATE_LIMITED if the domain has exceeded
\* maxStartsPerHour within the current 1-hour window".
StartsAreLimited ==
  \A i \in DOMAIN rows : Cardinality(Window(rows[i].resetAt)) <= MaxStarts

\* Starts that do not overlap keep to the limit, in every window.
SerialStartsAreLimited == ~ startsOverlap => StartsAreLimited

\* Nobody is refused early: a count that is used up is backed by as many
\* records in its window, starts that overlapped or threw included.
RefusalsAreJustified ==
  \A r \in Latest :
    Limited(r) => Cardinality(Window(r.resetAt)) >= MaxStarts
=============================================================================
