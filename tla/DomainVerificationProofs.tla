----------------------- MODULE DomainVerificationProofs -----------------------
(***************************************************************************)
(* Safety of one verification record for any number of pollers, callers    *)
(* and attempts, the record's life when operations do not overlap, and the *)
(* limit on starts for any number of callers.                              *)
(***************************************************************************)
EXTENDS DomainVerification, VerificationStarts, FiniteSetTheorems, TLAPS

\* What a task knows of the record it read, whatever happened since.
TaskInv ==
  \A t \in Tasks :
    /\ seen[t].status \in {"verified", "active"} => proved
    /\ phase[t] = "activating" => proved

IInv ==
  /\ TypeOK
  /\ WaitingHasAttemptsLeft
  /\ OwnershipWasProved
  /\ MapEntryIsLive
  /\ TaskInv

-----------------------------------------------------------------------------
LEMMA NewRowIsRow == NewRow \in Rows /\ NewRow.status = "pending"
BY DEF NewRow, Rows, Statuses

LEMMA InitInv == Init => IInv
<1> SUFFICES ASSUME Init PROVE IInv
  OBVIOUS
<1>1. TypeOK
  BY NewRowIsRow, VerificationAssumption DEF Init, TypeOK
<1>2. WaitingHasAttemptsLeft
  BY VerificationAssumption DEF Init, WaitingHasAttemptsLeft, NewRow
<1>3. OwnershipWasProved /\ MapEntryIsLive /\ TaskInv
  BY NewRowIsRow
     DEF Init, OwnershipWasProved, MapEntryIsLive, TaskInv
<1> QED BY <1>1, <1>2, <1>3 DEF IInv

\* What a check may write.
LEMMA OutcomeFacts ==
  ASSUME NEW r \in Rows, NEW matched \in BOOLEAN
  PROVE  LET o == Outcome(r, matched) IN
         /\ o \in Rows
         /\ o.status \in {"pending", "verifying"} => o.attempts < MaxAttempts
         /\ o.status \in {"verified", "active"} =>
              matched \/ r.status \in {"verified", "active"}
<1>1. /\ r.status \in Statuses /\ r.attempts \in Nat
      /\ r.verifiedAt \in BOOLEAN /\ MaxAttempts \in Nat
  BY VerificationAssumption DEF Rows
<1>2. (matched \/ r.verifiedAt) \in BOOLEAN
  OBVIOUS
<1>3. /\ Outcome(r, matched).status \in Statuses
      /\ Outcome(r, matched).attempts = r.attempts + 1
      /\ Outcome(r, matched).verifiedAt = (matched \/ r.verifiedAt)
      /\ Outcome(r, matched).status \in {"pending", "verifying"} =>
           ~ (r.attempts + 1 >= MaxAttempts)
      /\ Outcome(r, matched).status \in {"verified", "active"} =>
           matched \/ r.status \in {"verified", "active"}
  BY <1>1 DEF Outcome, Statuses
<1>4. Outcome(r, matched) \in Rows
  BY <1>1, <1>2, <1>3 DEF Outcome, Rows
<1> QED BY <1>1, <1>3, <1>4

LEMMA TypeStep == TypeOK /\ [Next]_vars => TypeOK'
<1> SUFFICES ASSUME TypeOK, [Next]_vars PROVE TypeOK'
  OBVIOUS
<1> USE VerificationAssumption DEF TypeOK, Tasks, Begins
<1>1. ASSUME NEW t \in Tasks, CheckRead(t) PROVE TypeOK'
  BY <1>1 DEF CheckRead
<1>2. ASSUME NEW t \in Tasks, CheckWrite(t) PROVE TypeOK'
  <2>1. PICK matched \in BOOLEAN : /\ row' = Outcome(seen[t], matched)
                                   /\ proved' = (proved \/ matched)
    BY <1>2 DEF CheckWrite
  <2>2. row' \in Rows
    BY <2>1, OutcomeFacts
  <2> QED BY <1>2, <2>1, <2>2 DEF CheckWrite
<1>3. ASSUME NEW e \in Entries, TimerFires(e) \/ PollReturns(e) \/ PollThrows(e)
      PROVE  TypeOK'
  <2>1. CASE TimerFires(e)
    <3>1. overlapped' \in BOOLEAN
      BY <2>1 DEF TimerFires
    <3>2. /\ armed' \subseteq Entries
          /\ phase' \in [Tasks -> {"idle", "reading", "lookup", "returning",
                                   "activating", "cancelling"}]
      BY <2>1 DEF TimerFires
    <3> QED BY <2>1, <3>1, <3>2 DEF TimerFires
  <2>2. CASE PollReturns(e) \/ PollThrows(e)
    BY <2>2, NewRowIsRow DEF PollReturns, PollThrows, Stopped, Over, Throws
  <2> QED BY <1>3, <2>1, <2>2
<1>4. CASE StartPolling \/ StopPolling
  BY <1>4 DEF StartPolling, StopPolling, Stopped
<1>5. ASSUME NEW c \in Callers,
             CallCheck(c) \/ CallActivate(c) \/ CallCancel(c)
      PROVE  TypeOK'
  BY <1>5 DEF CallCheck, CallActivate, CallCancel, Begin
<1>6. ASSUME NEW c \in Callers, CallReturns(c) \/ CallThrows(c)
      PROVE  TypeOK'
  BY <1>6, NewRowIsRow DEF CallReturns, CallThrows, Over, Rows, Statuses, Throws
<1>7. CASE Restart
  BY <1>7, NewRowIsRow DEF Restart
<1>8. CASE UNCHANGED vars
  BY <1>8 DEF vars
<1> QED BY <1>1, <1>2, <1>3, <1>4, <1>5, <1>6, <1>7, <1>8
           DEF Next, Check, Poll, Host

\* The record: only a check's write and a returning call change it.
LEMMA RowStep ==
  IInv /\ [Next]_vars =>
    WaitingHasAttemptsLeft' /\ OwnershipWasProved' /\ TaskInv'
<1> SUFFICES ASSUME IInv, [Next]_vars
             PROVE  WaitingHasAttemptsLeft' /\ OwnershipWasProved' /\ TaskInv'
  OBVIOUS
<1> USE DEF IInv, WaitingHasAttemptsLeft, OwnershipWasProved, TaskInv
<1>0. /\ row \in Rows /\ seen \in [Tasks -> Rows]
      /\ phase \in [Tasks -> {"idle", "reading", "lookup", "returning",
                              "activating", "cancelling"}]
      /\ proved \in BOOLEAN
  BY DEF TypeOK
<1>1. ASSUME NEW t \in Tasks, CheckRead(t)
      PROVE  WaitingHasAttemptsLeft' /\ OwnershipWasProved' /\ TaskInv'
  BY <1>0, <1>1 DEF CheckRead
<1>2. ASSUME NEW t \in Tasks, CheckWrite(t)
      PROVE  WaitingHasAttemptsLeft' /\ OwnershipWasProved' /\ TaskInv'
  <2>1. PICK matched \in BOOLEAN : /\ row' = Outcome(seen[t], matched)
                                   /\ proved' = (proved \/ matched)
    BY <1>2 DEF CheckWrite
  <2>2. /\ seen' = [seen EXCEPT ![t] = row']
        /\ phase' = [phase EXCEPT ![t] = "returning"]
    BY <1>2 DEF CheckWrite
  <2>3. /\ row'.status \in {"pending", "verifying"} =>
             row'.attempts < MaxAttempts
        /\ row'.status \in {"verified", "active"} =>
             matched \/ seen[t].status \in {"verified", "active"}
    BY <1>0, <2>1, OutcomeFacts
  <2>4. row'.status \in {"verified", "active"} => proved'
    BY <2>1, <2>3
  <2>5. proved => proved'
    BY <2>1
  <2> QED BY <1>0, <2>2, <2>3, <2>4, <2>5
<1>3. ASSUME NEW e \in Entries, TimerFires(e) \/ PollReturns(e) \/ PollThrows(e)
      PROVE  WaitingHasAttemptsLeft' /\ OwnershipWasProved' /\ TaskInv'
  BY <1>0, <1>3, NewRowIsRow
     DEF TimerFires, PollReturns, PollThrows, Over, Tasks
<1>4. CASE StartPolling \/ StopPolling
  BY <1>4 DEF StartPolling, StopPolling
<1>5. ASSUME NEW c \in Callers,
             CallCheck(c) \/ CallActivate(c) \/ CallCancel(c)
      PROVE  WaitingHasAttemptsLeft' /\ OwnershipWasProved' /\ TaskInv'
  BY <1>0, <1>5 DEF CallCheck, CallActivate, CallCancel, Begin, Tasks
<1>6. ASSUME NEW c \in Callers, CallReturns(c) \/ CallThrows(c)
      PROVE  WaitingHasAttemptsLeft' /\ OwnershipWasProved' /\ TaskInv'
  BY <1>0, <1>6, NewRowIsRow DEF CallReturns, CallThrows, Over, Tasks, Rows
<1>7. CASE Restart
  BY <1>7, NewRowIsRow DEF Restart
<1>8. CASE UNCHANGED vars
  BY <1>8 DEF vars
<1> QED BY <1>1, <1>2, <1>3, <1>4, <1>5, <1>6, <1>7, <1>8
           DEF Next, Check, Poll, Host

\* The map: a chain leaves it only together with its entry.
LEMMA MapStep == IInv /\ [Next]_vars => MapEntryIsLive'
<1> SUFFICES ASSUME IInv, [Next]_vars PROVE MapEntryIsLive'
  OBVIOUS
<1> USE VerificationAssumption DEF IInv, MapEntryIsLive, Live
<1>0. /\ poller \in Entries \cup {NoEntry}
      /\ phase \in [Tasks -> {"idle", "reading", "lookup", "returning",
                              "activating", "cancelling"}]
      /\ Entries \subseteq Tasks /\ Callers \subseteq Tasks
  BY DEF TypeOK, Tasks
<1>1. ASSUME NEW t \in Tasks, CheckRead(t) \/ CheckWrite(t)
      PROVE  MapEntryIsLive'
  BY <1>0, <1>1 DEF CheckRead, CheckWrite
<1>2. ASSUME NEW e \in Entries, TimerFires(e) PROVE MapEntryIsLive'
  BY <1>0, <1>2 DEF TimerFires
<1>3. ASSUME NEW e \in Entries, PollReturns(e) PROVE MapEntryIsLive'
  BY <1>0, <1>3 DEF PollReturns, Over, Stopped
<1>4. ASSUME NEW e \in Entries, PollThrows(e) PROVE MapEntryIsLive'
  BY <1>0, <1>4 DEF PollThrows, Over
<1>5. CASE StartPolling \/ StopPolling
  BY <1>0, <1>5 DEF StartPolling, StopPolling, Stopped
<1>6. ASSUME NEW c \in Callers,
             \/ CallCheck(c) \/ CallActivate(c) \/ CallCancel(c)
             \/ CallReturns(c) \/ CallThrows(c)
      PROVE  MapEntryIsLive'
  <2>1. poller # NoEntry => poller # c
    BY <1>0
  <2>2. \A t \in Tasks : t # c => phase'[t] = phase[t]
    BY <1>0, <1>6
       DEF CallCheck, CallActivate, CallCancel, Begin, CallReturns, CallThrows,
           Over
  <2>3. UNCHANGED <<poller, armed>>
    BY <1>6
       DEF CallCheck, CallActivate, CallCancel, Begin, CallReturns, CallThrows
  <2> QED BY <1>0, <2>1, <2>2, <2>3
<1>7. CASE Restart
  BY <1>7 DEF Restart
<1>8. CASE UNCHANGED vars
  BY <1>8 DEF vars
<1> QED BY <1>1, <1>2, <1>3, <1>4, <1>5, <1>6, <1>7, <1>8
           DEF Next, Check, Poll, Host

-----------------------------------------------------------------------------
(***************************************************************************)
(* One operation at a time: the record a task holds is the one in the      *)
(* database, so the record keeps to its declared life.                     *)
(***************************************************************************)
SerialInv ==
  /\ \A t, u \in Tasks : phase[t] # "idle" /\ phase[u] # "idle" => t = u
  /\ \A t \in Tasks :
       /\ phase[t] = "lookup" => seen[t] = row /\ row.status \notin Inactive
       /\ phase[t] = "activating" => row.status = "verified"
       /\ phase[t] = "cancelling" => row.status \in {"pending", "verifying"}
  /\ row.status \in {"verified", "active"} => row.verifiedAt

\* An operation that overlaps none began with all tasks idle.
LEMMA BeginsAlone ==
  ASSUME TypeOK, Begins, ~overlapped'
  PROVE  ~overlapped /\ \A t \in Tasks : phase[t] = "idle"
<1>1. /\ overlapped \in BOOLEAN
      /\ overlapped' = (overlapped \/ \E t \in Tasks : phase[t] # "idle")
  BY DEF TypeOK, Begins
<1> QED BY <1>1

\* What has overlapped has overlapped.
LEMMA OverlapStays == TypeOK /\ [Next]_vars => (overlapped => overlapped')
<1> SUFFICES ASSUME TypeOK, [Next]_vars, overlapped PROVE overlapped'
  OBVIOUS
<1>1. Begins => overlapped'
  BY DEF Begins
<1>2. CASE Check \/ Restart \/ UNCHANGED vars
  BY <1>2 DEF Check, CheckRead, CheckWrite, Restart, vars
<1>3. CASE Poll
  BY <1>1, <1>3 DEF Poll, TimerFires, PollReturns, PollThrows
<1>4. CASE Host
  BY <1>1, <1>4
     DEF Host, StartPolling, StopPolling, CallCheck, CallActivate, CallCancel,
         Begin, CallReturns, CallThrows
<1> QED BY <1>2, <1>3, <1>4 DEF Next

\* A task changes nothing but its own place and, if it is in a write, the row.
LEMMA SerialStep ==
  IInv /\ SerialInv /\ [Next]_vars /\ ~overlapped' => SerialInv'
<1> SUFFICES ASSUME IInv, SerialInv, [Next]_vars, ~overlapped'
             PROVE  SerialInv'
  OBVIOUS
<1> USE DEF SerialInv
<1>0. /\ phase \in [Tasks -> {"idle", "reading", "lookup", "returning",
                              "activating", "cancelling"}]
      /\ seen \in [Tasks -> Rows] /\ row \in Rows
      /\ Entries \subseteq Tasks /\ Callers \subseteq Tasks
      /\ Begins => \A t \in Tasks : phase[t] = "idle"
  BY BeginsAlone DEF IInv, TypeOK, Tasks
<1>1. ASSUME NEW t \in Tasks, CheckRead(t) PROVE SerialInv'
  BY <1>0, <1>1 DEF CheckRead
<1>2. ASSUME NEW t \in Tasks, CheckWrite(t) PROVE SerialInv'
  <2>1. PICK matched \in BOOLEAN : row' = Outcome(row, matched)
    BY <1>2 DEF CheckWrite
  <2>2. /\ phase[t] = "lookup" /\ phase' = [phase EXCEPT ![t] = "returning"]
        /\ seen' = [seen EXCEPT ![t] = row']
    BY <1>2 DEF CheckWrite
  <2>3. \A u \in Tasks : phase'[u] \in {"idle", "returning"}
    BY <1>0, <2>2
  <2>4. row'.status \in {"verified", "active"} => row'.verifiedAt
    <3>1. /\ row.status \notin Inactive /\ row.status \in Statuses
          /\ row.status \in {"verified", "active"} => row.verifiedAt
      BY <1>0, <2>2 DEF Rows
    <3>2. row'.verifiedAt = (matched \/ row.verifiedAt)
      BY <2>1 DEF Outcome
    <3>3. row'.status \in {"verified", "active"} =>
            matched \/ row.status \in {"verified", "active"}
      BY <1>0, <2>1, OutcomeFacts
    <3> QED BY <3>1, <3>2, <3>3
  <2> QED BY <1>0, <2>2, <2>3, <2>4
<1>3. ASSUME NEW e \in Entries, TimerFires(e) \/ PollReturns(e) \/ PollThrows(e)
      PROVE  SerialInv'
  <2>1. CASE TimerFires(e)
    BY <1>0, <2>1 DEF TimerFires
  <2>2. CASE PollReturns(e) \/ PollThrows(e)
    BY <1>0, <2>2 DEF PollReturns, PollThrows, Over
  <2> QED BY <1>3, <2>1, <2>2
<1>4. CASE StartPolling \/ StopPolling
  BY <1>4 DEF StartPolling, StopPolling
<1>5. ASSUME NEW c \in Callers,
             CallCheck(c) \/ CallActivate(c) \/ CallCancel(c)
      PROVE  SerialInv'
  BY <1>0, <1>5 DEF CallCheck, CallActivate, CallCancel, Begin
<1>6. ASSUME NEW c \in Callers, CallReturns(c) \/ CallThrows(c)
      PROVE  SerialInv'
  <2>1. /\ phase[c] # "idle" /\ phase' = [phase EXCEPT ![c] = "idle"]
        /\ \A t \in Tasks : phase'[t] = "idle"
    BY <1>0, <1>6 DEF CallReturns, CallThrows, Over
  <2>2. row'.status \in {"verified", "active"} => row'.verifiedAt
    BY <1>0, <1>6 DEF CallReturns, CallThrows, Rows
  <2> QED BY <1>0, <2>1, <2>2
<1>7. CASE Restart
  BY <1>7 DEF Restart
<1>8. CASE UNCHANGED vars
  BY <1>8 DEF vars
<1> QED BY <1>1, <1>2, <1>3, <1>4, <1>5, <1>6, <1>7, <1>8
           DEF Next, Check, Poll, Host

\* What one operation at a time does to the status.
LEMMA LifecycleStep ==
  IInv /\ SerialInv /\ [Next]_vars => [Lifecycle!Next]_(row.status)
<1> SUFFICES ASSUME IInv, SerialInv, [Next]_vars
             PROVE  Lifecycle!Next \/ row'.status = row.status
  OBVIOUS
<1> USE DEF Lifecycle!Next, Lifecycle!Move, Lifecycle!FirstCheck,
            Lifecycle!ValidTransitions
<1>0. row \in Rows
  BY DEF IInv, TypeOK
<1>1. ASSUME NEW t \in Tasks, CheckWrite(t)
      PROVE  Lifecycle!Next \/ row'.status = row.status
  <2>1. PICK matched \in BOOLEAN : row' = Outcome(row, matched)
    BY <1>1 DEF CheckWrite, SerialInv
  <2>2. row.status \in {"pending", "verifying", "verified"}
    BY <1>0, <1>1 DEF CheckWrite, SerialInv, Inactive, Rows, Statuses
  <2>3. \/ row'.status \in {"verified", "failed"}
        \/ row'.status =
             IF row.status = "pending" THEN "verifying" ELSE row.status
    BY <2>1 DEF Outcome
  <2> QED BY <2>2, <2>3
<1>2. ASSUME NEW c \in Callers, CallReturns(c)
      PROVE  Lifecycle!Next \/ row'.status = row.status
  <2>1. CASE phase[c] = "activating" /\ row' = [row EXCEPT !.status = "active"]
    <3>1. row.status = "verified" /\ row'.status = "active"
      BY <1>0, <2>1 DEF SerialInv, Tasks, Rows
    <3> QED BY <3>1
  <2>2. CASE phase[c] = "cancelling"
             /\ row' = [row EXCEPT !.status = "cancelled"]
    <3>1. row.status \in {"pending", "verifying"} /\ row'.status = "cancelled"
      BY <1>0, <2>2 DEF SerialInv, Tasks, Rows
    <3> QED BY <3>1
  <2> QED BY <1>2, <2>1, <2>2 DEF CallReturns
<1>3. CASE ~ \/ \E t \in Tasks : CheckWrite(t)
             \/ \E c \in Callers : CallReturns(c)
  BY <1>3
     DEF Next, Check, Poll, Host, CheckRead, TimerFires, PollReturns,
         PollThrows, StartPolling, StopPolling, CallCheck, CallActivate,
         CallCancel, Begin, CallThrows, Restart, vars
<1> QED BY <1>1, <1>2, <1>3

-----------------------------------------------------------------------------
(***************************************************************************)
(* Theorems.                                                               *)
(***************************************************************************)
\* The inductive invariant holds in every reachable state.
THEOREM Invariance == Spec => []IInv
<1>1. IInv /\ [Next]_vars => IInv'
  BY TypeStep, RowStep, MapStep DEF IInv
<1> QED BY InitInv, <1>1, PTL DEF Spec

\* Every variable keeps its type.
THEOREM TypeCorrect == Spec => []TypeOK
<1>1. IInv => TypeOK
  BY DEF IInv
<1> QED BY Invariance, <1>1, PTL

\* No check, however stale, leaves a record waiting without attempts left.
THEOREM AttemptsCorrect == Spec => []WaitingHasAttemptsLeft
<1>1. IInv => WaitingHasAttemptsLeft
  BY DEF IInv
<1> QED BY Invariance, <1>1, PTL

\* A domain is verified or active only after its TXT record was found.
THEOREM OwnershipCorrect == Spec => []OwnershipWasProved
<1>1. IInv => OwnershipWasProved
  BY DEF IInv
<1> QED BY Invariance, <1>1, PTL

\* The poller's map holds no dead entry, which would stop polling for good.
THEOREM PollerMapCorrect == Spec => []MapEntryIsLive
<1>1. IInv => MapEntryIsLive
  BY DEF IInv
<1> QED BY Invariance, <1>1, PTL

\* A host that waits for each operation sees the declared life of a record,
\* and every active record with its verifiedAt.
THEOREM SerialCorrect == Spec => FollowsLifecycle /\ []ActiveHasVerifiedAt
<1> DEFINE Serial == ~overlapped => SerialInv
<1>1. Init => Serial /\ Lifecycle!Init
  BY NewRowIsRow DEF Init, SerialInv, Lifecycle!Init
<1>2. IInv /\ Serial /\ [Next]_vars => Serial'
  BY SerialStep, OverlapStays DEF IInv
<1>3. Serial => ActiveHasVerifiedAt
  BY DEF SerialInv, ActiveHasVerifiedAt
<1>4. IInv /\ Serial /\ [Next]_vars =>
        [overlapped' \/ [Lifecycle!Next]_(row.status)]_vars
  BY LifecycleStep, OverlapStays DEF IInv
<1> HIDE DEF Serial
<1> QED
  BY <1>1, <1>2, <1>3, <1>4, Invariance, PTL DEF Spec, FollowsLifecycle

-----------------------------------------------------------------------------
(***************************************************************************)
(* The starts of one domain and their limit.                               *)
(***************************************************************************)
\* The window of d was opened by a record that still stands.
Opened(d) == \E j \in DOMAIN rows : d.resetAt <= rows[j].createdAt + Hour

\* There are n records in d's window, if d is in it itself.
Backed(d, n) ==
  d.resetAt <= d.createdAt + Hour => n <= Cardinality(Window(d.resetAt))

\* The counts of the records, and of those about to be created, are backed:
\* a count that was lost to an overlapping start is one too low.
CountsAreBacked ==
  /\ 0 < clock
  /\ \A i \in DOMAIN rows : Opened(rows[i]) /\ Backed(rows[i], rows[i].count)
  /\ \A s \in Starters :
       /\ step[s] # "idle" => 0 < draft[s].createdAt
       /\ step[s] = "creating" =>
            /\ draft[s] \in StartRows
            /\ draft[s].resetAt <= draft[s].createdAt + Hour \/ Opened(draft[s])
            /\ Backed(draft[s], draft[s].count - 1)

\* The record d comes after r: next in its window, or when that is over.
Follows(r, d) ==
  /\ r.createdAt < d.createdAt
  /\ \/ r.resetAt = d.resetAt /\ r.count < d.count
     \/ r.resetAt <= d.createdAt

\* The record d opened its window, or one of the first n records did.
OpenedBy(d, n) ==
  \/ d.resetAt = d.createdAt + Hour
  \/ \E j \in 1..n : rows[j].resetAt = d.resetAt /\ d.resetAt = rows[j].createdAt + Hour

\* Starts that do not overlap: one is under way, and its record follows all
\* the others.
SerialStarts ==
  ~ startsOverlap =>
    /\ \A s, t \in Starters : step[s] # "idle" /\ step[t] # "idle" => s = t
    /\ \A i, j \in DOMAIN rows : i < j => Follows(rows[i], rows[j])
    /\ \A i \in DOMAIN rows : rows[i].count <= MaxStarts /\ OpenedBy(rows[i], i)
    /\ \A s \in Starters :
         /\ step[s] # "idle" =>
              \A i \in DOMAIN rows : rows[i].createdAt < draft[s].createdAt
         /\ step[s] = "counting" =>
              \A r \in Latest :
                r.resetAt <= draft[s].createdAt \/ r.count < MaxStarts
         /\ step[s] = "creating" =>
              /\ \A i \in DOMAIN rows : Follows(rows[i], draft[s])
              /\ draft[s].count <= MaxStarts
              /\ OpenedBy(draft[s], Len(rows))

StartsInv == StartsTypeOK /\ CountsAreBacked /\ SerialStarts

\* A record is in the window that ends at w when it is not older than an hour.
LEMMA WindowMembers ==
  ASSUME StartsTypeOK, NEW w \in Nat
  PROVE  /\ \A i \in DOMAIN rows :
              i \in Window(w) <=> w <= rows[i].createdAt + Hour /\ rows[i].createdAt < w
         /\ Window(w) \subseteq DOMAIN rows
         /\ IsFiniteSet(Window(w))
         /\ Cardinality(Window(w)) \in Nat
<1>1. Len(rows) \in Nat /\ DOMAIN rows = 1..Len(rows) /\ Hour \in Nat
  BY StartsAssumption DEF StartsTypeOK
<1>2. \A i \in DOMAIN rows : rows[i].createdAt \in Nat
  BY DEF StartsTypeOK, StartRows, Drafts
<1>3. Window(w) \subseteq DOMAIN rows
  BY DEF Window
<1>4. IsFiniteSet(Window(w))
  <2>1. IsFiniteSet(1..Len(rows))
    BY <1>1, FS_Interval
  <2> QED BY <1>1, <1>3, <2>1, FS_Subset
<1>5. Cardinality(Window(w)) \in Nat
  BY <1>4, FS_CardinalityType
<1>6. \A i \in DOMAIN rows :
        i \in Window(w) <=> w <= rows[i].createdAt + Hour /\ rows[i].createdAt < w
  BY <1>1, <1>2 DEF Window
<1> QED BY <1>3, <1>4, <1>5, <1>6

\* What the latest record may be.
LEMMA LatestRecords ==
  ASSUME StartsTypeOK, NEW r \in Latest
  PROVE  /\ r \in Drafts
         /\ \/ rows = <<>> /\ r = NoStart
            \/ \E i \in DOMAIN rows :
                 r = rows[i] /\ \A k \in DOMAIN rows : rows[k].createdAt <= rows[i].createdAt
<1>1. CASE rows = <<>>
  BY <1>1 DEF Latest, NoStart, Drafts
<1>2. CASE rows # <<>>
  BY <1>2 DEF Latest, StartsTypeOK, StartRows
<1> QED BY <1>1, <1>2

\* The record that a start creates has a count and a window that is not over.
LEMMA DraftIsRow ==
  ASSUME NEW now \in Nat, NEW r \in Drafts
  PROVE  /\ Drafted(now, r) \in StartRows
         /\ Drafted(now, r).createdAt = now
<1>1. Hour \in Nat \ {0} /\ r.resetAt \in Nat /\ r.count \in Nat
  BY StartsAssumption DEF Drafts
<1> QED
  BY <1>1 DEF Drafted, StartRows, Drafts

\* The step of one start: what changes of its own, and no record.
Advances(s) ==
  /\ UNCHANGED <<startsOverlap, clock, rows>>
  /\ \A t \in Starters \ {s} : step'[t] = step[t] /\ draft'[t] = draft[t]

LEMMA StartSteps ==
  ASSUME StartsTypeOK, NEW s \in Starters
  PROVE  /\ Enforce(s) => Advances(s) /\ step'[s] = "counting" /\ draft'[s].createdAt = clock
         /\ Count(s) => /\ Advances(s) /\ step[s] = "counting" /\ step'[s] = "creating"
                        /\ \E r \in Latest : draft'[s] = Drafted(draft[s].createdAt, r)
         /\ CreateStart(s) => /\ step[s] = "creating" /\ step'[s] = "idle"
                         /\ rows' = Append(rows, draft[s]) /\ UNCHANGED <<startsOverlap, clock>>
                         /\ \A t \in Starters \ {s} : step'[t] = step[t] /\ draft'[t] = draft[t]
         /\ StartThrows(s) => Advances(s) /\ step[s] # "idle" /\ step'[s] = "idle"
<1>1. draft[s] \in [createdAt : Nat, resetAt : Nat, count : Nat]
  BY DEF StartsTypeOK, Drafts
<1>2. Enforce(s) => Advances(s) /\ step'[s] = "counting" /\ draft'[s].createdAt = clock
  BY <1>1 DEF StartsTypeOK, Enforce, Advances
<1>3. Count(s) => /\ Advances(s) /\ step[s] = "counting" /\ step'[s] = "creating"
                  /\ \E r \in Latest : draft'[s] = Drafted(draft[s].createdAt, r)
  BY DEF StartsTypeOK, Count, Advances
<1>4. CreateStart(s) => /\ step[s] = "creating" /\ step'[s] = "idle"
                   /\ rows' = Append(rows, draft[s]) /\ UNCHANGED <<startsOverlap, clock>>
                   /\ \A t \in Starters \ {s} : step'[t] = step[t] /\ draft'[t] = draft[t]
  BY DEF StartsTypeOK, CreateStart
<1>5. StartThrows(s) => Advances(s) /\ step[s] # "idle" /\ step'[s] = "idle"
  BY DEF StartsTypeOK, StartThrows, Advances
<1> QED BY <1>2, <1>3, <1>4, <1>5

\* No step breaks a type, once what is created has a count and a window.
LEMMA StartsTypesStep ==
  ASSUME StartsTypeOK, CountsAreBacked, [StartsNext]_startVars
  PROVE  StartsTypeOK'
<1> USE DEF StartsTypeOK
<1>1. ASSUME NEW s \in Starters, Enforce(s)
      PROVE  StartsTypeOK'
  <2> DEFINE d == [draft[s] EXCEPT !.createdAt = clock]
  <2>1. draft[s] \in [createdAt : Nat, resetAt : Nat, count : Nat]
    BY DEF Drafts
  <2>2. d \in Drafts
    BY <2>1 DEF Drafts
  <2>3. draft' = [draft EXCEPT ![s] = d]
    BY <1>1 DEF Enforce
  <2> HIDE DEF d
  <2> QED BY <1>1, <2>2, <2>3 DEF Enforce
<1>2. ASSUME NEW s \in Starters, Count(s)
      PROVE  StartsTypeOK'
  <2>1. PICK r \in Latest : draft' = [draft EXCEPT ![s] = Drafted(draft[s].createdAt, r)]
    BY <1>2 DEF Count
  <2>2. Drafted(draft[s].createdAt, r) \in Drafts
    BY LatestRecords, DraftIsRow DEF Drafts, StartRows
  <2> QED BY <1>2, <2>1, <2>2 DEF Count
<1>3. ASSUME NEW s \in Starters, CreateStart(s)
      PROVE  StartsTypeOK'
  <2>1. draft[s] \in StartRows
    BY <1>3 DEF CreateStart, CountsAreBacked
  <2>2. rows' \in Seq(StartRows)
    BY <1>3, <2>1 DEF CreateStart
  <2>3. NoStart \in Drafts
    BY DEF NoStart, Drafts
  <2> QED BY <1>3, <2>2, <2>3 DEF CreateStart
<1>4. ASSUME NEW s \in Starters, StartThrows(s)
      PROVE  StartsTypeOK'
  <2>1. NoStart \in Drafts
    BY DEF NoStart, Drafts
  <2> QED BY <1>4, <2>1 DEF StartThrows
<1>5. CASE Tick
  BY <1>5 DEF Tick
<1>6. CASE UNCHANGED startVars
  BY <1>6 DEF startVars
<1> QED
  BY <1>1, <1>2, <1>3, <1>4, <1>5, <1>6 DEF StartsNext

\* A record that is created adds itself to the window it is in.
LEMMA WindowGrows ==
  ASSUME StartsTypeOK, NEW d \in StartRows, rows' = Append(rows, d), NEW w \in Nat
  PROVE  /\ Cardinality(Window(w)) <= Cardinality(Window(w)')
         /\ w <= d.createdAt + Hour /\ d.createdAt < w =>
              Cardinality(Window(w)) + 1 <= Cardinality(Window(w)')
<1> DEFINE n == Len(rows) + 1
           here == w <= d.createdAt + Hour /\ d.createdAt < w
<1>1. /\ Len(rows) \in Nat /\ DOMAIN rows = 1..Len(rows) /\ DOMAIN rows' = 1..n
      /\ rows'[n] = d /\ \A i \in DOMAIN rows : rows'[i] = rows[i]
      /\ Hour \in Nat
  BY StartsAssumption DEF StartsTypeOK
<1>2. d.createdAt \in Nat /\ \A i \in DOMAIN rows : rows[i].createdAt \in Nat
  BY DEF StartsTypeOK, StartRows, Drafts
<1>3. IsFiniteSet(Window(w)) /\ Cardinality(Window(w)) \in Nat /\ Window(w) \subseteq DOMAIN rows
  BY WindowMembers
<1>4. n \notin DOMAIN rows /\ n \in DOMAIN rows' /\ \A i \in DOMAIN rows' : i \in DOMAIN rows \/ i = n
  BY <1>1
<1>5. d.createdAt \in (w - Hour)..(w - 1) <=> here
  BY <1>1, <1>2
<1>6. CASE ~ here
  <2>1. Window(w)' = Window(w)
    BY <1>1, <1>4, <1>5, <1>6 DEF Window
  <2> QED BY <1>3, <1>6, <2>1
<1>7. CASE here
  <2>1. Window(w)' = Window(w) \cup {n}
    BY <1>1, <1>4, <1>5, <1>7 DEF Window
  <2>2. n \notin Window(w)
    BY <1>3, <1>4
  <2>3. Cardinality(Window(w) \cup {n}) = Cardinality(Window(w)) + 1
    BY <1>3, <2>2, FS_AddElement
  <2> QED BY <1>3, <2>1, <2>3
<1> QED BY <1>6, <1>7

\* The latest record is in its own window, which holds as many as it counts.
LEMMA LatestIsBacked ==
  ASSUME StartsTypeOK, CountsAreBacked, NEW r \in Latest, rows # <<>>
  PROVE  /\ Opened(r)
         /\ r.count <= Cardinality(Window(r.resetAt))
<1>1. PICK i \in DOMAIN rows :
        r = rows[i] /\ \A k \in DOMAIN rows : rows[k].createdAt <= rows[i].createdAt
  BY LatestRecords
<1>2. Opened(r) /\ Backed(r, r.count)
  BY <1>1 DEF CountsAreBacked
<1>3. r.resetAt <= r.createdAt + Hour
  <2>1. PICK j \in DOMAIN rows : r.resetAt <= rows[j].createdAt + Hour
    BY <1>2 DEF Opened
  <2>2. rows[j].createdAt <= r.createdAt /\ rows[j] \in Drafts /\ r \in Drafts
    BY <1>1 DEF StartsTypeOK, StartRows
  <2> QED BY <2>1, <2>2, StartsAssumption DEF Drafts
<1> QED BY <1>2, <1>3 DEF Backed

\* What a start that has read a latest record creates is backed.
LEMMA DraftIsBacked ==
  ASSUME StartsTypeOK, CountsAreBacked, NEW r \in Latest,
         NEW now \in Nat \ {0}, NEW d, d = Drafted(now, r)
  PROVE  /\ d \in StartRows
         /\ d.resetAt <= d.createdAt + Hour \/ Opened(d)
         /\ Backed(d, d.count - 1)
<1>1. /\ Hour \in Nat /\ r.resetAt \in Nat /\ r.count \in Nat /\ r \in Drafts
      /\ rows = <<>> => r = NoStart
  BY StartsAssumption, LatestRecords DEF Drafts
<1>2. d \in StartRows /\ d.createdAt = now
  BY <1>1, DraftIsRow
<1>3. CASE now >= r.resetAt
  <2>1. d.resetAt = now + Hour /\ d.count = 1
    BY <1>3 DEF Drafted
  <2>2. Cardinality(Window(d.resetAt)) \in Nat
    BY <1>1, <2>1, WindowMembers
  <2> QED BY <1>1, <1>2, <2>1, <2>2 DEF Backed
<1>4. CASE ~ (now >= r.resetAt)
  <2>1. d.resetAt = r.resetAt /\ d.count = r.count + 1
    BY <1>4 DEF Drafted
  <2>2. rows # <<>>
    BY <1>1, <1>4 DEF NoStart
  <2>3. Opened(r) /\ r.count <= Cardinality(Window(r.resetAt))
    BY <2>2, LatestIsBacked
  <2> QED BY <1>1, <1>2, <2>1, <2>3 DEF Opened, Backed
<1> QED BY <1>3, <1>4

\* No step leaves a count without the records behind it.
LEMMA BackedStep ==
  ASSUME StartsTypeOK, CountsAreBacked, [StartsNext]_startVars
  PROVE  CountsAreBacked'
<1>1. /\ Hour \in Nat /\ DOMAIN rows = 1..Len(rows) /\ Len(rows) \in Nat /\ clock \in Nat
      /\ \A i \in DOMAIN rows : rows[i] \in StartRows /\ rows[i].createdAt \in Nat
                                /\ rows[i].resetAt \in Nat /\ rows[i].count \in Nat
      /\ \A t \in Starters : draft[t].createdAt \in Nat
  BY StartsAssumption DEF StartsTypeOK, StartRows, Drafts
\* With the records unchanged, only what a start holds is to be shown.
<1>2. ASSUME UNCHANGED rows, 0 < clock',
             \A t \in Starters : step'[t] # "idle" => 0 < draft'[t].createdAt,
             \A t \in Starters : step'[t] = "creating" =>
               /\ draft'[t] \in StartRows
               /\ draft'[t].resetAt <= draft'[t].createdAt + Hour \/ Opened(draft'[t])
               /\ Backed(draft'[t], draft'[t].count - 1)
      PROVE  CountsAreBacked'
  BY <1>2 DEF CountsAreBacked, Opened, Backed, Window
<1>3. ASSUME NEW s \in Starters, Enforce(s)
      PROVE  CountsAreBacked'
  <2>1. Advances(s) /\ step'[s] = "counting" /\ draft'[s].createdAt = clock
    BY <1>3, StartSteps
  <2> QED BY <1>2, <2>1 DEF Advances, CountsAreBacked
<1>4. ASSUME NEW s \in Starters, Count(s)
      PROVE  CountsAreBacked'
  <2>1. Advances(s) /\ step[s] = "counting"
    BY <1>4, StartSteps
  <2>2. PICK r \in Latest : draft'[s] = Drafted(draft[s].createdAt, r)
    BY <1>4, StartSteps
  <2>3. draft[s].createdAt \in Nat \ {0}
    BY <1>1, <2>1 DEF CountsAreBacked
  <2>4. /\ draft'[s] \in StartRows
        /\ draft'[s].resetAt <= draft'[s].createdAt + Hour \/ Opened(draft'[s])
        /\ Backed(draft'[s], draft'[s].count - 1)
    BY <2>2, <2>3, DraftIsBacked
  <2>5. 0 < draft'[s].createdAt
    BY <2>2, <2>3, LatestRecords, DraftIsRow
  <2> QED BY <1>2, <2>1, <2>4, <2>5 DEF Advances, CountsAreBacked
<1>5. ASSUME NEW s \in Starters, StartThrows(s)
      PROVE  CountsAreBacked'
  <2>1. Advances(s) /\ step'[s] = "idle"
    BY <1>5, StartSteps
  <2> QED BY <1>2, <2>1 DEF Advances, CountsAreBacked
<1>6. CASE Tick
  <2>1. UNCHANGED <<rows, step, draft>> /\ 0 < clock'
    BY <1>1, <1>6 DEF Tick, CountsAreBacked
  <2> QED BY <1>2, <2>1 DEF CountsAreBacked
<1>7. CASE UNCHANGED startVars
  <2>1. UNCHANGED <<rows, step, draft, clock>>
    BY <1>7 DEF startVars
  <2> QED BY <1>2, <2>1 DEF CountsAreBacked
<1>8. ASSUME NEW s \in Starters, CreateStart(s)
      PROVE  CountsAreBacked'
  <2>1. /\ step[s] = "creating" /\ step'[s] = "idle"
        /\ rows' = Append(rows, draft[s]) /\ UNCHANGED clock
        /\ \A t \in Starters \ {s} : step'[t] = step[t] /\ draft'[t] = draft[t]
    BY <1>8, StartSteps
  <2> DEFINE d == draft[s]
             n == Len(rows) + 1
  <2>2. /\ d \in StartRows /\ d.createdAt \in Nat /\ d.resetAt \in Nat /\ d.count \in Nat
        /\ d.resetAt <= d.createdAt + Hour \/ Opened(d)
        /\ d.createdAt < d.resetAt
        /\ Backed(d, d.count - 1)
    BY <2>1 DEF CountsAreBacked, StartRows, Drafts
  <2>3. /\ DOMAIN rows' = 1..n /\ rows'[n] = d /\ \A i \in DOMAIN rows : rows'[i] = rows[i]
        /\ \A i \in DOMAIN rows' : i \in DOMAIN rows \/ i = n
    BY <1>1, <2>1 DEF StartsTypeOK
  <2>4. \A w \in Nat :
          /\ Cardinality(Window(w)) \in Nat /\ Cardinality(Window(w)') \in Nat
          /\ Cardinality(Window(w)) <= Cardinality(Window(w)')
          /\ w <= d.createdAt + Hour /\ d.createdAt < w =>
               Cardinality(Window(w)) + 1 <= Cardinality(Window(w)')
    <3> SUFFICES ASSUME NEW w \in Nat
                 PROVE  /\ Cardinality(Window(w)) \in Nat /\ Cardinality(Window(w)') \in Nat
                        /\ Cardinality(Window(w)) <= Cardinality(Window(w)')
                        /\ w <= d.createdAt + Hour /\ d.createdAt < w =>
                             Cardinality(Window(w)) + 1 <= Cardinality(Window(w)')
      OBVIOUS
    <3>1. Cardinality(Window(w)) \in Nat
      BY WindowMembers
    <3>2. Cardinality(Window(w)') \in Nat
      <4>1. Window(w)' \subseteq 1..n
        BY <2>3 DEF Window
      <4>2. IsFiniteSet(1..n)
        BY <1>1, FS_Interval
      <4> QED BY <4>1, <4>2, FS_Subset, FS_CardinalityType
    <3> HIDE DEF d
    <3> QED BY <2>1, <2>2, <3>1, <3>2, WindowGrows DEF d
  <2>5. \A r \in StartRows : Opened(r) => Opened(r)'
    <3>1. DOMAIN rows \subseteq DOMAIN rows'
      BY <1>1, <2>3 DEF StartsTypeOK
    <3>2. ASSUME NEW r, NEW j \in DOMAIN rows, r.resetAt <= rows[j].createdAt + Hour
          PROVE  j \in DOMAIN rows' /\ r.resetAt <= rows'[j].createdAt + Hour
      BY <2>3, <3>1, <3>2
    <3> QED BY <3>2 DEF Opened
  <2>6. \A i \in DOMAIN rows' : Opened(rows[i])'
    <3> SUFFICES ASSUME NEW i \in DOMAIN rows' PROVE Opened(rows[i])'
      OBVIOUS
    <3>1. CASE i \in DOMAIN rows
      <4>1. PICK j \in DOMAIN rows : rows[i].resetAt <= rows[j].createdAt + Hour
        BY <3>1 DEF CountsAreBacked, Opened
      <4> QED BY <2>3, <3>1, <4>1, <1>1 DEF Opened
    <3>2. CASE i = n /\ d.resetAt <= d.createdAt + Hour
      BY <2>3, <3>2 DEF Opened
    <3>3. CASE i = n /\ Opened(d)
      <4>1. PICK j \in DOMAIN rows : d.resetAt <= rows[j].createdAt + Hour
        BY <3>3 DEF Opened
      <4> QED BY <2>3, <3>3, <4>1, <1>1 DEF Opened
    <3> QED BY <2>2, <2>3, <3>1, <3>2, <3>3
  <2>7. \A i \in DOMAIN rows' : Backed(rows[i], rows[i].count)'
    <3> SUFFICES ASSUME NEW i \in DOMAIN rows', NEW w, w = rows'[i].resetAt,
                        w <= rows'[i].createdAt + Hour
                 PROVE  rows'[i].count <= Cardinality(Window(w)')
      BY DEF Backed, Window
    <3>1. CASE i \in DOMAIN rows
      <4>1. w \in Nat /\ rows[i].count <= Cardinality(Window(w)) /\ rows'[i] = rows[i]
        BY <1>1, <2>3, <3>1 DEF CountsAreBacked, Backed
      <4>2. rows[i].count \in Nat /\ Cardinality(Window(w)) <= Cardinality(Window(w)')
            /\ Cardinality(Window(w)) \in Nat /\ Cardinality(Window(w)') \in Nat
        BY <1>1, <2>4, <3>1, <4>1
      <4> HIDE DEF d, n
      <4> QED BY <4>1, <4>2
    <3>2. CASE i = n
      <4>1. w \in Nat /\ d.count - 1 <= Cardinality(Window(w)) /\ rows'[i] = d /\ w = d.resetAt
        BY <2>2, <2>3, <3>2 DEF Backed
      <4> QED BY <2>2, <2>4, <4>1
    <3> QED BY <2>3, <3>1, <3>2
  <2>8. ASSUME NEW t \in Starters, step'[t] = "creating"
        PROVE  /\ draft'[t] \in StartRows
               /\ draft'[t].resetAt <= draft'[t].createdAt + Hour \/ Opened(draft[t])'
               /\ Backed(draft[t], draft[t].count - 1)'
    <3>1. step[t] = "creating" /\ draft'[t] = draft[t]
      BY <2>1, <2>8
    <3>2. /\ draft[t] \in StartRows
          /\ draft[t].resetAt <= draft[t].createdAt + Hour \/ Opened(draft[t])
          /\ Backed(draft[t], draft[t].count - 1)
      BY <3>1 DEF CountsAreBacked
    <3>3. draft'[t].resetAt <= draft'[t].createdAt + Hour \/ Opened(draft[t])'
      BY <2>3, <3>1, <3>2 DEF Opened
    <3>4. Backed(draft[t], draft[t].count - 1)'
      <4> SUFFICES ASSUME NEW w, w = draft[t].resetAt, w <= draft[t].createdAt + Hour
                   PROVE  draft[t].count - 1 <= Cardinality(Window(w)')
        BY <3>1 DEF Backed, Window
      <4>1. w \in Nat /\ draft[t].count \in Nat /\ draft[t].count - 1 <= Cardinality(Window(w))
        BY <3>2 DEF Backed, StartRows, Drafts
      <4> QED BY <2>4, <4>1
    <3> QED BY <3>1, <3>2, <3>3, <3>4
  <2>9. \A t \in Starters : step'[t] # "idle" => 0 < draft'[t].createdAt
    BY <2>1 DEF CountsAreBacked
  <2> QED BY <2>1, <2>6, <2>7, <2>8, <2>9 DEF CountsAreBacked
<1> QED
  BY <1>3, <1>4, <1>5, <1>6, <1>7, <1>8 DEF StartsNext

\* Of records that follow each other the last one is the latest, and no other.
LEMMA LatestIsLast ==
  ASSUME StartsTypeOK, NEW r \in Latest, rows # <<>>,
         \A i, j \in DOMAIN rows : i < j => Follows(rows[i], rows[j])
  PROVE  Len(rows) \in DOMAIN rows /\ r = rows[Len(rows)]
<1>1. /\ Len(rows) \in Nat \ {0} /\ DOMAIN rows = 1..Len(rows)
      /\ \A i \in DOMAIN rows : rows[i].createdAt \in Nat
  BY DEF StartsTypeOK, StartRows, Drafts
<1>2. PICK i \in DOMAIN rows :
        r = rows[i] /\ \A k \in DOMAIN rows : rows[k].createdAt <= rows[i].createdAt
  BY LatestRecords
<1>3. ~ (i < Len(rows))
  BY <1>1, <1>2 DEF Follows
<1> QED BY <1>1, <1>2, <1>3

\* The record of a start that was let through follows all the others, and its
\* count is within the limit.
LEMMA DraftFollows ==
  ASSUME StartsTypeOK, NEW r \in Latest, NEW now \in Nat, NEW d, d = Drafted(now, r),
         \A i, j \in DOMAIN rows : i < j => Follows(rows[i], rows[j]),
         \A i \in DOMAIN rows : rows[i].createdAt < now /\ OpenedBy(rows[i], i),
         r.resetAt <= now \/ r.count < MaxStarts
  PROVE  /\ \A i \in DOMAIN rows : Follows(rows[i], d)
         /\ d.count <= MaxStarts
         /\ OpenedBy(d, Len(rows))
<1>1. /\ Hour \in Nat /\ MaxStarts \in Nat \ {0} /\ r.resetAt \in Nat /\ r.count \in Nat
      /\ rows = <<>> => r = NoStart
      /\ Len(rows) \in Nat /\ DOMAIN rows = 1..Len(rows)
      /\ \A i \in DOMAIN rows : rows[i].createdAt \in Nat /\ rows[i].resetAt \in Nat
                                /\ rows[i].count \in Nat
  <2>1. r \in Drafts /\ (rows = <<>> => r = NoStart)
    BY LatestRecords
  <2>2. /\ Len(rows) \in Nat /\ DOMAIN rows = 1..Len(rows)
        /\ \A i \in DOMAIN rows : rows[i] \in Drafts
    BY DEF StartsTypeOK, StartRows
  <2> QED BY <2>1, <2>2, StartsAssumption DEF Drafts
<1>2. d.createdAt = now
  BY DEF Drafted
<1>3. rows # <<>> => Len(rows) \in DOMAIN rows /\ r = rows[Len(rows)]
  BY LatestIsLast
<1>4. \A i \in DOMAIN rows : \/ i = Len(rows)
                             \/ i < Len(rows) /\ Follows(rows[i], rows[Len(rows)])
  BY <1>1
<1>5. CASE now >= r.resetAt
  <2>1. d.resetAt = now + Hour /\ d.count = 1
    BY <1>5 DEF Drafted
  <2>2. d.count <= MaxStarts /\ OpenedBy(d, Len(rows))
    BY <1>1, <1>2, <2>1 DEF OpenedBy
  <2>3. ASSUME NEW i \in DOMAIN rows
        PROVE  Follows(rows[i], d)
    <3>1. r = rows[Len(rows)] /\ Len(rows) \in DOMAIN rows
      BY <1>3
    <3>2. rows[i].resetAt <= now
      BY <1>1, <1>4, <1>5, <3>1 DEF Follows
    <3> QED BY <1>2, <3>2 DEF Follows
  <2> QED BY <2>2, <2>3
<1>6. CASE ~ (now >= r.resetAt)
  <2>1. d.resetAt = r.resetAt /\ d.count = r.count + 1
    BY <1>6 DEF Drafted
  <2>2. rows # <<>> /\ r = rows[Len(rows)] /\ Len(rows) \in DOMAIN rows
    BY <1>1, <1>3, <1>6 DEF NoStart
  <2>3. d.count <= MaxStarts
    BY <1>1, <1>6, <2>1
  <2>4. OpenedBy(d, Len(rows))
    BY <1>1, <2>1, <2>2 DEF OpenedBy
  <2>5. ASSUME NEW i \in DOMAIN rows
        PROVE  Follows(rows[i], d)
    <3>1. \/ i = Len(rows)
          \/ /\ rows[i].resetAt = r.resetAt /\ rows[i].count < r.count
          \/ rows[i].resetAt <= r.createdAt
      BY <1>4, <2>2 DEF Follows
    <3> QED BY <1>1, <1>2, <2>1, <2>2, <3>1 DEF Follows
  <2> QED BY <2>3, <2>4, <2>5
<1> QED BY <1>5, <1>6

\* Starts that do not overlap follow each other after every step.
LEMMA SerialStartsStep ==
  ASSUME StartsTypeOK, CountsAreBacked, SerialStarts, [StartsNext]_startVars
  PROVE  SerialStarts'
<1>1. /\ DOMAIN rows = 1..Len(rows) /\ Len(rows) \in Nat /\ clock \in Nat
      /\ \A i \in DOMAIN rows : rows[i] \in StartRows /\ rows[i].createdAt \in Nat
      /\ \A t \in Starters : draft[t] \in Drafts /\ draft[t].createdAt \in Nat
  BY DEF StartsTypeOK, StartRows, Drafts
<1>2. UNCHANGED startsOverlap
  BY DEF StartsNext, startVars, Enforce, Count, CreateStart, StartThrows, Tick
<1>3. CASE startsOverlap
  BY <1>2, <1>3 DEF SerialStarts
<1>4. CASE ~ startsOverlap
  <2>1. /\ \A s, t \in Starters : step[s] # "idle" /\ step[t] # "idle" => s = t
        /\ \A i, j \in DOMAIN rows : i < j => Follows(rows[i], rows[j])
        /\ \A i \in DOMAIN rows : rows[i].count <= MaxStarts /\ OpenedBy(rows[i], i)
    BY <1>4 DEF SerialStarts
  <2>2. \A s \in Starters :
          /\ step[s] # "idle" =>
               \A i \in DOMAIN rows : rows[i].createdAt < draft[s].createdAt
          /\ step[s] = "counting" =>
               \A r \in Latest :
                 r.resetAt <= draft[s].createdAt \/ r.count < MaxStarts
          /\ step[s] = "creating" =>
               /\ \A i \in DOMAIN rows : Follows(rows[i], draft[s])
               /\ draft[s].count <= MaxStarts
               /\ OpenedBy(draft[s], Len(rows))
    BY <1>4 DEF SerialStarts
\* With the records unchanged, only the one start under way is to be shown.
  <2>3. ASSUME UNCHANGED rows,
               \A s, t \in Starters : step'[s] # "idle" /\ step'[t] # "idle" => s = t,
               \A s \in Starters :
                 /\ step'[s] # "idle" =>
                      \A i \in DOMAIN rows : rows[i].createdAt < draft'[s].createdAt
                 /\ step'[s] = "counting" =>
                      \A r \in Latest :
                        r.resetAt <= draft'[s].createdAt \/ r.count < MaxStarts
                 /\ step'[s] = "creating" =>
                      /\ \A i \in DOMAIN rows : Follows(rows[i], draft'[s])
                      /\ draft'[s].count <= MaxStarts
                      /\ OpenedBy(draft'[s], Len(rows))
        PROVE  SerialStarts'
    BY <2>1, <2>3 DEF SerialStarts, Latest, Follows, OpenedBy
  <2>4. ASSUME NEW s \in Starters, Enforce(s)
        PROVE  SerialStarts'
    <3>1. Advances(s) /\ step'[s] = "counting" /\ draft'[s].createdAt = clock
      BY <2>4, StartSteps
    <3>2. /\ \A t \in Starters : step[t] = "idle"
          /\ \A i \in DOMAIN rows : rows[i].createdAt < clock
      BY <1>4, <2>4 DEF Enforce, MayBegin
    <3>3. ASSUME NEW r \in Latest
          PROVE  r.resetAt <= clock \/ r.count < MaxStarts
      <4>1. PICK q \in Latest : ~ Limited(q)
        BY <2>4 DEF Enforce
      <4>2. r = q /\ r \in Drafts
        BY <2>1, LatestIsLast, LatestRecords
      <4> QED BY <1>1, <4>1, <4>2, StartsAssumption DEF Limited, Drafts
    <3> QED BY <2>3, <3>1, <3>2, <3>3 DEF Advances
  <2>5. ASSUME NEW s \in Starters, Count(s)
        PROVE  SerialStarts'
    <3>1. Advances(s) /\ step[s] = "counting" /\ step'[s] = "creating"
      BY <2>5, StartSteps
    <3>2. PICK r \in Latest : draft'[s] = Drafted(draft[s].createdAt, r)
      BY <2>5, StartSteps
    <3>3. /\ \A i \in DOMAIN rows : rows[i].createdAt < draft[s].createdAt
          /\ r.resetAt <= draft[s].createdAt \/ r.count < MaxStarts
      BY <2>2, <3>1
    <3>4. /\ \A i \in DOMAIN rows : Follows(rows[i], draft'[s])
          /\ draft'[s].count <= MaxStarts
          /\ OpenedBy(draft'[s], Len(rows))
      BY <1>1, <2>1, <3>2, <3>3, DraftFollows
    <3>5. draft'[s].createdAt = draft[s].createdAt
      BY <3>2 DEF Drafted
    <3> QED BY <2>1, <2>3, <3>1, <3>3, <3>4, <3>5 DEF Advances
  <2>6. ASSUME NEW s \in Starters, StartThrows(s)
        PROVE  SerialStarts'
    <3>1. Advances(s) /\ step[s] # "idle" /\ step'[s] = "idle"
      BY <2>6, StartSteps
    <3> QED BY <2>1, <2>2, <2>3, <3>1 DEF Advances
  <2>7. CASE Tick \/ UNCHANGED startVars
    <3>1. UNCHANGED <<rows, step, draft>>
      BY <2>7 DEF Tick, startVars
    <3> QED BY <2>1, <2>2, <2>3, <3>1
  <2>8. ASSUME NEW s \in Starters, CreateStart(s)
        PROVE  SerialStarts'
    <3>1. /\ step[s] = "creating" /\ step'[s] = "idle"
          /\ rows' = Append(rows, draft[s])
          /\ \A t \in Starters \ {s} : step'[t] = step[t]
      BY <2>8, StartSteps
    <3> DEFINE n == Len(rows) + 1
    <3>2. /\ DOMAIN rows' = 1..n /\ rows'[n] = draft[s]
          /\ \A i \in DOMAIN rows : rows'[i] = rows[i]
          /\ \A i \in DOMAIN rows' : i \in DOMAIN rows \/ i = n
          /\ \A i \in DOMAIN rows : i \in Nat /\ i < n
      BY <1>1, <3>1 DEF StartsTypeOK
    <3>3. /\ \A i \in DOMAIN rows : Follows(rows[i], draft[s])
          /\ draft[s].count <= MaxStarts
          /\ OpenedBy(draft[s], Len(rows))
      BY <2>2, <3>1
    <3>4. \A t \in Starters : step'[t] = "idle"
      BY <2>1, <3>1
    <3>5. \A i, j \in DOMAIN rows' : i < j => Follows(rows'[i], rows'[j])
      <4> SUFFICES ASSUME NEW i \in DOMAIN rows', NEW j \in DOMAIN rows', i < j
                   PROVE  Follows(rows'[i], rows'[j])
        OBVIOUS
      <4>1. i \in DOMAIN rows
        BY <1>1, <3>2
      <4>2. CASE j \in DOMAIN rows
        BY <2>1, <3>2, <4>1, <4>2
      <4>3. CASE j = n
        BY <3>2, <3>3, <4>1, <4>3
      <4> QED BY <3>2, <4>2, <4>3
    <3>6. \A i \in DOMAIN rows' : rows'[i].count <= MaxStarts /\ OpenedBy(rows[i], i)'
      <4> SUFFICES ASSUME NEW i \in DOMAIN rows'
                   PROVE  rows'[i].count <= MaxStarts /\ OpenedBy(rows[i], i)'
        OBVIOUS
      <4>1. CASE i \in DOMAIN rows
        <5>1. rows[i].count <= MaxStarts /\ OpenedBy(rows[i], i) /\ 1..i \subseteq DOMAIN rows
          BY <1>1, <2>1, <4>1
        <5> QED BY <3>2, <4>1, <5>1 DEF OpenedBy
      <4>2. CASE i = n
        <5>1. 1..Len(rows) \subseteq 1..n /\ 1..Len(rows) = DOMAIN rows
          BY <1>1
        <5> QED BY <3>2, <3>3, <4>2, <5>1 DEF OpenedBy
      <4> QED BY <3>2, <4>1, <4>2
    <3> QED BY <3>4, <3>5, <3>6 DEF SerialStarts, Follows
  <2> QED BY <2>4, <2>5, <2>6, <2>7, <2>8 DEF StartsNext
<1> QED BY <1>3, <1>4

\* No record and no start.
LEMMA StartsInitial == StartsInit => StartsInv
<1> SUFFICES ASSUME StartsInit PROVE StartsInv
  OBVIOUS
<1>1. NoStart \in Drafts /\ rows \in Seq(StartRows) /\ DOMAIN rows = {}
  BY DEF StartsInit, NoStart, Drafts
<1>2. StartsTypeOK
  BY <1>1 DEF StartsInit, StartsTypeOK
<1>3. CountsAreBacked /\ SerialStarts
  BY <1>1 DEF StartsInit, CountsAreBacked, SerialStarts
<1> QED BY <1>2, <1>3 DEF StartsInv

\* Records that follow each other and share a window number it: the limit
\* bounds how many there are.
LEMMA SerialWindow ==
  ASSUME StartsInv, ~ startsOverlap
  PROVE  StartsAreLimited
<1> SUFFICES ASSUME NEW i \in DOMAIN rows, NEW w, w = rows[i].resetAt
             PROVE  Cardinality(Window(w)) <= MaxStarts
  BY DEF StartsAreLimited
<1>1. /\ DOMAIN rows = 1..Len(rows) /\ Len(rows) \in Nat /\ Hour \in Nat /\ MaxStarts \in Nat
      /\ \A j \in DOMAIN rows : /\ rows[j].createdAt \in Nat /\ rows[j].resetAt \in Nat
                                /\ rows[j].count \in Nat /\ 1 <= rows[j].count
                                /\ rows[j].createdAt < rows[j].resetAt
  BY StartsAssumption DEF StartsInv, StartsTypeOK, StartRows, Drafts
<1>2. /\ \A j, k \in DOMAIN rows : j < k => Follows(rows[j], rows[k])
      /\ \A j \in DOMAIN rows : rows[j].count <= MaxStarts /\ OpenedBy(rows[j], j)
  BY DEF StartsInv, SerialStarts
<1>3. PICK f \in DOMAIN rows : /\ f <= i /\ rows[f].resetAt = w
                               /\ w = rows[f].createdAt + Hour
  BY <1>1, <1>2 DEF OpenedBy
<1>4. /\ w \in Nat /\ Window(w) \subseteq DOMAIN rows
      /\ \A j \in Window(w) : w <= rows[j].createdAt + Hour /\ rows[j].createdAt < w
  BY <1>1, WindowMembers DEF StartsInv
\* Whatever is in the window has the window.
<1>5. ASSUME NEW j \in Window(w)
      PROVE  rows[j].resetAt = w
  <2>1. j \in DOMAIN rows /\ w <= rows[j].createdAt + Hour /\ rows[j].createdAt < w
    BY <1>4
  <2>2. CASE j < f
    BY <1>1, <1>2, <1>3, <2>1, <2>2 DEF Follows
  <2>3. CASE j = f \/ j = i
    BY <1>3, <2>3
  <2>4. CASE f < j
    <3>1. rows[f].resetAt = rows[j].resetAt \/ rows[f].resetAt <= rows[j].createdAt
      BY <1>2, <2>1, <2>4 DEF Follows
    <3>2. /\ rows[f].resetAt = w /\ w \in Nat
          /\ rows[j].createdAt < w /\ rows[j].createdAt \in Nat
      BY <1>1, <1>3, <1>4, <2>1
    <3> QED BY ONLY <3>1, <3>2
  <2> QED BY <1>1, <2>1, <2>2, <2>3, <2>4
\* So its records are numbered by their counts.
<1> DEFINE number == [j \in Window(w) |-> rows[j].count]
<1>6. \A j, k \in Window(w) : j < k => number[j] < number[k]
  <2> SUFFICES ASSUME NEW j \in Window(w), NEW k \in Window(w), j < k
               PROVE  rows[j].count < rows[k].count
    OBVIOUS
  <2>1. j \in DOMAIN rows /\ k \in DOMAIN rows /\ rows[j].resetAt = w /\ rows[k].createdAt < w
    BY <1>4, <1>5
  <2> QED BY <1>1, <1>2, <1>4, <2>1 DEF Follows
<1>7. number \in [Window(w) -> 1..MaxStarts]
  BY <1>1, <1>2, <1>4
<1>8. \A j, k \in Window(w) : number[j] = number[k] => j = k
  <2> SUFFICES ASSUME NEW j \in Window(w), NEW k \in Window(w), j # k
               PROVE  number[j] # number[k]
    OBVIOUS
  <2>1. j \in Nat /\ k \in Nat /\ number[j] \in Nat /\ number[k] \in Nat
    BY <1>1, <1>4
  <2> HIDE DEF number
  <2> QED BY <1>6, <2>1
<1>9. number \in Injection(Window(w), 1..MaxStarts)
  BY <1>7, <1>8 DEF Injection, IsInjective
<1>10. IsFiniteSet(1..MaxStarts) /\ Cardinality(1..MaxStarts) = MaxStarts
  <2>1. 1 \in Int /\ MaxStarts \in Int /\ ~ (1 > MaxStarts)
    BY StartsAssumption
  <2>2. /\ IsFiniteSet(1..MaxStarts)
        /\ Cardinality(1..MaxStarts) = IF 1 > MaxStarts THEN 0 ELSE MaxStarts - 1 + 1
    BY <2>1, FS_Interval
  <2> QED BY <1>1, <2>1, <2>2
<1>11. Cardinality(Window(w)) <= Cardinality(1..MaxStarts)
  <2> HIDE DEF number
  <2> QED BY <1>9, <1>10, FS_Injection
<1> QED BY <1>10, <1>11

\* Starts keep their types, a count is backed by records, and starts that do
\* not overlap follow each other.
THEOREM StartsInvariance == StartsSpec => []StartsInv
<1>1. StartsInv /\ [StartsNext]_startVars => StartsInv'
  BY StartsTypesStep, BackedStep, SerialStartsStep DEF StartsInv
<1> QED
  BY StartsInitial, <1>1, PTL DEF StartsSpec

\* The clock, the records and the starts under way keep their types.
THEOREM StartsTypeCorrect == StartsSpec => []StartsTypeOK
<1>1. StartsInv => StartsTypeOK
  BY DEF StartsInv
<1> QED
  BY StartsInvariance, <1>1, PTL

\* Starts that do not overlap keep to the limit in every window.
THEOREM LimitCorrect == StartsSpec => []SerialStartsAreLimited
<1>1. StartsInv => SerialStartsAreLimited
  BY SerialWindow DEF SerialStartsAreLimited
<1> QED
  BY StartsInvariance, <1>1, PTL

\* A start is refused only in a window that is full.
THEOREM RefusalsCorrect == StartsSpec => []RefusalsAreJustified
<1>1. ASSUME StartsInv
      PROVE  RefusalsAreJustified
  <2> SUFFICES ASSUME NEW r \in Latest, Limited(r)
               PROVE  Cardinality(Window(r.resetAt)) >= MaxStarts
    BY DEF RefusalsAreJustified
  <2>1. clock < r.resetAt /\ r.count >= MaxStarts
    BY DEF Limited
  <2>2. /\ clock \in Nat /\ r \in Drafts /\ r.resetAt \in Nat /\ r.count \in Nat
        /\ rows = <<>> => r = NoStart
    BY <1>1, LatestRecords DEF StartsInv, StartsTypeOK, Drafts
  <2>3. rows # <<>>
    BY <2>2, <2>1 DEF NoStart
  <2>4. r.count <= Cardinality(Window(r.resetAt))
    BY <1>1, <2>3, LatestIsBacked DEF StartsInv
  <2>5. Cardinality(Window(r.resetAt)) \in Nat /\ r.count \in Nat /\ MaxStarts \in Nat
    BY <1>1, <2>2, WindowMembers, StartsAssumption DEF StartsInv
  <2> QED BY <2>4, <2>5, <2>1
<1> QED
  BY StartsInvariance, <1>1, PTL
=============================================================================
