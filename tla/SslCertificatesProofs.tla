------------------------ MODULE SslCertificatesProofs ------------------------
(***************************************************************************)
(* Safety of one certificate row, for any number of calls, monitor cycles, *)
(* certificate packs and failures.                                         *)
(***************************************************************************)
EXTENDS SslCertificates, TLAPS

Issued(p) == packs[p] \in {"active", "expired", "gone"}

\* Without overlap one task is at work.
OneAtATime ==
  ~ overlap => \A t, u \in Tasks :
                 phase[t] # "idle" /\ phase[u] # "idle" => t = u

\* The packs that the row and the tasks know of.
PackInv ==
  /\ row.provider = "cloudflare" => row.pack \in Packs
  /\ row.pack \in Packs => packs[row.pack] # "none"
  /\ \A t \in Tasks :
       /\ held[t].pack \in Packs => packs[held[t].pack] # "none"
       /\ phase[t] = "renewing" => held[t].pack \in Packs
       /\ phase[t] = "saving" /\ held[t].provider = "cloudflare" =>
            /\ held[t].pack \in Packs
            /\ held[t].status = "active" => Issued(held[t].pack)

\* What a task has read is still so.
HeldOf(t) ==
  /\ phase[t] \in {"asking", "counting"} =>
       /\ held[t].provider = row.provider /\ held[t].pack = row.pack
       /\ held[t].status = row.status /\ held[t].attempts = row.attempts
  /\ phase[t] = "refreshing" /\ row.provider = "cloudflare"
       /\ held[t].status = "active" => Issued(row.pack)
  /\ phase[t] = "reissuing" => row.provider # "cloudflare"

HeldInv == ~ overlap => \A t \in Tasks : HeldOf(t)

CountInv ==
  /\ RenewalsAreCounted
  /\ faults <= MaxFaults
  /\ \A t \in Tasks : held[t].attempts <= renewals

IInv ==
  /\ TypeOK
  /\ OneAtATime
  /\ PackInv
  /\ HeldInv
  /\ ActiveWasIssued
  /\ CountInv

-----------------------------------------------------------------------------
LEMMA NoRowIsRow ==
  /\ NoRow \in Rows /\ NoRow.attempts = 0 /\ NoRow.pack = NoPack
  /\ NoRow.provider = "none"
BY DEF NoRow, Rows

LEMMA DraftsAreRows ==
  /\ LetsEncryptDraft \in Rows
  /\ \A p \in Packs : \A s \in {"active", "pending"} :
       CloudflareDraft(p, s) \in Rows
BY DEF LetsEncryptDraft, CloudflareDraft, Rows

LEMMA InitInv == Init => IInv
<1> SUFFICES ASSUME Init PROVE IInv
  OBVIOUS
<1>1. TypeOK
  BY NoRowIsRow, SslAssumption DEF Init, TypeOK, Phases, PackStatuses
<1>2. OneAtATime /\ HeldInv /\ ActiveWasIssued
  BY NoRowIsRow DEF Init, OneAtATime, HeldInv, HeldOf, ActiveWasIssued
<1>3. PackInv
  BY NoRowIsRow, SslAssumption DEF Init, PackInv
<1>4. CountInv
  BY NoRowIsRow, SslAssumption DEF Init, CountInv, RenewalsAreCounted
<1> QED BY <1>1, <1>2, <1>3, <1>4 DEF IInv

-----------------------------------------------------------------------------
(***************************************************************************)
(* Types.                                                                  *)
(***************************************************************************)
LEMMA ShownIsRow ==
  ASSUME TypeOK, NEW r \in Rows, NEW p \in Listed, NEW s \in Shown(r, p)
  PROVE  /\ s \in Rows /\ s.pack = r.pack /\ s.attempts = r.attempts
         /\ s.status = "active" => r.status = "active" \/ packs[p] = "active"
<1>1. packs[p] \in {"initializing", "active", "expired"}
  BY DEF TypeOK, PackStatuses, Listed
<1>2. CASE packs[p] = "initializing"
  <2>1. PICK x \in {r.status, "pending"} :
               s = [r EXCEPT !.expires = "none", !.status = x]
    BY <1>2 DEF Shown
  <2> QED BY <2>1 DEF Rows
<1>3. CASE packs[p] # "initializing"
  <2>1. s = [r EXCEPT !.expires = IF packs[p] = "active" THEN "ahead" ELSE "past",
                      !.status = packs[p]]
    BY <1>3 DEF Shown
  <2> QED BY <1>1, <1>3, <2>1 DEF Rows
<1> QED BY <1>2, <1>3

LEMMA CallType ==
  ASSUME TypeOK, NEW c \in Callers, NEW to \in Phases, NEW r \in Rows,
         Call(c, to, r)
  PROVE  TypeOK'
<1>1. calls' \in Nat
  BY DEF TypeOK, Call
<1>2. c \in Tasks
  BY DEF Tasks
<1> QED
  BY <1>1, <1>2 DEF TypeOK, Call, Goto, Hold

LEMMA UpdateType ==
  ASSUME TypeOK, NEW t \in Tasks, NEW from \in Phases, NEW r \in Rows,
         NEW to \in Phases, Update(t, from, r, to), renewals' \in Nat
  PROVE  TypeOK'
<1>1. Caught(from) \in Phases
  BY DEF Caught, Phases
<1> QED
  BY <1>1, NoRowIsRow DEF TypeOK, Update, Goto, Hold, Throws

LEMMA TypeStep == TypeOK /\ [Next]_vars => TypeOK'
<1> SUFFICES ASSUME TypeOK, [Next]_vars PROVE TypeOK'
  OBVIOUS
<1> USE NoRowIsRow, DraftsAreRows
<1>1. CASE \E c \in Callers : Provision(c) \/ CallCheck(c) \/ Renew(c)
  <2> PICK c \in Callers : Provision(c) \/ CallCheck(c) \/ Renew(c)
    BY <1>1
  <2>1. "listing" \in Phases /\ "saving" \in Phases /\ "reading" \in Phases
        /\ "counting" \in Phases
    BY DEF Phases
  <2>2. row \in Rows
    BY DEF TypeOK
  <2> QED BY <2>1, <2>2, CallType DEF Provision, CallCheck, Renew
<1>2. ASSUME NEW t \in Tasks, CheckRead(t) \/ AskCloudflare(t) PROVE TypeOK'
  <2>1. CASE CheckRead(t)
    BY <2>1 DEF TypeOK, CheckRead, Local, Goto, Hold, Over, Throws, Phases
  <2>2. CASE AskCloudflare(t)
    <3>1. \A p \in Looked(held[t].pack) : \A r \in Shown(held[t], p) : r \in Rows
      BY ShownIsRow DEF TypeOK, Looked
    <3>2. [held[t] EXCEPT !.expires = "none"] \in Rows
      BY DEF TypeOK, Rows
    <3> QED
      BY <2>2, <3>1, <3>2
         DEF TypeOK, AskCloudflare, Local, Goto, Hold, Throws, Phases
  <2> QED BY <1>2, <2>1, <2>2
<1>3. ASSUME NEW t \in Tasks,
             Refresh(t) \/ Touch(t) \/ Save(t) \/ Count(t) \/ SavePack(t)
               \/ SaveTouch(t) \/ Reissue(t) \/ SaveError(t)
      PROVE TypeOK'
  <2>1. /\ held[t] \in Rows /\ row \in Rows
        /\ row.attempts \in Nat /\ held[t].attempts \in Nat
        /\ held[t].pack \in Packs \cup {NoPack}
    BY DEF TypeOK, Rows
  <2>2. renewals' \in Nat
    BY <1>3 DEF TypeOK, Refresh, Touch, Save, Count, SavePack, SaveTouch,
                Reissue, SaveError
  <2>3. CASE Refresh(t)
    <3>1. [row EXCEPT !.status = held[t].status, !.recent = TRUE,
                      !.expires = IF held[t].expires = "none" THEN @
                                  ELSE held[t].expires] \in Rows
      <4>1. /\ held[t].expires \in {"none", "ahead", "past"}
            /\ held[t].status \in {"pending", "active", "expired", "error"}
        BY <2>1 DEF Rows
      <4>2. CASE held[t].expires = "none"
        BY ZenonT(30), <2>1, <4>1, <4>2 DEF Rows
      <4>3. CASE held[t].expires # "none"
        BY ZenonT(30), <2>1, <4>1, <4>3 DEF Rows
      <4> QED BY <4>2, <4>3
    <3> QED BY <2>2, <2>3, <3>1, UpdateType DEF Refresh, Phases
  <2>4. CASE Touch(t) \/ SaveTouch(t)
    <3>1. [row EXCEPT !.recent = TRUE] \in Rows
      BY <2>1 DEF Rows
    <3> QED BY <2>2, <2>4, <3>1, UpdateType DEF Touch, SaveTouch, Phases
  <2>5. CASE Save(t)
    <3>1. [held[t] EXCEPT !.attempts = row.attempts] \in Rows
      BY <2>1 DEF Rows
    <3> QED BY <2>2, <2>5, <3>1, UpdateType DEF Save, Phases
  <2>6. CASE Count(t)
    <3>1. [row EXCEPT !.attempts = held[t].attempts + 1] \in Rows
      BY <2>1 DEF Rows
    <3> QED BY <2>2, <2>6, <3>1, UpdateType DEF Count, Phases
  <2>7. CASE SavePack(t)
    <3>1. [row EXCEPT !.status = "pending", !.pack = held[t].pack,
                      !.recent = TRUE] \in Rows
      BY <2>1 DEF Rows
    <3> QED BY <2>2, <2>7, <3>1, UpdateType DEF SavePack, Phases
  <2>8. CASE Reissue(t)
    <3>1. [row EXCEPT !.status = "active", !.expires = "ahead",
                      !.recent = TRUE] \in Rows
      BY <2>1 DEF Rows
    <3> QED BY <2>2, <2>8, <3>1, UpdateType DEF Reissue, Phases
  <2>9. CASE SaveError(t)
    <3>1. [row EXCEPT !.status = "error"] \in Rows
      BY <2>1 DEF Rows
    <3> QED BY <2>2, <2>9, <3>1, UpdateType DEF SaveError, Phases
  <2> QED BY <1>3, <2>3, <2>4, <2>5, <2>6, <2>7, <2>8, <2>9
<1>4. ASSUME NEW c \in Callers, ListPacks(c) PROVE TypeOK'
  <2>1. /\ \A p \in Packs : CloudflareDraft(p, IF packs[p] = "active"
                                     THEN "active" ELSE "pending") \in Rows
        /\ c \in Tasks
    BY DEF Tasks
  <2> QED
    BY <1>4, <2>1 DEF TypeOK, ListPacks, FallBack, Local, Goto, Hold, Throws,
                      Phases
<1>5. ASSUME NEW c \in Callers, OrderPack(c) PROVE TypeOK'
  BY <1>5 DEF TypeOK, OrderPack, Ordered, FallBack, Local, Goto, Hold, Throws,
              Phases, PackStatuses, Tasks
<1>6. ASSUME NEW c \in Callers, Reorder(c) PROVE TypeOK'
  <2>1. \A p \in Packs : [NoRow EXCEPT !.pack = p] \in Rows
    BY DEF Rows
  <2> QED
    BY <1>6, <2>1 DEF TypeOK, Reorder, Ordered, Local, Goto, Hold, Throws,
                      Phases, PackStatuses, Tasks
<1>7. ASSUME NEW c \in Callers, CallReRead(c) PROVE TypeOK'
  BY <1>7 DEF TypeOK, CallReRead, Over, Local, Goto, Hold, Phases, Tasks
<1>8. ASSUME NEW m \in Cycles, Cycle(m) \/ StartMonitoring(m) \/ Report(m)
      PROVE TypeOK'
  <2>1. calls' \in Nat /\ faults' \in Nat /\ m \in Tasks
    BY <1>8 DEF TypeOK, Cycle, StartMonitoring, Begun, Report, Throws, Tasks
  <2>2. timer' \in BOOLEAN /\ reported' \in BOOLEAN /\ late' \subseteq Cycles
    BY <1>8 DEF TypeOK, Cycle, StartMonitoring, Begun, Report
  <2>3. phase' \in [Tasks -> Phases] /\ held' \in [Tasks -> Rows]
    BY <1>8, <2>1 DEF TypeOK, Cycle, StartMonitoring, Begun, Report, Over, Goto,
                      Hold, Phases
  <2> QED
    BY <1>8, <2>1, <2>2, <2>3
       DEF TypeOK, Cycle, StartMonitoring, Begun, Report
<1>9. CASE StopMonitoring
  <2>1. calls' \in Nat
    BY <1>9 DEF TypeOK, StopMonitoring
  <2> QED BY <1>9, <2>1 DEF TypeOK, StopMonitoring
<1>10. CASE PackChanges
  BY <1>10 DEF TypeOK, PackChanges, PackMoves, InFlight, PackStatuses
<1>11. CASE RowExpires \/ Ages
  BY ZenonT(30), <1>11 DEF TypeOK, RowExpires, Ages, InFlight, Rows
<1>12. CASE UNCHANGED vars
  BY <1>12 DEF TypeOK, vars
<1> QED
  BY <1>1, <1>2, <1>3, <1>4, <1>5, <1>6, <1>7, <1>8, <1>9, <1>10, <1>11, <1>12
     DEF Next, Host, Checks, Works, Tasks

-----------------------------------------------------------------------------
(***************************************************************************)
(* One at a time.                                                          *)
(***************************************************************************)
LEMMA SoloWork ==
  ASSUME TypeOK, OneAtATime, NEW t \in Tasks, phase[t] # "idle", NEW to,
         Goto(t, to), overlap' = overlap
  PROVE  OneAtATime'
BY DEF TypeOK, OneAtATime, Goto

LEMMA SoloBegin ==
  ASSUME TypeOK, MayBegin, NEW t \in Tasks, NEW to, Goto(t, to),
         overlap' = overlap
  PROVE  OneAtATime'
BY DEF TypeOK, OneAtATime, MayBegin, Goto

LEMMA SoloStep == TypeOK /\ OneAtATime /\ [Next]_vars => OneAtATime'
<1> SUFFICES ASSUME TypeOK, OneAtATime, [Next]_vars PROVE OneAtATime'
  OBVIOUS
<1>1. ASSUME NEW c \in Callers, Provision(c) \/ CallCheck(c) \/ Renew(c)
      PROVE OneAtATime'
  BY <1>1, SoloBegin DEF Provision, CallCheck, Renew, Call, Tasks
<1>2. ASSUME NEW t \in Tasks, Checks(t) PROVE OneAtATime'
  <2>1. phase[t] # "idle" /\ overlap' = overlap /\ \E to : Goto(t, to)
    BY <1>2 DEF Checks, CheckRead, AskCloudflare, Refresh, Touch, Update, Over,
                Local
  <2> QED BY <2>1, SoloWork
<1>3. ASSUME NEW c \in Callers, Works(c) PROVE OneAtATime'
  <2>1. phase[c] # "idle" /\ overlap' = overlap /\ \E to : Goto(c, to)
    BY <1>3 DEF Works, ListPacks, OrderPack, Save, CallReRead, Count, Reorder,
                SavePack, SaveTouch, Reissue, SaveError, Update, Ordered,
                FallBack, Over, Local
  <2> QED BY <2>1, SoloWork DEF Tasks
<1>4. ASSUME NEW m \in Cycles, Cycle(m) \/ StartMonitoring(m)
      PROVE OneAtATime'
  <2>1. Begun(m)
    BY <1>4 DEF Cycle, StartMonitoring
  <2>2. CASE Goto(m, "reading")
    BY <2>1, <2>2, SoloBegin DEF Begun, Tasks
  <2>3. CASE UNCHANGED phase
    BY <2>1, <2>3 DEF Begun, OneAtATime
  <2> QED BY <2>1, <2>2, <2>3 DEF Begun
<1>5. ASSUME NEW m \in Cycles, Report(m) PROVE OneAtATime'
  BY <1>5, SoloWork DEF Report, Over, Tasks
<1>6. CASE StopMonitoring \/ PackChanges \/ RowExpires \/ Ages
             \/ UNCHANGED vars
  BY <1>6 DEF OneAtATime, StopMonitoring, PackChanges, PackMoves, RowExpires,
              Ages, vars
<1> QED
  BY <1>1, <1>2, <1>3, <1>4, <1>5, <1>6 DEF Next, Host

-----------------------------------------------------------------------------
(***************************************************************************)
(* Packs.                                                                  *)
(***************************************************************************)
\* A pack never becomes unknown again, nor one that was issued not issued.
LEMMA PacksGrow ==
  ASSUME TypeOK, [Next]_vars, NEW p \in Packs
  PROVE  /\ packs[p] # "none" => packs'[p] # "none"
         /\ Issued(p) => Issued(p)'
<1>1. CASE UNCHANGED packs
  BY <1>1 DEF Issued
<1>2. ASSUME NEW c \in Callers, OrderPack(c) \/ Reorder(c)
      PROVE  /\ packs[p] # "none" => packs'[p] # "none"
             /\ Issued(p) => Issued(p)'
  <2>1. \/ UNCHANGED packs
        \/ \E q \in Packs : /\ packs[q] = "none"
                            /\ packs' = [packs EXCEPT ![q] = "initializing"]
    BY <1>2 DEF OrderPack, Reorder, Ordered
  <2> QED BY <2>1, <1>1 DEF TypeOK, Issued
<1>3. CASE PackChanges
  BY <1>3 DEF TypeOK, PackChanges, PackMoves, Issued
<1>4. \/ UNCHANGED packs \/ PackChanges
      \/ \E c \in Callers : OrderPack(c) \/ Reorder(c)
  BY DEF Next, Host, Provision, CallCheck, Renew, Call, StartMonitoring, Begun,
         StopMonitoring, Checks, CheckRead, AskCloudflare, Refresh, Touch,
         Update, Works, ListPacks, Save, CallReRead, Count, SavePack, SaveTouch,
         Reissue, SaveError, Cycle, Report, RowExpires, Ages, vars
<1> QED BY <1>1, <1>2, <1>3, <1>4

LEMMA PackStep == TypeOK /\ PackInv /\ [Next]_vars => PackInv'
<1> SUFFICES ASSUME TypeOK, PackInv, [Next]_vars PROVE PackInv'
  OBVIOUS
<1> USE NoRowIsRow, SslAssumption
<1>1. \A p \in Packs : /\ packs[p] # "none" => packs'[p] # "none"
                       /\ Issued(p) => Issued(p)'
  BY PacksGrow
<1>2. ASSUME NEW c \in Callers, Provision(c) \/ CallCheck(c) \/ Renew(c)
      PROVE PackInv'
  BY <1>2 DEF TypeOK, PackInv, Issued, Provision, CallCheck, Renew, Call, Goto,
              Hold, LetsEncryptDraft, Tasks
<1>3. ASSUME NEW t \in Tasks, CheckRead(t) PROVE PackInv'
  BY <1>3 DEF TypeOK, PackInv, Issued, CheckRead, Goto, Hold, Over, Local
<1>4. ASSUME NEW t \in Tasks, AskCloudflare(t) PROVE PackInv'
  <2>1. /\ phase[t] = "asking" /\ UNCHANGED <<packs, row>>
        /\ \E to \in {"touching", "refreshing"} : Goto(t, to)
    BY <1>4 DEF AskCloudflare, Local
  <2>2. PICK r : Hold(t, r) /\ r.pack \in {held[t].pack, NoPack}
    <3>1. held[t] \in Rows
      BY DEF TypeOK
    <3>2. CASE Hold(t, NoRow)
      BY <3>2
    <3>3. ASSUME NEW p \in Looked(held[t].pack), NEW r \in Shown(held[t], p),
                 Hold(t, r)
          PROVE  \E s : Hold(t, s) /\ s.pack \in {held[t].pack, NoPack}
      <4>1. p \in Listed
        BY DEF Looked
      <4> QED BY <3>1, <3>3, <4>1, ShownIsRow
    <3>4. CASE Hold(t, [held[t] EXCEPT !.expires = "none"])
      BY <3>1, <3>4 DEF Rows
    <3> QED BY <1>4, <3>2, <3>3, <3>4 DEF AskCloudflare
  <2> QED BY <2>1, <2>2 DEF TypeOK, PackInv, Issued, Goto, Hold
<1>5. ASSUME NEW t \in Tasks,
             Refresh(t) \/ Touch(t) \/ Count(t) \/ SaveTouch(t) \/ Reissue(t)
               \/ SaveError(t)
      PROVE PackInv'
  <2>1. /\ row'.pack = row.pack /\ row'.provider = row.provider
        /\ packs' = packs /\ Hold(t, NoRow)
        /\ \E to \in Phases \ {"renewing", "saving"} : Goto(t, to)
    BY ZenonT(30), <1>5 DEF TypeOK, Rows, Refresh, Touch, Count, SaveTouch, Reissue,
                SaveError, Update, Caught, Phases
  <2> QED BY <2>1 DEF TypeOK, PackInv, Issued, Goto, Hold
<1>6. ASSUME NEW t \in Tasks, Save(t) \/ SavePack(t) PROVE PackInv'
  <2>1. /\ packs' = packs /\ Hold(t, NoRow)
        /\ \E to \in Phases \ {"renewing", "saving"} : Goto(t, to)
    BY <1>6 DEF Save, SavePack, Update, Caught, Phases
  <2>2. /\ row'.provider = "cloudflare" => row'.pack \in Packs
        /\ row'.pack \in Packs => packs'[row'.pack] # "none"
    <3>1. row \in Rows /\ held[t] \in Rows
      BY DEF TypeOK
    <3>2. CASE Save(t)
      BY <3>1, <3>2, <2>1 DEF PackInv, Rows, Save, Update
    <3>3. CASE SavePack(t)
      BY <3>1, <3>3, <2>1 DEF PackInv, Rows, SavePack, Update
    <3> QED BY <1>6, <3>2, <3>3
  <2> QED BY <2>1, <2>2 DEF TypeOK, PackInv, Issued, Goto, Hold
<1>7. ASSUME NEW c \in Callers, ListPacks(c) PROVE PackInv'
  BY <1>7 DEF TypeOK, PackInv, Issued, ListPacks, FallBack, CloudflareDraft,
              LetsEncryptDraft, Goto, Hold, Local, Tasks
<1>8. ASSUME NEW c \in Callers, OrderPack(c) \/ Reorder(c) PROVE PackInv'
  <2>1. /\ row' = row
        /\ \/ /\ \E r : Hold(c, r) /\ r.pack = NoPack /\ r.provider # "cloudflare"
              /\ \E to \in {"saving", "retouching"} : Goto(c, to)
           \/ /\ held' = held /\ Goto(c, "retouching")
           \/ \E p \in Packs :
                /\ packs[p] = "none"
                /\ packs' = [packs EXCEPT ![p] = "initializing"]
                /\ \E r : Hold(c, r) /\ r.pack = p /\ r.status = "pending"
                /\ \E to \in {"saving", "renewing"} : Goto(c, to)
    <3>1. CASE OrderPack(c)
      <4>1. LetsEncryptDraft.pack = NoPack
            /\ LetsEncryptDraft.provider # "cloudflare"
        BY DEF LetsEncryptDraft
      <4>2. \A p : /\ CloudflareDraft(p, "pending").pack = p
                   /\ CloudflareDraft(p, "pending").status = "pending"
        BY DEF CloudflareDraft
      <4> QED
        BY <3>1, <4>1, <4>2 DEF OrderPack, Ordered, FallBack, Local
    <3>2. CASE Reorder(c)
      <4>1. \A p : /\ [NoRow EXCEPT !.pack = p].pack = p
                   /\ [NoRow EXCEPT !.pack = p].status = "pending"
        BY DEF NoRow
      <4>2. CASE held' = held /\ Goto(c, "retouching")
        BY <3>2, <4>2 DEF Reorder, Local
      <4>3. CASE ~ (held' = held /\ Goto(c, "retouching"))
        <5>1. PICK p \in Packs :
                /\ packs[p] = "none"
                /\ packs' = [packs EXCEPT ![p] = "initializing"]
                /\ Goto(c, "renewing") /\ Hold(c, [NoRow EXCEPT !.pack = p])
          BY <3>2, <4>3 DEF Reorder, Ordered
        <5> QED BY <3>2, <4>1, <5>1 DEF Reorder, Local
      <4> QED BY <4>2, <4>3
    <3> QED BY <1>8, <3>1, <3>2
  <2> QED BY <1>1, <2>1 DEF TypeOK, PackInv, Goto, Hold, Tasks
<1>9. ASSUME NEW t \in Tasks, CallReRead(t) \/ Report(t) PROVE PackInv'
  BY <1>9 DEF TypeOK, PackInv, Issued, CallReRead, Report, Over, Goto, Hold, Local
<1>10. ASSUME NEW m \in Cycles, Cycle(m) \/ StartMonitoring(m) PROVE PackInv'
  BY <1>10 DEF TypeOK, PackInv, Issued, Cycle, StartMonitoring, Begun, Goto, Tasks
<1>11. CASE PackChanges
  BY <1>1, <1>11 DEF TypeOK, PackInv, PackChanges, PackMoves
<1>12. CASE RowExpires \/ Ages \/ StopMonitoring \/ UNCHANGED vars
  BY <1>12 DEF TypeOK, Rows, PackInv, Issued, RowExpires, Ages, StopMonitoring,
               vars
<1> QED
  BY <1>2, <1>3, <1>4, <1>5, <1>6, <1>7, <1>8, <1>9, <1>10, <1>11, <1>12
     DEF Next, Host, Checks, Works, Tasks

-----------------------------------------------------------------------------
(***************************************************************************)
(* What is read and what is written, one operation at a time.              *)
(***************************************************************************)
LEMMA OverlapStays == [Next]_vars => overlap' = overlap
BY DEF Next, Host, Provision, CallCheck, Renew, Call, StartMonitoring, Begun,
       StopMonitoring, Checks, CheckRead, AskCloudflare, Refresh, Touch,
       Update, Works, ListPacks, OrderPack, Save, CallReRead, Count, Reorder,
       SavePack, SaveTouch, Reissue, SaveError, Cycle, Report, PackChanges,
       PackMoves, RowExpires, Ages, Local, vars

\* The others are idle, so only the task that moved has read anything.
LEMMA OthersIdle ==
  ASSUME TypeOK, OneAtATime, ~ overlap, NEW t \in Tasks,
         phase[t] # "idle" \/ MayBegin, NEW to, Goto(t, to), HeldOf(t)'
  PROVE  \A u \in Tasks : HeldOf(u)'
<1>1. \A u \in Tasks \ {t} : phase[u] = "idle"
  BY DEF OneAtATime, MayBegin
<1>2. \A u \in Tasks \ {t} : phase'[u] = "idle"
  BY <1>1 DEF TypeOK, Goto
<1> QED BY <1>2 DEF HeldOf

\* An active Cloudflare row is about an issued pack.
RowIssued ==
  row.provider = "cloudflare" /\ row.status = "active" => Issued(row.pack)

LEMMA HeldStep ==
  TypeOK /\ OneAtATime /\ PackInv /\ HeldInv /\ ActiveWasIssued /\ [Next]_vars
    => HeldInv' /\ ActiveWasIssued'
<1> SUFFICES ASSUME TypeOK, OneAtATime, PackInv, HeldInv, ActiveWasIssued,
                    [Next]_vars, ~ overlap
             PROVE  (\A u \in Tasks : HeldOf(u)') /\ RowIssued'
  BY OverlapStays DEF HeldInv, ActiveWasIssued, RowIssued, Issued
<1>1. /\ \A t \in Tasks : HeldOf(t)
      /\ RowIssued
      /\ row \in Rows /\ \A t \in Tasks : held[t] \in Rows
  BY DEF HeldInv, ActiveWasIssued, RowIssued, Issued, TypeOK
<1>3. ASSUME NEW c \in Callers, Provision(c) \/ CallCheck(c) \/ Renew(c)
      PROVE  (\A u \in Tasks : HeldOf(u)') /\ RowIssued'
  <2>1. /\ MayBegin /\ row' = row /\ packs' = packs /\ c \in Tasks
        /\ \E to : Goto(c, to)
    BY <1>3 DEF Provision, CallCheck, Renew, Call, Tasks
  <2>2. HeldOf(c)'
    BY <1>3, <2>1
       DEF TypeOK, HeldOf, Provision, CallCheck, Renew, Call, Goto, Hold
  <2> QED BY <1>1, <2>1, <2>2, OthersIdle DEF RowIssued, Issued
<1>4. ASSUME NEW t \in Tasks, CheckRead(t)
      PROVE  (\A u \in Tasks : HeldOf(u)') /\ RowIssued'
  <2>1. /\ phase[t] # "idle" /\ row' = row /\ packs' = packs
        /\ \E to : Goto(t, to)
    BY <1>4 DEF CheckRead, Over, Local
  <2>2. HeldOf(t)'
    BY <1>4, <2>1 DEF TypeOK, HeldOf, CheckRead, Over, Goto, Hold
  <2> QED BY <1>1, <2>1, <2>2, OthersIdle DEF RowIssued, Issued
<1>5. ASSUME NEW t \in Tasks, AskCloudflare(t)
      PROVE  (\A u \in Tasks : HeldOf(u)') /\ RowIssued'
  <2>1. /\ phase[t] = "asking" /\ row' = row /\ packs' = packs
        /\ \E to : Goto(t, to)
    BY <1>5 DEF AskCloudflare, Local
  <2>2. CASE Goto(t, "touching")
    <3>1. HeldOf(t)'
      BY <2>2 DEF TypeOK, HeldOf, Goto
    <3> QED BY <1>1, <2>1, <3>1, OthersIdle DEF RowIssued, Issued
  <2>3. CASE Goto(t, "refreshing")
    <3>1. ASSUME NEW p \in Looked(held[t].pack), NEW r \in Shown(held[t], p),
                 Hold(t, r), row.provider = "cloudflare", r.status = "active"
          PROVE  Issued(row.pack)
      <4>1. p \in Listed /\ (r.status = "active" =>
              held[t].status = "active" \/ packs[p] = "active")
        BY <1>1, ShownIsRow DEF Looked
      <4>2. CASE held[t].status = "active"
        BY <1>1, <2>1, <3>1, <4>2 DEF HeldOf, RowIssued
      <4>3. CASE packs[p] = "active" /\ p = held[t].pack
        BY <1>1, <2>1, <4>3 DEF HeldOf, Issued
      <4>4. CASE p # held[t].pack
        BY <1>1, <2>1, <3>1, <4>4 DEF HeldOf, Looked, Listed, PackInv, Issued
      <4> QED BY <3>1, <4>1, <4>2, <4>3, <4>4
    <3>2. ASSUME Hold(t, [held[t] EXCEPT !.expires = "none"]),
                 row.provider = "cloudflare", held[t].status = "active"
          PROVE  Issued(row.pack)
      BY <1>1, <2>1, <3>2 DEF HeldOf, RowIssued
    <3>3. row.provider = "cloudflare" /\ held'[t].status = "active"
            => Issued(row.pack)
      <4>1. CASE \E p \in Looked(held[t].pack) :
                   \E r \in Shown(held[t], p) : Hold(t, r)
        BY <3>1, <4>1 DEF TypeOK, Hold
      <4>2. CASE Hold(t, [held[t] EXCEPT !.expires = "none"])
        BY <1>1, <3>2, <4>2 DEF TypeOK, Hold, Rows
      <4>3. phase'[t] = "refreshing"
        BY <2>3 DEF TypeOK, Goto
      <4>4. ~ Goto(t, "touching")
        BY <4>3 DEF TypeOK, Goto
      <4> QED BY <1>5, <4>1, <4>2, <4>4 DEF AskCloudflare
    <3>4. HeldOf(t)'
      BY <2>1, <2>3, <3>3 DEF TypeOK, HeldOf, Goto, Issued
    <3> QED BY <1>1, <2>1, <3>4, OthersIdle DEF RowIssued, Issued
  <2>4. Goto(t, "touching") \/ Goto(t, "refreshing")
    BY <1>5 DEF AskCloudflare
  <2> QED BY <2>2, <2>3, <2>4
<1>6. ASSUME NEW t \in Tasks,
             Refresh(t) \/ Touch(t) \/ Save(t) \/ Count(t) \/ SavePack(t)
               \/ SaveTouch(t) \/ Reissue(t) \/ SaveError(t)
      PROVE  (\A u \in Tasks : HeldOf(u)') /\ RowIssued'
  <2>1. /\ phase[t] # "idle" /\ packs' = packs
        /\ \E to : Goto(t, to)
    BY <1>6 DEF Refresh, Touch, Save, Count, SavePack, SaveTouch, Reissue,
                SaveError, Update
  <2>2. phase'[t] = "reissuing" => row'.provider # "cloudflare"
    <3>1. CASE Count(t)
      BY <1>1, <3>1 DEF TypeOK, Rows, HeldOf, Count, Update, Caught, Goto
    <3>2. CASE ~ Count(t)
      BY <1>6, <3>2
         DEF TypeOK, Refresh, Touch, Save, SavePack, SaveTouch, Reissue,
             SaveError, Update, Caught, Goto
    <3> QED BY <3>1, <3>2
  <2>3. phase'[t] \notin {"asking", "counting", "refreshing"}
    BY <1>6 DEF TypeOK, Refresh, Touch, Save, Count, SavePack, SaveTouch,
                Reissue, SaveError, Update, Caught, Goto
  <2>4. HeldOf(t)'
    BY <2>2, <2>3 DEF HeldOf
  <2>5. RowIssued'
    <3>1. CASE Refresh(t)
      BY <1>1, <2>1, <3>1
         DEF Rows, Refresh, Update, HeldOf, RowIssued, Issued
    <3>2. CASE Touch(t) \/ SaveTouch(t) \/ Count(t) \/ SaveError(t)
      BY <1>1, <2>1, <3>2
         DEF Rows, Touch, SaveTouch, Count, SaveError, Update, RowIssued, Issued
    <3>3. CASE Save(t)
      BY <1>1, <2>1, <3>3
         DEF Rows, Save, Update, PackInv, RowIssued, Issued
    <3>4. CASE SavePack(t)
      BY <1>1, <2>1, <3>4 DEF Rows, SavePack, Update, RowIssued, Issued
    <3>5. CASE Reissue(t)
      BY <1>1, <2>1, <3>5 DEF Rows, Reissue, Update, HeldOf, RowIssued, Issued
    <3> QED BY <1>6, <3>1, <3>2, <3>3, <3>4, <3>5
  <2> QED BY <2>1, <2>4, <2>5, OthersIdle
<1>7. ASSUME row' = row PROVE RowIssued'
  BY <1>1, <1>7, PacksGrow DEF RowIssued, PackInv, Issued
<1>8. ASSUME NEW t \in Tasks,
             ListPacks(t) \/ OrderPack(t) \/ Reorder(t) \/ CallReRead(t)
               \/ Report(t)
      PROVE  (\A u \in Tasks : HeldOf(u)') /\ RowIssued'
  <2>1. /\ phase[t] # "idle" /\ row' = row
        /\ \E to \in {"idle", "saving", "ordering", "renewing", "retouching"} :
             Goto(t, to)
    BY <1>8 DEF ListPacks, OrderPack, Reorder, CallReRead, Report, Ordered,
                FallBack, Over, Local
  <2>2. HeldOf(t)'
    BY <2>1 DEF TypeOK, HeldOf, Goto
  <2> QED BY <2>1, <2>2, <1>7, OthersIdle
<1>9. ASSUME NEW m \in Cycles, Cycle(m) \/ StartMonitoring(m)
      PROVE  (\A u \in Tasks : HeldOf(u)') /\ RowIssued'
  <2>1. Begun(m) /\ MayBegin /\ m \in Tasks /\ row' = row
    BY <1>9 DEF Cycle, StartMonitoring, Begun, Tasks
  <2>2. CASE Goto(m, "reading")
    <3>1. HeldOf(m)'
      BY <2>1, <2>2 DEF TypeOK, HeldOf, Goto
    <3> QED BY <2>1, <2>2, <3>1, <1>7, OthersIdle
  <2>3. CASE UNCHANGED phase
    BY <1>1, <2>1, <2>3, <1>7 DEF Begun, HeldOf, Issued
  <2> QED BY <2>1, <2>2, <2>3 DEF Begun
<1>10. CASE PackChanges
  <2>1. UNCHANGED <<row, phase, held>>
    BY <1>10 DEF PackChanges, PackMoves
  <2>2. \A u \in Tasks : HeldOf(u)'
    BY <1>1, <2>1, PacksGrow DEF HeldOf, PackInv
  <2> QED BY <2>1, <2>2, <1>7
<1>11. CASE RowExpires \/ Ages
  BY <1>1, <1>11 DEF Rows, RowExpires, Ages, HeldOf, RowIssued, Issued
<1>12. CASE StopMonitoring \/ UNCHANGED vars
  BY <1>1, <1>12 DEF StopMonitoring, vars, HeldOf, RowIssued, Issued
<1> QED
  BY <1>3, <1>4, <1>5, <1>6, <1>8, <1>9, <1>10, <1>11, <1>12
     DEF Next, Host, Checks, Works, Tasks

-----------------------------------------------------------------------------
(***************************************************************************)
(* Renewals.                                                               *)
(***************************************************************************)
LEMMA CountStep ==
  TypeOK /\ HeldInv /\ CountInv /\ [Next]_vars => CountInv'
<1> SUFFICES ASSUME TypeOK, HeldInv, CountInv, [Next]_vars PROVE CountInv'
  OBVIOUS
<1> USE NoRowIsRow
<1>1. /\ row \in Rows /\ \A t \in Tasks : held[t] \in Rows
      /\ renewals \in Nat /\ faults \in Nat /\ MaxFaults \in Nat
      /\ row.attempts \in Nat /\ \A t \in Tasks : held[t].attempts \in Nat
      /\ row.attempts <= renewals /\ faults <= MaxFaults
      /\ \A t \in Tasks : held[t].attempts <= renewals
      /\ ~ overlap => renewals <= row.attempts + (MaxFaults - faults)
  BY SslAssumption DEF TypeOK, Rows, CountInv, RenewalsAreCounted
<1>2. overlap' = overlap
  BY OverlapStays
<1>3. ASSUME NEW t \in Tasks, Count(t) PROVE CountInv'
  <2>1. /\ renewals' = renewals + 1
        /\ \/ faults' = faults /\ row'.attempts = held[t].attempts + 1
           \/ /\ faults > 0 /\ faults' = faults - 1
              /\ row'.attempts \in {row.attempts, held[t].attempts + 1}
    BY <1>1, <1>3 DEF Count, Update, Throws, Rows
  <2>2. ~ overlap => held[t].attempts = row.attempts
    BY <1>3 DEF HeldInv, HeldOf, Count, Update
  <2>3. RenewalsAreCounted' /\ faults' <= MaxFaults
    BY <1>1, <1>2, <2>1, <2>2 DEF RenewalsAreCounted
  <2>4. \A u \in Tasks : held'[u].attempts <= renewals'
    BY <1>1, <1>3, <2>1 DEF TypeOK, Count, Update, Hold
  <2> QED BY <2>3, <2>4 DEF CountInv
<1>4. ASSUME row'.attempts = row.attempts, renewals' = renewals,
             faults' = faults \/ (faults > 0 /\ faults' = faults - 1),
             \/ held' = held
             \/ \E t \in Tasks, r \in Rows :
                  Hold(t, r) /\ r.attempts <= renewals
      PROVE  CountInv'
  <2>1. RenewalsAreCounted' /\ faults' <= MaxFaults
    BY <1>1, <1>2, <1>4 DEF RenewalsAreCounted
  <2>2. \A u \in Tasks : held'[u].attempts <= renewals'
    BY <1>1, <1>4 DEF TypeOK, Hold
  <2> QED BY <2>1, <2>2 DEF CountInv
<1>5. LetsEncryptDraft.attempts = 0
      /\ \A p \in Packs : /\ \A x \in {"active", "pending"} :
                             CloudflareDraft(p, x).attempts = 0
                         /\ [NoRow EXCEPT !.pack = p] \in Rows
                         /\ [NoRow EXCEPT !.pack = p].attempts = 0
  BY DEF LetsEncryptDraft, CloudflareDraft, Rows
<1>6. ASSUME NEW c \in Callers, Provision(c) \/ CallCheck(c) \/ Renew(c)
      PROVE  CountInv'
  <2>1. /\ row' = row /\ renewals' = renewals /\ faults' = faults /\ c \in Tasks
        /\ Hold(c, NoRow) \/ Hold(c, LetsEncryptDraft) \/ Hold(c, row)
    BY <1>6 DEF Provision, CallCheck, Renew, Call, Tasks
  <2> QED BY <1>1, <1>4, <1>5, <2>1, DraftsAreRows
<1>7. ASSUME NEW t \in Tasks, CheckRead(t) \/ AskCloudflare(t) PROVE CountInv'
  <2>1. /\ row' = row /\ renewals' = renewals
        /\ faults' = faults \/ (faults > 0 /\ faults' = faults - 1)
    BY <1>7 DEF CheckRead, AskCloudflare, Local, Throws
  <2>2. CASE CheckRead(t)
    <3>1. held' = held \/ Hold(t, row) \/ Hold(t, NoRow)
      BY <2>2 DEF CheckRead, Over
    <3> QED BY <1>1, <1>4, <2>1, <3>1
  <2>3. CASE AskCloudflare(t)
    <3>1. ASSUME NEW p \in Looked(held[t].pack), NEW r \in Shown(held[t], p)
          PROVE  r \in Rows /\ r.attempts <= renewals
      BY <1>1, ShownIsRow DEF Looked
    <3>2. /\ [held[t] EXCEPT !.expires = "none"] \in Rows
          /\ [held[t] EXCEPT !.expires = "none"].attempts <= renewals
      BY <1>1 DEF Rows
    <3>3. \E r \in Rows : Hold(t, r) /\ r.attempts <= renewals
      <4>1. CASE Hold(t, NoRow)
        BY <1>1, <4>1
      <4>2. CASE \E p \in Looked(held[t].pack) :
                   \E r \in Shown(held[t], p) : Hold(t, r)
        BY <3>1, <4>2
      <4>3. CASE Hold(t, [held[t] EXCEPT !.expires = "none"])
        BY <3>2, <4>3
      <4> QED BY <2>3, <4>1, <4>2, <4>3 DEF AskCloudflare
    <3> QED BY <1>4, <2>1, <3>3
  <2> QED BY <1>7, <2>2, <2>3
<1>8. ASSUME NEW t \in Tasks,
             Refresh(t) \/ Touch(t) \/ Save(t) \/ SavePack(t) \/ SaveTouch(t)
               \/ Reissue(t) \/ SaveError(t)
      PROVE  CountInv'
  <2>1. /\ renewals' = renewals /\ Hold(t, NoRow)
        /\ faults' = faults \/ (faults > 0 /\ faults' = faults - 1)
    BY <1>8 DEF Refresh, Touch, Save, SavePack, SaveTouch, Reissue, SaveError,
                Update, Throws
  <2>2. row'.attempts = row.attempts
    BY <1>1, <1>8
       DEF Rows, Refresh, Touch, Save, SavePack, SaveTouch, Reissue, SaveError,
           Update
  <2> QED BY <1>1, <1>4, <2>1, <2>2
<1>9. ASSUME NEW c \in Callers, ListPacks(c) \/ OrderPack(c) \/ Reorder(c)
      PROVE  CountInv'
  <2>1. /\ row' = row /\ renewals' = renewals /\ c \in Tasks
        /\ faults' = faults \/ (faults > 0 /\ faults' = faults - 1)
    BY <1>9 DEF ListPacks, OrderPack, Reorder, Ordered, Local, Throws, Tasks
  <2>2. \/ held' = held \/ Hold(c, LetsEncryptDraft)
        \/ \E p \in Packs, x \in {"active", "pending"} :
             Hold(c, CloudflareDraft(p, x))
        \/ \E p \in Packs : Hold(c, [NoRow EXCEPT !.pack = p])
    BY <1>9 DEF ListPacks, OrderPack, Reorder, Ordered, FallBack
  <2>3. held' = held \/ \E r \in Rows : Hold(c, r) /\ r.attempts <= renewals
    <3>1. 0 <= renewals
      BY <1>1
    <3> QED BY <1>5, <2>2, <3>1, DraftsAreRows
  <2> QED BY <1>4, <2>1, <2>3
<1>10. ASSUME NEW t \in Tasks, CallReRead(t) \/ Report(t) PROVE CountInv'
  <2>1. /\ row' = row /\ renewals' = renewals /\ Hold(t, NoRow)
        /\ faults' = faults \/ (faults > 0 /\ faults' = faults - 1)
    BY <1>10 DEF CallReRead, Report, Over, Local, Throws
  <2> QED BY <1>1, <1>4, <2>1
<1>11. CASE (\E m \in Cycles : Cycle(m) \/ StartMonitoring(m))
              \/ StopMonitoring \/ PackChanges \/ UNCHANGED vars
  BY <1>4, <1>11 DEF Cycle, StartMonitoring, Begun, StopMonitoring, PackChanges,
                     PackMoves, vars
<1>12. CASE RowExpires \/ Ages
  BY <1>1, <1>4, <1>12 DEF Rows, RowExpires, Ages
<1> QED
  BY <1>3, <1>6, <1>7, <1>8, <1>9, <1>10, <1>11, <1>12
     DEF Next, Host, Checks, Works, Tasks

-----------------------------------------------------------------------------
(***************************************************************************)
(* Theorems.                                                               *)
(***************************************************************************)
LEMMA StepInv == IInv /\ [Next]_vars => IInv'
BY TypeStep, SoloStep, PackStep, HeldStep, CountStep DEF IInv

\* The inductive invariant, for every number of calls, cycles and packs.
THEOREM Invariance == Spec => []IInv
<1>1. Init => IInv
  BY InitInv
<1>2. IInv /\ [Next]_vars => IInv'
  BY StepInv
<1> QED BY <1>1, <1>2, PTL DEF Spec

\* Every variable keeps its type.
THEOREM TypeCorrect == Spec => []TypeOK
<1>1. IInv => TypeOK
  BY DEF IInv
<1> QED BY <1>1, Invariance, PTL

\* One operation at a time, provisionSsl, renewCertificate and
\* checkCertificateStatus leave no row "active" whose pack was never issued.
THEOREM IssueCorrect == Spec => []ActiveWasIssued
<1>1. IInv => ActiveWasIssued
  BY DEF IInv
<1> QED BY <1>1, Invariance, PTL

\* renewCertificate counts no renewal twice, and loses a count only to an
\* overlap or a failed update.
THEOREM RenewalsCorrect == Spec => []RenewalsAreCounted
<1>1. IInv => RenewalsAreCounted
  BY DEF IInv, CountInv
<1> QED BY <1>1, Invariance, PTL
=============================================================================
