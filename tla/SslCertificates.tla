--------------------------- MODULE SslCertificates ---------------------------
(***************************************************************************)
(* The certificate row of one domain: SslService's provision, check and    *)
(* renew, SslMonitorService's cycles, and the certificate packs that       *)
(* Cloudflare keeps for the zone.                                          *)
(*                                                                         *)
(* Abstracted: dates (an expiry is unknown, ahead or past; a check is      *)
(* recent for five minutes), the custom hostname, the SSL mode, messages.  *)
(* A throw may come from the database, before or after the update is       *)
(* committed, or from a listener.                                          *)
(***************************************************************************)
EXTENDS Naturals, FiniteSets

CONSTANTS
  Packs,           (* ids of certificate packs                                *)
  Callers,         (* host calls of SslService in flight at once              *)
  Cycles,          (* monitor cycles in flight at once                        *)
  NoPack,          (* cloudflareCertPackId is null                            *)
  MaxCalls,        (* bound: calls the host makes                             *)
  MaxFaults        (* bound: calls of the database or of Cloudflare that fail *)

ASSUME SslAssumption ==
  /\ NoPack \notin Packs
  /\ Callers \cap Cycles = {}
  /\ MaxCalls \in Nat
  /\ MaxFaults \in Nat

VARIABLES
  overlap,         (* operations may overlap: set once                        *)
  zone,            (* the domain has a cloudflareZoneId: set once             *)
  packs,           (* the status of each pack, as Cloudflare lists it         *)
  row,             (* the SslCertificate row                                  *)
  timer,           (* SslMonitorService.timer is set                          *)
  phase,           (* the await each call and cycle is at                     *)
  held,            (* the row each has read, or is about to write             *)
  late,            (* cycles whose now is before the last expiry              *)
  reported,        (* the last cycle to begin has emitted ssl.expired         *)
  renewals,        (* history: renewals that tried to count themselves        *)
  calls, faults    (* what is left of MaxCalls and MaxFaults                  *)

vars == <<overlap, zone, packs, row, timer, phase, held, late, reported,
          renewals, calls, faults>>

Tasks == Callers \cup Cycles

PackStatuses == {"none", "initializing", "active", "expired", "gone"}

Rows == [provider : {"none", "cloudflare", "letsencrypt"},
         status   : {"pending", "active", "expired", "error"},
         pack     : Packs \cup {NoPack},
         expires  : {"none", "ahead", "past"},
         attempts : Nat,
         recent   : BOOLEAN]

\* No certificate was provisioned.
NoRow == [provider |-> "none", status |-> "pending", pack |-> NoPack,
          expires |-> "none", attempts |-> 0, recent |-> FALSE]

Phases == {"idle", "listing", "ordering", "saving", "reading", "asking",
           "refreshing", "touching", "rereading", "counting", "reordering",
           "renewing", "retouching", "reissuing", "failing"}

\* checkCertificateStatus and renewCertificate ask Cloudflare about this row.
Cloudflares(r) == r.provider = "cloudflare" /\ zone

-----------------------------------------------------------------------------
(***************************************************************************)
(* Steps.                                                                  *)
(***************************************************************************)
Goto(t, p) == phase' = [phase EXCEPT ![t] = p]

Hold(t, r) == held' = [held EXCEPT ![t] = r]

Over(t) == Goto(t, "idle") /\ Hold(t, NoRow)

\* A call fails: not for ever.
Throws == faults > 0 /\ faults' = faults - 1

MayBegin == overlap \/ \A t \in Tasks : phase[t] = "idle"

\* What catches a throw at each await.
Caught(p) == CASE p = "refreshing" -> "touching"
               [] p \in {"renewing", "retouching", "reissuing"} -> "failing"
               [] OTHER -> "idle"

\* A task's update of the row: it is committed and the task goes on, or it
\* throws, committed or not.  Nothing it held is used after.
Update(t, from, r, to) ==
  /\ phase[t] = from
  /\ \/ row' = r /\ Goto(t, to) /\ UNCHANGED faults
     \/ Throws /\ row' \in {row, r} /\ Goto(t, Caught(from))
  /\ Hold(t, NoRow)
  /\ UNCHANGED <<overlap, zone, packs, timer, late, reported, calls>>

\* A call of the host begins.
Call(c, to, r) ==
  /\ MayBegin
  /\ phase[c] = "idle"
  /\ calls > 0 /\ calls' = calls - 1
  /\ Goto(c, to) /\ Hold(c, r)
  /\ UNCHANGED <<overlap, zone, packs, row, timer, late, reported, renewals,
                 faults>>

\* What a step that talks to Cloudflare, or only reads, leaves alone.
Local == UNCHANGED <<overlap, zone, row, timer, late, reported, renewals, calls>>

\* orderAdvancedCertPack: a pack is ordered, or null is returned, the order
\* refused or its answer lost.
Ordered(t, p, won, lost) ==
  \/ /\ packs[p] = "none"
     /\ packs' = [packs EXCEPT ![p] = "initializing"]
     /\ \/ won /\ UNCHANGED faults
        \/ Throws /\ lost
  \/ lost /\ UNCHANGED <<packs, faults>>

-----------------------------------------------------------------------------
(***************************************************************************)
(* provisionSsl.                                                           *)
(***************************************************************************)
CloudflareDraft(p, status) ==
  [provider |-> "cloudflare", status |-> status, pack |-> p,
   expires |-> IF status = "active" THEN "ahead" ELSE "none",
   attempts |-> 0, recent |-> TRUE]

\* provisionLetsEncrypt returns a certificate at once; its row is "pending".
LetsEncryptDraft ==
  [provider |-> "letsencrypt", status |-> "pending", pack |-> NoPack,
   expires |-> "ahead", attempts |-> 0, recent |-> TRUE]

FallBack(c) == Goto(c, "saving") /\ Hold(c, LetsEncryptDraft)

\* The caller may name a zone the domain does not have.
Provision(c) ==
  \/ Call(c, "listing", NoRow)
  \/ ~ zone /\ Call(c, "saving", LetsEncryptDraft)

\* setSslMode, whose failure is logged, and listCertificatePacks.
ListPacks(c) ==
  /\ phase[c] = "listing"
  /\ \/ /\ \E p \in Packs :
             /\ packs[p] \in {"active", "initializing"}
             /\ Hold(c, CloudflareDraft(p, IF packs[p] = "active"
                                           THEN "active" ELSE "pending"))
        /\ Goto(c, "saving") /\ UNCHANGED faults
     \/ /\ \/ Throws
           \/ /\ UNCHANGED faults
              /\ \A p \in Packs : packs[p] \notin {"active", "initializing"}
        /\ FallBack(c) \/ (Goto(c, "ordering") /\ UNCHANGED held)
  /\ UNCHANGED packs
  /\ Local

\* useAdvancedCertManager.
OrderPack(c) ==
  /\ phase[c] = "ordering"
  /\ \E p \in Packs :
       Ordered(c, p, Goto(c, "saving") /\ Hold(c, CloudflareDraft(p, "pending")),
               FallBack(c))
  /\ Local

\* Mutant: the update resets the count as the create does.
Save_Resets(c) == Update(c, "saving", held[c], "idle") /\ UNCHANGED renewals

\* The upsert, which keeps renewalAttempts of a row there is.
Save(c) ==
  /\ Update(c, "saving", [held[c] EXCEPT !.attempts = row.attempts], "idle")
  /\ UNCHANGED renewals

(***************************************************************************)
(* checkCertificateStatus, of a call or of a cycle.                        *)
(***************************************************************************)
CallCheck(c) == row # NoRow /\ Call(c, "reading", NoRow)

CheckRead(t) ==
  /\ phase[t] = "reading"
  /\ \/ Throws /\ Over(t)
     \/ /\ UNCHANGED faults
        /\ \/ Cloudflares(row) /\ Hold(t, row) /\ Goto(t, "asking")
           \/ ~ Cloudflares(row) /\ Goto(t, "touching") /\ UNCHANGED held
  /\ UNCHANGED packs
  /\ Local

Listed == {p \in Packs : packs[p] \notin {"none", "gone"}}

\* getSslDetails: the row's pack, or else the first of the list, whatever
\* the list's order is.
Looked(p) == IF p \in Listed THEN {p} ELSE Listed

\* What is to be written of row r when Cloudflare shows pack p: no expiry if
\* the pack's certificate is not there yet.
Shown(r, p) ==
  IF packs[p] = "initializing"
  THEN {[r EXCEPT !.expires = "none", !.status = s] : s \in {r.status, "pending"}}
  ELSE {[r EXCEPT !.expires = IF packs[p] = "active" THEN "ahead" ELSE "past",
                  !.status = packs[p]]}

AskCloudflare(t) ==
  /\ phase[t] = "asking"
  /\ \/ Throws /\ Goto(t, "touching") /\ Hold(t, NoRow)
     \/ /\ UNCHANGED faults
        /\ Goto(t, "refreshing")
        /\ \/ \E p \in Looked(held[t].pack) :
                \E r \in Shown(held[t], p) : Hold(t, r)
           \/ /\ Looked(held[t].pack) = {}
              /\ Hold(t, [held[t] EXCEPT !.expires = "none"])
  /\ UNCHANGED packs
  /\ Local

\* The status is written whatever the row has become; a throw is caught.
Refresh(t) ==
  LET r == held[t]
  IN /\ Update(t, "refreshing",
               [row EXCEPT !.status = r.status, !.recent = TRUE,
                           !.expires = IF r.expires = "none" THEN @
                                       ELSE r.expires],
               "rereading")
     /\ UNCHANGED renewals

Touch(t) ==
  /\ Update(t, "touching", [row EXCEPT !.recent = TRUE], "rereading")
  /\ UNCHANGED renewals

\* The call returns what it reads.
CallReRead(c) ==
  /\ c \in Callers
  /\ phase[c] = "rereading"
  /\ Over(c)
  /\ UNCHANGED <<packs, faults>>
  /\ Local

(***************************************************************************)
(* SslMonitorService.                                                      *)
(***************************************************************************)
\* Mutant: only critical rows are checked.
Due_Critical(r) == r.status \in {"expired", "pending"}

\* What checkOneCert does not skip.  No code sets the status "expiring".
Due(r) == r.status \in {"expired", "pending"} \/ ~ r.recent

\* A cycle that begins: it loads the rows and takes the time.
Begun(m) ==
  /\ MayBegin
  /\ phase[m] = "idle"
  /\ reported' = FALSE
  /\ late' = late \ {m}
  /\ IF row # NoRow /\ Due(row) THEN Goto(m, "reading") ELSE UNCHANGED phase
  /\ UNCHANGED <<overlap, zone, packs, row, held, renewals, faults>>

Cycle(m) == timer /\ Begun(m) /\ UNCHANGED <<timer, calls>>

\* The first cycle runs at once.
StartMonitoring(m) ==
  /\ ~ timer /\ timer' = TRUE
  /\ calls > 0 /\ calls' = calls - 1
  /\ Begun(m)

\* Cycles in flight go on.
StopMonitoring ==
  /\ timer /\ timer' = FALSE
  /\ calls > 0 /\ calls' = calls - 1
  /\ UNCHANGED <<overlap, zone, packs, row, phase, held, late, reported,
                 renewals, faults>>

\* The cycle's check returns or throws; ssl.expired is emitted when the
\* expiry is before the cycle's own now.
Report(m) ==
  /\ phase[m] = "rereading"
  /\ Over(m)
  /\ \/ Throws /\ UNCHANGED reported
     \/ /\ UNCHANGED faults
        /\ \/ row.expires = "past" /\ reported' = TRUE
           \/ row.expires # "past" /\ UNCHANGED reported
           \/ m \in late /\ UNCHANGED reported
  /\ UNCHANGED <<overlap, zone, packs, row, timer, late, renewals, calls>>

(***************************************************************************)
(* renewCertificate.                                                       *)
(***************************************************************************)
Renew(c) == row # NoRow /\ Call(c, "counting", row)

\* renewalAttempts as it was read, and one.  A Cloudflare row without a zone
\* is refused after it was counted.
Count(c) ==
  LET to == IF Cloudflares(held[c]) THEN "reordering"
            ELSE IF held[c].provider = "letsencrypt" THEN "reissuing" ELSE "idle"
  IN /\ Update(c, "counting",
               [row EXCEPT !.attempts = held[c].attempts + 1], to)
     /\ renewals' = renewals + 1

Reorder(c) ==
  /\ phase[c] = "reordering"
  /\ \E p \in Packs :
       Ordered(c, p,
               Goto(c, "renewing") /\ Hold(c, [NoRow EXCEPT !.pack = p]),
               Goto(c, "retouching") /\ UNCHANGED held)
  /\ Local

\* Mutant: the status is left as it was.
SavePack_KeepsStatus(c) ==
  /\ Update(c, "renewing",
            [row EXCEPT !.pack = held[c].pack, !.recent = TRUE], "idle")
  /\ UNCHANGED renewals

\* The pack that was ordered is the row's from now on.
SavePack(c) ==
  /\ Update(c, "renewing",
            [row EXCEPT !.status = "pending", !.pack = held[c].pack,
                        !.recent = TRUE],
            "idle")
  /\ UNCHANGED renewals

\* Universal SSL renews itself.
SaveTouch(c) ==
  /\ Update(c, "retouching", [row EXCEPT !.recent = TRUE], "idle")
  /\ UNCHANGED renewals

\* Let's Encrypt issues at once.
Reissue(c) ==
  /\ Update(c, "reissuing",
            [row EXCEPT !.status = "active", !.expires = "ahead",
                        !.recent = TRUE],
            "idle")
  /\ UNCHANGED renewals

SaveError(c) ==
  /\ Update(c, "failing", [row EXCEPT !.status = "error"], "idle")
  /\ UNCHANGED renewals

(***************************************************************************)
(* Cloudflare and time.                                                    *)
(***************************************************************************)
InFlight == {m \in Cycles : phase[m] # "idle"}

\* A pack is issued, expires or is dropped from the list.  One that
\* Cloudflare renews in time stays "active".
PackMoves(p, from, to) ==
  /\ packs[p] \in from
  /\ packs' = [packs EXCEPT ![p] = to]
  /\ late' = IF to = "expired" THEN late \cup InFlight ELSE late
  /\ UNCHANGED <<overlap, zone, row, timer, phase, held, reported, renewals,
                 calls, faults>>

PackChanges ==
  \E p \in Packs : \/ PackMoves(p, {"initializing"}, "active")
                   \/ PackMoves(p, {"active"}, "expired")
                   \/ PackMoves(p, {"initializing", "expired"}, "gone")

\* The date in the row is past.
RowExpires ==
  /\ row.expires = "ahead"
  /\ row' = [row EXCEPT !.expires = "past"]
  /\ late' = late \cup InFlight
  /\ UNCHANGED <<overlap, zone, packs, timer, phase, held, reported, renewals,
                 calls, faults>>

\* The last check is five minutes ago.
Ages ==
  /\ row.recent
  /\ row' = [row EXCEPT !.recent = FALSE]
  /\ UNCHANGED <<overlap, zone, packs, timer, phase, held, late, reported,
                 renewals, calls, faults>>

-----------------------------------------------------------------------------
\* The zone's own pack; the others are ordered.
Universal == CHOOSE p \in Packs : TRUE

Init ==
  /\ overlap \in BOOLEAN /\ zone \in BOOLEAN
  /\ \E s \in {"none", "initializing", "active"} :
       packs = [p \in Packs |-> IF p = Universal THEN s ELSE "none"]
  /\ row = NoRow
  /\ timer = FALSE
  /\ phase = [t \in Tasks |-> "idle"]
  /\ held = [t \in Tasks |-> NoRow]
  /\ late = {}
  /\ reported = FALSE
  /\ renewals = 0
  /\ calls = MaxCalls /\ faults = MaxFaults

Checks(t) == CheckRead(t) \/ AskCloudflare(t) \/ Refresh(t) \/ Touch(t)

Works(c) ==
  \/ ListPacks(c) \/ OrderPack(c) \/ Save(c)
  \/ CallReRead(c)
  \/ Count(c) \/ Reorder(c) \/ SavePack(c) \/ SaveTouch(c) \/ Reissue(c)
  \/ SaveError(c)

Host == \/ \E c \in Callers : Provision(c) \/ CallCheck(c) \/ Renew(c)
        \/ \E m \in Cycles : StartMonitoring(m)
        \/ StopMonitoring

Next ==
  \/ Host
  \/ \E t \in Tasks : Checks(t)
  \/ \E c \in Callers : Works(c)
  \/ \E m \in Cycles : Cycle(m) \/ Report(m)
  \/ PackChanges \/ RowExpires \/ Ages

Spec == Init /\ [][Next]_vars

(***************************************************************************)
(* Fairness: what is in flight goes on, the interval fires while it is     *)
(* set, five minutes pass.  What Cloudflare does with a pack is its own.   *)
(***************************************************************************)
FairSpec ==
  /\ Spec
  /\ \A t \in Tasks : WF_vars(Checks(t))
  /\ \A c \in Callers : WF_vars(Works(c))
  /\ \A m \in Cycles : WF_vars(Cycle(m)) /\ WF_vars(Report(m))
  /\ WF_vars(Ages)

-----------------------------------------------------------------------------
(***************************************************************************)
(* Properties.                                                             *)
(***************************************************************************)
\* Every variable keeps its type.
TypeOK ==
  /\ overlap \in BOOLEAN /\ zone \in BOOLEAN /\ timer \in BOOLEAN
  /\ reported \in BOOLEAN
  /\ packs \in [Packs -> PackStatuses]
  /\ row \in Rows
  /\ phase \in [Tasks -> Phases]
  /\ held \in [Tasks -> Rows]
  /\ late \subseteq Cycles
  /\ renewals \in Nat /\ calls \in Nat /\ faults \in Nat

\* When operations do not overlap, a Cloudflare row that is "active" is
\* about a pack Cloudflare has issued, or no longer lists, failed updates,
\* lost orders and renewals included.
ActiveWasIssued ==
  ~ overlap /\ row.provider = "cloudflare" /\ row.status = "active"
    => packs[row.pack] \in {"active", "expired", "gone"}

\* renewalAttempts never counts a renewal twice; overlapping renewals may
\* lose each other's count, others lose one only to a failed update.
RenewalsAreCounted ==
  /\ row.attempts <= renewals
  /\ ~ overlap => renewals <= row.attempts + (MaxFaults - faults)

\* While the monitor runs, an expiry that stays past is reported again and
\* again, checks the host makes in between and failures included.  The
\* host's own checks end with MaxCalls: one every five minutes would keep
\* the row recent, and the monitor away from it, for ever.
ExpiryIsReported == []<>(reported \/ row.expires # "past" \/ ~ timer)
=============================================================================
