---------------------------- MODULE CustomDomains ----------------------------
(***************************************************************************)
(* DomainService for one domain name: the row in the database and the      *)
(* CNAME records that configureDns and removeDomain keep at Cloudflare.    *)
(* No transaction covers both, and no update is conditional on the status  *)
(* that was read before it.                                                *)
(*                                                                         *)
(* Abstracted: tenants, tokens, the zone's id.  The domain column is       *)
(* unique and each row has an id of its own; an update of a row that is    *)
(* gone throws.                                                            *)
(***************************************************************************)
EXTENDS Naturals, FiniteSets

CONSTANTS
  Callers,         (* host calls in flight at once                            *)
  Recs,            (* ids Cloudflare may give to DNS records                  *)
  NoRec,           (* cloudflareDnsRecordId is null                           *)
  MaxCalls,        (* bound: calls the host makes                             *)
  MaxFaults        (* bound: calls that fail, and crashes                     *)

ASSUME DomainsAssumption ==
  /\ NoRec \notin Recs
  /\ MaxCalls \in Nat
  /\ MaxFaults \in Nat

VARIABLES
  overlap,         (* the host's calls may overlap: set once                  *)
  row,             (* the domain's row                                        *)
  ids,             (* rows created so far                                     *)
  dns,             (* the CNAME records for the domain at Cloudflare          *)
  unused,          (* ids Cloudflare has not given yet                        *)
  phase,           (* the await each call is at                               *)
  held,            (* the row each call has read, and what it adds to it      *)
  cut,             (* history: a removal of this row has deleted its record   *)
  calls, faults    (* what is left of MaxCalls and MaxFaults                  *)

vars == <<overlap, row, ids, dns, unused, phase, held, cut, calls, faults>>

\* The id of no row is 0.
Rows == [id : Nat, status : {"pending", "verifying", "verified", "active"},
         zone : BOOLEAN, rec : Recs \cup {NoRec}]

NoRow == [id |-> 0, status |-> "pending", zone |-> FALSE, rec |-> NoRec]

Phases == {"idle", "locating", "creating", "marking", "resolving", "zoning",
           "pointing", "activating", "unpointing", "dropping"}

-----------------------------------------------------------------------------
Goto(c, p) == phase' = [phase EXCEPT ![c] = p]

Hold(c, r) == held' = [held EXCEPT ![c] = r]

Over(c) == Goto(c, "idle") /\ Hold(c, NoRow)

Throws == faults > 0 /\ faults' = faults - 1

\* A call of the host begins: findOrThrow, and what it then goes to.
Call(c, to) ==
  /\ overlap \/ \A d \in Callers : phase[d] = "idle"
  /\ phase[c] = "idle"
  /\ calls > 0 /\ calls' = calls - 1
  /\ Goto(c, to) /\ Hold(c, row)
  /\ UNCHANGED <<overlap, row, ids, dns, unused, cut, faults>>

\* A call's update by id: it is committed and the call goes on, it throws as
\* the row is gone, or it fails, committed or not.
Update(c, from, r, to) ==
  /\ phase[c] = from
  /\ \/ held[c].id = row.id /\ row' = r /\ Goto(c, to) /\ UNCHANGED faults
        /\ held' = IF to = "idle" THEN [held EXCEPT ![c] = NoRow] ELSE held
     \/ held[c].id # row.id /\ Over(c) /\ UNCHANGED <<row, faults>>
     \/ /\ Throws /\ Over(c)
        /\ row' \in IF held[c].id = row.id THEN {row, r} ELSE {row}
  /\ UNCHANGED <<overlap, ids, dns, unused, cut, calls>>

\* What a step at Cloudflare leaves alone.
Remote == UNCHANGED <<overlap, row, ids, calls>>

(***************************************************************************)
(* addDomain.                                                              *)
(***************************************************************************)
Add(c) == row = NoRow /\ Call(c, "locating")

\* findZoneForDomain: its failure is logged.
Locate(c) ==
  /\ phase[c] = "locating"
  /\ \E zone \in BOOLEAN : Hold(c, [NoRow EXCEPT !.zone = zone])
  /\ Goto(c, "creating")
  /\ UNCHANGED <<dns, unused, cut, faults>>
  /\ Remote

\* The create, which the unique column refuses if a row came first.
Create(c) ==
  /\ phase[c] = "creating"
  /\ Over(c)
  /\ \/ /\ row = NoRow
        /\ row' = [held[c] EXCEPT !.id = ids + 1]
        /\ ids' = ids + 1
        /\ cut' = FALSE
        /\ UNCHANGED faults \/ Throws
     \/ row # NoRow /\ UNCHANGED <<row, ids, cut, faults>>
     \/ Throws /\ UNCHANGED <<row, ids, cut>>
  /\ UNCHANGED <<overlap, dns, unused, calls>>

(***************************************************************************)
(* verifyOwnership.                                                        *)
(***************************************************************************)
\* Mutant: an active domain is verified again.
Verify_Active(c) == row # NoRow /\ Call(c, "marking")

\* A row that is active is left alone.
Verify(c) == row # NoRow /\ row.status # "active" /\ Call(c, "marking")

Mark(c) ==
  Update(c, "marking", [row EXCEPT !.status = "verifying"], "resolving")

\* The TXT lookup, which never throws, and the update it leads to.
Resolve(c) ==
  \E s \in {"verified", "pending"} :
    Update(c, "resolving", [row EXCEPT !.status = s], "idle")

(***************************************************************************)
(* configureDns.                                                           *)
(***************************************************************************)
Configure(c) ==
  /\ row # NoRow /\ row.status = "verified"
  /\ Call(c, IF row.zone THEN "pointing" ELSE "zoning")

\* findZoneForDomain, not caught here, and the update with what it found.
NoZone(c) ==
  /\ phase[c] = "zoning"
  /\ Over(c)
  /\ UNCHANGED <<dns, unused, cut, faults>>
  /\ Remote

SaveZone(c) == Update(c, "zoning", [row EXCEPT !.zone = TRUE], "pointing")

\* createDnsRecord, or updateDnsRecord of the record that was read, which
\* throws if that is gone.
Point(c) ==
  /\ phase[c] = "pointing"
  /\ \/ /\ held[c].rec = NoRec
        /\ \E r \in unused :
             /\ dns' = dns \cup {r} /\ unused' = unused \ {r}
             /\ \/ /\ Goto(c, "activating")
                   /\ Hold(c, [held[c] EXCEPT !.rec = r])
                   /\ UNCHANGED faults
                \/ Throws /\ Over(c)
     \/ /\ held[c].rec \in dns
        /\ Goto(c, "activating")
        /\ UNCHANGED <<held, dns, unused, faults>>
     \/ /\ held[c].rec \in Recs \ dns
        /\ Over(c)
        /\ UNCHANGED <<dns, unused, faults>>
     \/ Throws /\ Over(c) /\ UNCHANGED <<dns, unused>>
  /\ UNCHANGED cut
  /\ Remote

Activate(c) ==
  Update(c, "activating",
         [row EXCEPT !.status = "active", !.zone = TRUE, !.rec = held[c].rec],
         "idle")

(***************************************************************************)
(* removeDomain.                                                           *)
(***************************************************************************)
\* Mutant: the row is deleted and its record left at Cloudflare.
Remove_RowOnly(c) == row # NoRow /\ Call(c, "dropping")

Remove(c) ==
  /\ row # NoRow
  /\ Call(c, IF row.zone /\ row.rec # NoRec THEN "unpointing" ELSE "dropping")

\* Mutant: what has the domain's name is deleted, whoever created it.
Unpoint_Any(c) ==
  /\ phase[c] = "unpointing"
  /\ dns' = {}
  /\ Goto(c, "dropping")
  /\ cut' = (cut \/ held[c].id = row.id)
  /\ UNCHANGED <<held, unused, faults>>
  /\ Remote

\* deleteDnsRecord: its failure is logged.
Unpoint(c) ==
  /\ phase[c] = "unpointing"
  /\ Goto(c, "dropping")
  /\ \/ /\ dns' = dns \ {held[c].rec}
        /\ cut' = (cut \/ held[c].id = row.id)
        /\ UNCHANGED faults
     \/ Throws /\ UNCHANGED <<dns, cut>>
  /\ UNCHANGED <<held, unused>>
  /\ Remote

\* The row is deleted.
Drop(c) == Update(c, "dropping", NoRow, "idle")

\* The process dies and comes back.
Crash ==
  /\ Throws
  /\ phase' = [c \in Callers |-> "idle"]
  /\ held' = [c \in Callers |-> NoRow]
  /\ UNCHANGED <<dns, unused, cut>>
  /\ Remote

-----------------------------------------------------------------------------
Init ==
  /\ overlap \in BOOLEAN
  /\ row = NoRow /\ ids = 0
  /\ dns = {} /\ unused = Recs
  /\ phase = [c \in Callers |-> "idle"]
  /\ held = [c \in Callers |-> NoRow]
  /\ cut = FALSE
  /\ calls = MaxCalls /\ faults = MaxFaults

Begins(c) == Add(c) \/ Verify(c) \/ Configure(c) \/ Remove(c)

Works(c) ==
  \/ Locate(c) \/ Create(c)
  \/ Mark(c) \/ Resolve(c)
  \/ NoZone(c) \/ SaveZone(c) \/ Point(c) \/ Activate(c)
  \/ Unpoint(c) \/ Drop(c)

Next == Crash \/ \E c \in Callers : Begins(c) \/ Works(c)

Spec == Init /\ [][Next]_vars

-----------------------------------------------------------------------------
(***************************************************************************)
(* Properties.                                                             *)
(***************************************************************************)
\* Every variable keeps its type.
TypeOK ==
  /\ overlap \in BOOLEAN /\ cut \in BOOLEAN
  /\ row \in Rows
  /\ ids \in Nat /\ calls \in Nat /\ faults \in Nat
  /\ dns \subseteq Recs /\ unused \subseteq Recs
  /\ phase \in [Callers -> Phases]
  /\ held \in [Callers -> Rows]

\* The records at Cloudflare that neither the row nor a call knows of.
Orphans == dns \ ({row.rec} \cup {held[c].rec : c \in Callers})

\* When calls do not overlap, each failure or crash leaves at most one CNAME
\* record behind that nobody knows of; without one none is left, whatever
\* adds, configurations and removals the host makes.
OrphansAreFaults == ~ overlap => Cardinality(Orphans) <= MaxFaults - faults

\* An active domain's record is at Cloudflare, stale updates and the removal
\* of an earlier row of the same name included, unless a removal has deleted
\* the record and not, or not yet, the row.
ActiveIsServed == row.status = "active" /\ ~ cut => row.rec \in dns

\* When calls do not overlap, a domain that is active stays so until it is
\* removed: no verification takes it back, and none is lost to a failure.
ActiveStays ==
  [][~ overlap /\ row.status = "active" =>
       row'.status = "active" \/ row'.id # row.id]_vars
=============================================================================
