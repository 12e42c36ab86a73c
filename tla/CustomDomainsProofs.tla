------------------------- MODULE CustomDomainsProofs -------------------------
(***************************************************************************)
(* Safety of one custom domain, for any number of calls, DNS records and   *)
(* failures.                                                               *)
(***************************************************************************)
EXTENDS CustomDomains, FiniteSetTheorems, TLAPS

\* Ids grow, and a record belongs to one row.
OwnInv ==
  /\ row.id <= ids
  /\ row.id = 0 => row = NoRow
  /\ row.status = "active" => row.rec \in Recs
  /\ row.rec \in Recs => row.zone
  /\ row.rec \notin unused
  /\ \A c \in Callers :
       /\ held[c].id <= ids
       /\ IF phase[c] \in {"idle", "locating", "creating"}
            THEN held[c].rec = NoRec /\ held[c].status = "pending"
            ELSE held[c].id # 0
       /\ phase[c] = "activating" => held[c].rec \in Recs
       /\ held[c].rec \notin unused
       /\ held[c].rec \in Recs /\ held[c].rec = row.rec => held[c].id = row.id
       /\ \A d \in Callers : held[c].rec \in Recs /\ held[c].rec = held[d].rec
                               => held[c].id = held[d].id

\* What the row, or a call about to write it, refers to is at Cloudflare.
ServedInv ==
  ~ cut => /\ row.rec \in Recs => row.rec \in dns
           /\ \A c \in Callers :
                phase[c] = "activating" /\ held[c].id = row.id
                  => held[c].rec \in dns

\* What a call has read is still so.
ReadOf(c) ==
  /\ phase[c] \notin {"idle", "locating", "creating"} => held[c].id = row.id
  /\ phase[c] \in {"marking", "resolving"} => row.status # "active"
  /\ phase[c] \in {"marking", "resolving", "zoning", "pointing", "unpointing",
                   "dropping"}
       => held[c].rec = row.rec
  /\ phase[c] = "activating" => row.rec \in {NoRec, held[c].rec}

\* Without overlap one call is at work, and knows the row.
SerialInv ==
  ~ overlap =>
    /\ \A c, d \in Callers : phase[c] # "idle" /\ phase[d] # "idle" => c = d
    /\ \A c \in Callers : ReadOf(c)

\* The records that are orphans, or will be when the row is deleted.
Known == {row.rec} \cup {held[c].rec : c \in Callers}

Doomed == IF \E c \in Callers : phase[c] = "dropping" THEN {row.rec} ELSE {}

Lost == (dns \ Known) \cup (dns \cap Doomed)

LostInv ==
  ~ overlap => /\ IsFiniteSet(dns)
               /\ faults <= MaxFaults
               /\ Cardinality(Lost) <= MaxFaults - faults

SafeInv == TypeOK /\ OwnInv /\ ServedInv /\ SerialInv

-----------------------------------------------------------------------------
LEMMA NoRowIsRow ==
  /\ NoRow \in Rows /\ NoRow.id = 0 /\ NoRow.rec = NoRec
  /\ NoRow.status = "pending"
BY DEF NoRow, Rows

LEMMA InitInv == Init => SafeInv /\ LostInv
<1> SUFFICES ASSUME Init PROVE SafeInv /\ LostInv
  OBVIOUS
<1>1. TypeOK
  BY NoRowIsRow, DomainsAssumption DEF Init, TypeOK, Phases
<1>2. OwnInv /\ ServedInv /\ SerialInv
  BY NoRowIsRow, DomainsAssumption
     DEF Init, OwnInv, ServedInv, SerialInv, ReadOf
<1>3. LostInv
  <2>1. Lost = {} /\ dns = {}
    BY DEF Init, Lost
  <2> QED
    BY <2>1, FS_EmptySet, DomainsAssumption DEF Init, LostInv
<1> QED BY <1>1, <1>2, <1>3 DEF SafeInv

-----------------------------------------------------------------------------
(***************************************************************************)
(* The steps, as updates of the row, of Cloudflare, or of neither.         *)
(***************************************************************************)
\* What an update may do to the row it was made for.
Change(c, r) ==
  \/ phase[c] = "marking" /\ r = [row EXCEPT !.status = "verifying"]
  \/ /\ phase[c] = "resolving"
     /\ \E s \in {"verified", "pending"} : r = [row EXCEPT !.status = s]
  \/ phase[c] = "zoning" /\ r = [row EXCEPT !.zone = TRUE]
  \/ /\ phase[c] = "activating"
     /\ r = [row EXCEPT !.status = "active", !.zone = TRUE, !.rec = held[c].rec]
  \/ phase[c] = "dropping" /\ r = NoRow

Follows(c) == CASE phase[c] = "marking" -> "resolving"
                [] phase[c] = "zoning" -> "pointing"
                [] OTHER -> "idle"

AnUpdate(c, r) == Change(c, r) /\ Update(c, phase[c], r, Follows(c))

LEMMA Updates ==
  ASSUME NEW c \in Callers,
         Mark(c) \/ Resolve(c) \/ SaveZone(c) \/ Activate(c) \/ Drop(c)
  PROVE  \E r : AnUpdate(c, r)
BY DEF Mark, Resolve, SaveZone, Activate, Drop, AnUpdate, Change, Follows, Update

LEMMA ChangeFacts ==
  ASSUME TypeOK, NEW c \in Callers, NEW r, Change(c, r)
  PROVE  /\ r \in Rows
         /\ r.id = row.id \/ r = NoRow
         /\ r.rec \in {row.rec, held[c].rec, NoRec}
         /\ phase[c] # "activating" => r.rec \in {row.rec, NoRec}
         /\ phase[c] \notin {"activating", "dropping"} => r.rec = row.rec
         /\ phase[c] = "activating" => r.rec = held[c].rec /\ r.zone
         /\ phase[c] = "dropping" => r = NoRow
         /\ r.rec = row.rec /\ row.zone /\ r # NoRow => r.zone
         /\ r.status = "active" => \/ phase[c] = "activating"
                                   \/ phase[c] = "zoning" /\ row.status = "active"
         /\ row.status = "active" /\ phase[c] \notin {"marking", "resolving"}
              => r.status = "active" \/ r = NoRow
<1>1. row \in Rows /\ held[c] \in Rows
  BY DEF TypeOK
<1> QED BY <1>1, NoRowIsRow DEF Change, Rows

LEMMA CallFacts ==
  ASSUME TypeOK, OwnInv, NEW c \in Callers, Begins(c)
  PROVE  \E to \in {"locating", "marking", "pointing", "zoning", "unpointing",
                    "dropping"} :
           /\ Call(c, to)
           /\ to = "locating" <=> row = NoRow
           /\ to = "marking" => row.status # "active"
           /\ to = "dropping" => row.rec = NoRec
<1>1. row.rec \in Recs \cup {NoRec}
  BY DEF TypeOK, Rows
<1>2. CASE Add(c)
  BY <1>2 DEF Add
<1>3. CASE Verify(c)
  BY <1>3 DEF Verify
<1>4. CASE Configure(c)
  BY <1>4 DEF Configure
<1>5. CASE Remove(c)
  BY <1>1, <1>5 DEF Remove, OwnInv
<1> QED BY <1>2, <1>3, <1>4, <1>5 DEF Begins

\* The kinds of step there are.
LEMMA Cases ==
  ASSUME Next
  PROVE  \/ Crash
         \/ \E c \in Callers :
              \/ Begins(c) \/ Locate(c) \/ Create(c) \/ NoZone(c) \/ Point(c)
              \/ Unpoint(c) \/ \E r : AnUpdate(c, r)
BY Updates DEF Next, Works

LEMMA UpdateFacts ==
  ASSUME TypeOK, NEW c \in Callers, NEW r, AnUpdate(c, r)
  PROVE  /\ row' = row \/ (row' = r /\ held[c].id = row.id)
         /\ phase[c] \notin {"idle", "locating", "creating", "pointing", "unpointing"}
         /\ UNCHANGED <<overlap, ids, dns, unused, cut, calls>>
         /\ \A d \in Callers \ {c} : held'[d] = held[d] /\ phase'[d] = phase[d]
         /\ \/ held'[c] = held[c] /\ phase'[c] \in {"resolving", "pointing"}
            \/ held'[c] = NoRow /\ phase'[c] = "idle"
         /\ faults' = faults \/ Throws
<1>1. row' = row \/ (row' = r /\ held[c].id = row.id)
  <2>1. \/ held[c].id = row.id /\ row' = r
        \/ row' \in IF held[c].id = row.id THEN {row, r} ELSE {row}
    BY DEF AnUpdate, Update
  <2> QED BY <2>1
<1>2. /\ \A d \in Callers \ {c} : held'[d] = held[d] /\ phase'[d] = phase[d]
      /\ \/ held'[c] = held[c] /\ phase'[c] \in {"resolving", "pointing"}
         \/ held'[c] = NoRow /\ phase'[c] = "idle"
  BY DEF TypeOK, AnUpdate, Change, Update, Over, Goto, Hold, Follows
<1>3. faults' = faults \/ Throws
  BY DEF AnUpdate, Update
<1>4. UNCHANGED <<overlap, ids, dns, unused, cut, calls>>
  BY DEF AnUpdate, Update
<1>5. phase[c] \notin {"idle", "locating", "creating", "pointing", "unpointing"}
  BY DEF AnUpdate, Change
<1> QED BY <1>1, <1>2, <1>3, <1>4, <1>5

-----------------------------------------------------------------------------
LEMMA TypeStep == TypeOK /\ OwnInv /\ [Next]_vars => TypeOK'
<1> SUFFICES ASSUME TypeOK, OwnInv, [Next]_vars PROVE TypeOK'
  OBVIOUS
<1> USE NoRowIsRow
<1>1. ASSUME NEW c \in Callers, Begins(c) PROVE TypeOK'
  <2>1. PICK to \in Phases : Call(c, to)
    BY <1>1, CallFacts DEF Phases
  <2> QED BY <2>1 DEF TypeOK, Call, Goto, Hold
<1>2. ASSUME NEW c \in Callers, Locate(c) PROVE TypeOK'
  <2>1. \A z \in BOOLEAN : [NoRow EXCEPT !.zone = z] \in Rows
    BY DEF NoRow, Rows
  <2> QED BY <1>2, <2>1 DEF TypeOK, Locate, Remote, Goto, Hold, Phases
<1>3. ASSUME NEW c \in Callers, Create(c) PROVE TypeOK'
  <2>1. [held[c] EXCEPT !.id = ids + 1] \in Rows
    BY DEF TypeOK, Rows
  <2>2. row' \in Rows /\ cut' \in BOOLEAN
    BY <1>3, <2>1 DEF TypeOK, Create
  <2> QED BY <1>3, <2>2 DEF TypeOK, Create, Over, Goto, Hold, Throws, Phases
<1>4. ASSUME NEW c \in Callers, NoZone(c) PROVE TypeOK'
  BY <1>4 DEF TypeOK, NoZone, Remote, Over, Goto, Hold, Phases
<1>5. ASSUME NEW c \in Callers, Point(c) PROVE TypeOK'
  <2>1. \A r \in Recs : [held[c] EXCEPT !.rec = r] \in Rows
    BY DEF TypeOK, Rows
  <2>2. faults' \in Nat
    <3>1. UNCHANGED faults \/ Throws
      BY <1>5 DEF Point
    <3> QED BY <3>1 DEF TypeOK, Throws
  <2>4. dns' \subseteq Recs /\ unused' \subseteq Recs
    BY <1>5 DEF TypeOK, Point, Throws, Over, Goto
  <2>3. held' \in [Callers -> Rows] /\ phase' \in [Callers -> Phases]
    BY <1>5, <2>1 DEF TypeOK, Point, Over, Goto, Hold, Phases
  <2> QED BY <1>5, <2>2, <2>3, <2>4 DEF TypeOK, Point, Remote
<1>6. ASSUME NEW c \in Callers, Unpoint(c) PROVE TypeOK'
  <2>1. faults' \in Nat /\ dns' \subseteq Recs
    BY <1>6 DEF TypeOK, Unpoint, Throws
  <2>2. cut' \in BOOLEAN
    BY <1>6 DEF TypeOK, Unpoint
  <2> QED BY <1>6, <2>1, <2>2 DEF TypeOK, Unpoint, Remote, Goto, Phases
<1>7. ASSUME NEW c \in Callers, NEW r, AnUpdate(c, r) PROVE TypeOK'
  <2>1. r \in Rows
    BY <1>7, ChangeFacts DEF AnUpdate
  <2>2. Follows(c) \in Phases
    BY DEF Follows, Phases
  <2>3. row' \in Rows /\ faults' \in Nat
    BY <1>7, <2>1 DEF TypeOK, AnUpdate, Update, Throws
  <2> QED
    BY <1>7, <2>2, <2>3 DEF TypeOK, AnUpdate, Update, Over, Goto, Hold, Phases
<1>8. CASE Crash
  BY <1>8 DEF TypeOK, Crash, Remote, Throws, Phases
<1>9. CASE UNCHANGED vars
  BY <1>9 DEF TypeOK, vars
<1> QED
  BY <1>1, <1>2, <1>3, <1>4, <1>5, <1>6, <1>7, <1>8, <1>9, Cases

LEMMA OwnStep == TypeOK /\ OwnInv /\ [Next]_vars => OwnInv'
<1> SUFFICES ASSUME TypeOK, OwnInv, [Next]_vars PROVE OwnInv'
  OBVIOUS
<1> USE NoRowIsRow, DomainsAssumption
<1>1. ASSUME NEW c \in Callers, Begins(c) PROVE OwnInv'
  <2>1. PICK to \in Phases \ {"idle", "creating", "activating"} :
          Call(c, to) /\ (to = "locating" <=> row = NoRow)
    BY <1>1, CallFacts DEF Phases
  <2> QED BY <2>1 DEF TypeOK, OwnInv, Call, Goto, Hold
<1>2. ASSUME NEW c \in Callers, Locate(c) PROVE OwnInv'
  <2>1. \A z \in BOOLEAN :
          LET r == [NoRow EXCEPT !.zone = z]
          IN  r.id = 0 /\ r.rec = NoRec /\ r.status = "pending"
    BY DEF NoRow
  <2>2. unused \subseteq Recs /\ ids \in Nat
    BY DEF TypeOK
  <2> QED BY <1>2, <2>1, <2>2 DEF TypeOK, OwnInv, Locate, Remote, Goto, Hold
<1>3. ASSUME NEW c \in Callers, Create(c) PROVE OwnInv'
  <2> DEFINE new == [held[c] EXCEPT !.id = ids + 1]
  <2>1. new.id = ids + 1 /\ new.rec = held[c].rec /\ new.status = held[c].status
    BY DEF TypeOK, Rows
  <2>7. /\ held[c].id <= ids /\ ids \in Nat
        /\ \/ row' = new /\ ids' = ids + 1
           \/ UNCHANGED <<row, ids>>
    BY <1>3 DEF TypeOK, OwnInv, Create, Throws
  <2> HIDE DEF new
  <2>2. held[c].rec = NoRec /\ held[c].status = "pending"
    BY <1>3 DEF OwnInv, Create
  <2>3. /\ ids' \in Nat /\ ids <= ids' /\ row'.id <= ids'
        /\ row' = row \/ row'.id # 0
    BY <2>1, <2>7 DEF OwnInv
  <2>4. row' = row \/ (row'.rec = NoRec /\ row'.status = "pending")
    <3>1. CASE row' = new
      BY <2>1, <2>2, <3>1
    <3> QED BY <2>7, <3>1
  <2>5. \A d \in Callers : held[d].id \in Nat /\ held'[d].id <= ids'
    BY <1>3, <2>3 DEF TypeOK, OwnInv, Create, Over, Hold, Rows
  <2>6. UNCHANGED unused /\ unused \subseteq Recs
    BY <1>3 DEF TypeOK, Create
  <2> QED
    BY <1>3, <2>3, <2>4, <2>5, <2>6 DEF TypeOK, OwnInv, Create, Over, Goto, Hold
<1>4. ASSUME NEW c \in Callers, NoZone(c) PROVE OwnInv'
  BY <1>4 DEF TypeOK, OwnInv, NoZone, Remote, Over, Goto, Hold
<1>5. ASSUME NEW c \in Callers, Point(c) PROVE OwnInv'
  <2>1. CASE Over(c)
    <3>1. /\ unused' \subseteq unused /\ UNCHANGED <<row, ids>>
          /\ phase[c] = "pointing"
      BY <1>5 DEF Point, Remote, Throws
    <3>2. /\ held'[c] = NoRow /\ phase'[c] = "idle"
          /\ \A d \in Callers \ {c} : held'[d] = held[d] /\ phase'[d] = phase[d]
      BY <2>1 DEF TypeOK, Over, Goto, Hold
    <3>3. NoRec \notin unused' /\ 0 <= ids
      BY <3>1 DEF TypeOK
    <3> QED BY <3>1, <3>2, <3>3 DEF OwnInv
  <2>2. CASE Goto(c, "activating") /\ held[c].rec \in dns /\ UNCHANGED <<held, unused>>
    BY <1>5, <2>2 DEF TypeOK, OwnInv, Point, Remote, Goto
  <2>3. ASSUME NEW r \in unused, unused' = unused \ {r}, Goto(c, "activating"),
               Hold(c, [held[c] EXCEPT !.rec = r])
        PROVE  OwnInv'
    <3>1. LET n == [held[c] EXCEPT !.rec = r]
          IN  n.rec = r /\ n.id = held[c].id
      BY DEF TypeOK, Rows
    <3>2. r \in Recs /\ r # NoRec /\ unused \subseteq Recs
      BY DEF TypeOK
    <3>3. /\ held'[c].rec = r /\ held'[c].id = held[c].id
          /\ \A d \in Callers \ {c} : held'[d] = held[d]
          /\ \A d \in Callers : phase'[d] = IF d = c THEN "activating" ELSE phase[d]
      BY <2>3, <3>1 DEF TypeOK, Goto, Hold
    <3>4. phase[c] = "pointing" /\ UNCHANGED <<row, ids>>
      BY <1>5 DEF Point, Remote
    <3> QED BY <2>3, <3>2, <3>3, <3>4 DEF OwnInv
  <2> QED BY <1>5, <2>1, <2>2, <2>3 DEF Point
<1>6. ASSUME NEW c \in Callers, Unpoint(c) PROVE OwnInv'
  BY <1>6 DEF TypeOK, OwnInv, Unpoint, Remote, Goto
<1>7. ASSUME NEW c \in Callers, NEW r, AnUpdate(c, r) PROVE OwnInv'
  <2>1. row' = row \/ (row' = r /\ held[c].id = row.id)
    BY <1>7, UpdateFacts
  <2>2. /\ \A d \in Callers :
             \/ held'[d] = held[d] /\ (phase'[d] = phase[d] \/ d = c)
             \/ held'[d] = NoRow /\ phase'[d] = "idle"
        /\ phase'[c] \in {"resolving", "pointing", "idle"}
        /\ phase'[c] = "idle" => held'[c] = NoRow
        /\ phase[c] \notin {"idle", "locating", "creating"}
        /\ UNCHANGED <<ids, unused>>
    BY <1>7, UpdateFacts
  <2>3. /\ row'.id <= ids
        /\ row'.id = 0 => row' = NoRow
        /\ row'.status = "active" => row'.rec \in Recs
        /\ row'.rec \in Recs => row'.zone
        /\ row'.rec \notin unused
        /\ \A d \in Callers :
             held[d].rec \in Recs /\ held[d].rec = row'.rec => held[d].id = row'.id
    <3>1. CASE row' = row
      BY <3>1 DEF OwnInv
    <3>2. CASE row' = r /\ held[c].id = row.id
      <4>1. NoRow.id <= ids /\ NoRec \notin unused
        BY DEF TypeOK
      <4>2. Change(c, r)
        BY <1>7 DEF AnUpdate
      <4>3. CASE r = NoRow
        BY <3>2, <4>1, <4>3
      <4>4. CASE r # NoRow /\ phase[c] = "activating"
        BY <3>2, <4>2, <4>4, ChangeFacts DEF OwnInv
      <4>5. CASE r # NoRow /\ phase[c] \notin {"activating", "dropping"}
        <5>1. r.id = row.id /\ r.rec = row.rec
          BY <4>2, <4>5, ChangeFacts
        <5>2. r.status = "active" => row.status = "active"
          BY <4>2, <4>5, ChangeFacts
        <5>3. row.zone => r.zone
          BY <4>2, <4>5, <5>1, ChangeFacts
        <5>4. row.id # 0
          BY <4>2, <3>2 DEF OwnInv, Change
        <5> QED BY <3>2, <5>1, <5>2, <5>3, <5>4 DEF OwnInv
      <4>6. phase[c] = "dropping" => r = NoRow
        BY <4>2, ChangeFacts
      <4> QED BY <4>3, <4>4, <4>5, <4>6
    <3> QED BY <2>1, <3>1, <3>2
  <2>4. NoRow.id <= ids /\ NoRec \notin unused
    BY DEF TypeOK
  <2> QED BY <2>2, <2>3, <2>4 DEF OwnInv
<1>8. CASE Crash
  <2>1. NoRow.id <= ids /\ NoRec \notin unused
    BY DEF TypeOK
  <2> QED BY <1>8, <2>1 DEF OwnInv, Crash, Remote
<1>9. CASE UNCHANGED vars
  BY <1>9 DEF OwnInv, vars
<1> QED
  BY <1>1, <1>2, <1>3, <1>4, <1>5, <1>6, <1>7, <1>8, <1>9, Cases

LEMMA ServedStep == TypeOK /\ OwnInv /\ ServedInv /\ [Next]_vars => ServedInv'
<1> SUFFICES ASSUME TypeOK, OwnInv, ServedInv, [Next]_vars PROVE ServedInv'
  OBVIOUS
<1> USE NoRowIsRow, DomainsAssumption
<1>1. ASSUME NEW c \in Callers, Begins(c) PROVE ServedInv'
  <2>1. PICK to \in Phases \ {"activating"} : Call(c, to)
    BY <1>1, CallFacts DEF Phases
  <2> QED BY <2>1 DEF TypeOK, ServedInv, Call, Goto, Hold
<1>2. ASSUME NEW c \in Callers, Locate(c) PROVE ServedInv'
  BY <1>2 DEF TypeOK, ServedInv, Locate, Remote, Goto, Hold
<1>3. ASSUME NEW c \in Callers, Create(c) PROVE ServedInv'
  <2>1. UNCHANGED dns
        /\ \A d \in Callers : phase'[d] = "activating" =>
             phase[d] = "activating" /\ held'[d] = held[d]
    BY <1>3 DEF TypeOK, Create, Over, Goto, Hold
  <2>2. CASE UNCHANGED <<row, cut>>
    BY <2>1, <2>2 DEF ServedInv
  <2>3. CASE row' = [held[c] EXCEPT !.id = ids + 1]
    <3>1. /\ row'.id = ids + 1 /\ row'.rec = held[c].rec
          /\ \A d \in Callers : held[d].id <= ids /\ held[d].id \in Nat
      BY <2>3 DEF TypeOK, OwnInv, Rows
    <3>2. held[c].rec = NoRec /\ ids \in Nat
      BY <1>3 DEF OwnInv, Create, TypeOK
    <3>3. \A d \in Callers : held[d].id # row'.id
      BY <3>1, <3>2
    <3> QED BY <2>1, <3>1, <3>2, <3>3 DEF ServedInv
  <2> QED BY <1>3, <2>2, <2>3 DEF Create
<1>4. ASSUME NEW c \in Callers, NoZone(c) PROVE ServedInv'
  BY <1>4 DEF TypeOK, ServedInv, NoZone, Remote, Over, Goto, Hold
<1>5. ASSUME NEW c \in Callers, Point(c) PROVE ServedInv'
  <2>1. UNCHANGED <<row, cut>> /\ dns \subseteq dns'
    BY <1>5 DEF Point, Remote, Throws
  <2>2. \A d \in Callers \ {c} : held'[d] = held[d] /\ phase'[d] = phase[d]
    BY <1>5 DEF TypeOK, Point, Over, Goto, Hold
  <2>3. phase'[c] = "activating" => held'[c].rec \in dns'
    <3>1. CASE Over(c)
      BY <3>1 DEF TypeOK, Over, Goto
    <3>2. CASE held[c].rec \in dns /\ UNCHANGED <<held, dns>>
      BY <3>2
    <3>3. ASSUME NEW r \in unused, dns' = dns \cup {r},
                 Hold(c, [held[c] EXCEPT !.rec = r])
          PROVE  held'[c].rec \in dns'
      <4>1. held[c] \in Rows /\ held'[c] = [held[c] EXCEPT !.rec = r]
        BY <3>3 DEF TypeOK, Hold
      <4> QED BY <3>3, <4>1 DEF Rows
    <3> QED BY <1>5, <3>1, <3>2, <3>3 DEF Point
  <2> QED BY <2>1, <2>2, <2>3 DEF ServedInv
<1>6. ASSUME NEW c \in Callers, Unpoint(c) PROVE ServedInv'
  <2>1. /\ UNCHANGED <<row, held>> /\ phase[c] = "unpointing"
        /\ \A d \in Callers : phase'[d] = IF d = c THEN "dropping" ELSE phase[d]
    BY <1>6 DEF TypeOK, Unpoint, Remote, Goto
  <2>2. CASE UNCHANGED <<dns, cut>>
    BY <2>1, <2>2 DEF ServedInv
  <2>3. CASE dns' = dns \ {held[c].rec} /\ cut' = (cut \/ held[c].id = row.id)
    <3>1. CASE held[c].id = row.id
      BY <2>3, <3>1 DEF ServedInv
    <3>2. CASE held[c].id # row.id
      <4>1. cut' = cut
        BY <2>3, <3>2 DEF TypeOK
      <4>2. row.rec \in Recs => row.rec # held[c].rec
        BY <3>2 DEF OwnInv
      <4>3. \A d \in Callers : phase[d] = "activating" /\ held[d].id = row.id
                                 => held[d].rec # held[c].rec
        BY <3>2 DEF OwnInv
      <4> QED BY <2>1, <2>3, <4>1, <4>2, <4>3 DEF ServedInv
    <3> QED BY <3>1, <3>2
  <2> QED BY <1>6, <2>2, <2>3 DEF Unpoint
<1>7. ASSUME NEW c \in Callers, NEW r, AnUpdate(c, r) PROVE ServedInv'
  <2>1. /\ UNCHANGED <<dns, cut>>
        /\ row' = row \/ (row' = r /\ held[c].id = row.id)
        /\ \A d \in Callers : phase'[d] = "activating" =>
             phase[d] = "activating" /\ held'[d] = held[d]
    BY <1>7, UpdateFacts
  <2>2. CASE row' = row
    BY <2>1, <2>2 DEF ServedInv
  <2>3. CASE row' = r /\ held[c].id = row.id
    <3>1. Change(c, r)
      BY <1>7 DEF AnUpdate
    <3>2. row'.rec \in Recs =>
            \/ row'.rec = row.rec
            \/ phase[c] = "activating" /\ row'.rec = held[c].rec
      BY <2>3, <3>1, ChangeFacts
    <3>3. \A d \in Callers :
            phase[d] = "activating" /\ held[d].id = row'.id => held[d].id = row.id
      BY <2>3, <3>1, ChangeFacts DEF OwnInv
    <3> QED BY <2>1, <2>3, <3>2, <3>3 DEF ServedInv
  <2> QED BY <2>1, <2>2, <2>3
<1>8. CASE Crash
  BY <1>8 DEF ServedInv, Crash, Remote
<1>9. CASE UNCHANGED vars
  BY <1>9 DEF ServedInv, vars
<1> QED
  BY <1>1, <1>2, <1>3, <1>4, <1>5, <1>6, <1>7, <1>8, <1>9, Cases

\* A caller that works is alone, so only its own read has to be kept.
LEMMA Alone ==
  ASSUME TypeOK, SerialInv, ~ overlap, overlap' = overlap, NEW c \in Callers,
         \A d \in Callers \ {c} : phase[d] = "idle" /\ phase'[d] = "idle",
         ReadOf(c)'
  PROVE  SerialInv'
<1>1. \A d \in Callers \ {c} : ReadOf(d)'
  BY DEF ReadOf
<1> QED BY <1>1 DEF SerialInv

LEMMA SerialStep == TypeOK /\ OwnInv /\ SerialInv /\ [Next]_vars => SerialInv'
<1> SUFFICES ASSUME TypeOK, OwnInv, SerialInv, [Next]_vars PROVE SerialInv'
  OBVIOUS
<1> USE NoRowIsRow, DomainsAssumption
<1>1. overlap' = overlap
  BY DEF Next, Begins, Works, Crash, Add, Verify, Configure, Remove, Call,
         Locate, Create, Mark, Resolve, NoZone, SaveZone, Point, Activate,
         Unpoint, Drop, Update, Remote, vars
<1>2. CASE overlap
  BY <1>1, <1>2 DEF SerialInv
<1>3. ASSUME ~ overlap, NEW c \in Callers, Begins(c) PROVE SerialInv'
  <2>1. PICK to \in {"locating", "marking", "pointing", "zoning", "unpointing",
                     "dropping"} :
          Call(c, to) /\ (to = "marking" => row.status # "active")
    BY <1>3, CallFacts
  <2>2. \A d \in Callers \ {c} : phase[d] = "idle" /\ phase'[d] = "idle"
    BY <1>3, <2>1 DEF TypeOK, Call, Goto
  <2>3. held'[c] = row /\ phase'[c] = to /\ row' = row
    BY <2>1 DEF TypeOK, Call, Goto, Hold
  <2>4. ReadOf(c)'
    BY <2>1, <2>3 DEF ReadOf
  <2> QED BY <1>1, <1>3, <2>2, <2>4, Alone
<1>4. ASSUME ~ overlap, NEW c \in Callers, phase[c] # "idle",
             \A d \in Callers \ {c} : phase'[d] = phase[d], ReadOf(c)'
      PROVE  SerialInv'
  <2>1. \A d \in Callers \ {c} : phase[d] = "idle" /\ phase'[d] = "idle"
    BY <1>4 DEF SerialInv
  <2> QED BY <1>1, <1>4, <2>1, Alone
<1>5. ASSUME ~ overlap, NEW c \in Callers, Locate(c) \/ Create(c) \/ NoZone(c)
      PROVE  SerialInv'
  <2>1. phase'[c] \in {"creating", "idle"}
        /\ \A d \in Callers \ {c} : phase'[d] = phase[d]
    BY <1>5 DEF TypeOK, Locate, Create, NoZone, Over, Goto
  <2>2. ReadOf(c)'
    BY <2>1 DEF ReadOf
  <2>3. phase[c] # "idle"
    BY <1>5 DEF Locate, Create, NoZone
  <2> QED BY <1>4, <1>5, <2>1, <2>2, <2>3
<1>6. ASSUME ~ overlap, NEW c \in Callers, Point(c) PROVE SerialInv'
  <2>1. /\ \A d \in Callers \ {c} : phase'[d] = phase[d]
        /\ phase[c] = "pointing" /\ row' = row
    BY <1>6 DEF TypeOK, Point, Remote, Over, Goto
  <2>2. phase'[c] = "idle" \/ phase'[c] = "activating"
    BY <1>6 DEF TypeOK, Point, Over, Goto
  <2>3. held[c].id = row.id /\ held[c].rec = row.rec
    BY <1>6, <2>1 DEF SerialInv, ReadOf
  <2>4. phase'[c] = "activating" =>
          held'[c].id = row.id /\ row.rec \in {NoRec, held'[c].rec}
    <3>1. CASE Over(c)
      BY <3>1 DEF TypeOK, Over, Goto
    <3>2. CASE UNCHANGED held
      BY <2>3, <3>2
    <3>3. ASSUME NEW r \in unused, held[c].rec = NoRec,
                 Hold(c, [held[c] EXCEPT !.rec = r])
          PROVE  held'[c].id = row.id /\ row.rec \in {NoRec, held'[c].rec}
      <4>1. held[c] \in Rows /\ held'[c] = [held[c] EXCEPT !.rec = r]
        BY <3>3 DEF TypeOK, Hold
      <4> QED BY <2>3, <3>3, <4>1 DEF Rows
    <3> QED BY <1>6, <3>1, <3>2, <3>3 DEF Point
  <2>5. ReadOf(c)'
    BY <2>1, <2>2, <2>4 DEF ReadOf
  <2> QED BY <1>4, <1>6, <2>1, <2>5
<1>7. ASSUME ~ overlap, NEW c \in Callers, Unpoint(c) PROVE SerialInv'
  <2>1. /\ \A d \in Callers \ {c} : phase'[d] = phase[d]
        /\ phase[c] = "unpointing" /\ phase'[c] = "dropping"
        /\ UNCHANGED <<row, held>>
    BY <1>7 DEF TypeOK, Unpoint, Remote, Goto
  <2>2. ReadOf(c)'
    BY <1>7, <2>1 DEF SerialInv, ReadOf
  <2> QED BY <1>4, <1>7, <2>1, <2>2
<1>8. ASSUME ~ overlap, NEW c \in Callers, NEW r, AnUpdate(c, r) PROVE SerialInv'
  <2>1. phase[c] # "idle" /\ \A d \in Callers \ {c} : phase'[d] = phase[d]
    BY <1>8, UpdateFacts
  <2>2. CASE phase'[c] = "idle"
    <3>1. ReadOf(c)'
      BY <2>2 DEF ReadOf
    <3> QED BY <1>4, <1>8, <2>1, <3>1
  <2>3. CASE phase'[c] # "idle"
    <3>1. /\ held[c].id = row.id /\ row' = r /\ phase'[c] = Follows(c)
          /\ Change(c, r)
      BY <1>8, <2>3 DEF TypeOK, AnUpdate, Update, Over, Goto
    <3>2. held'[c] = held[c]
      BY <1>8, <2>3, UpdateFacts
    <3>3. \/ phase[c] = "marking" /\ phase'[c] = "resolving"
          \/ phase[c] = "zoning" /\ phase'[c] = "pointing"
      BY <2>3, <3>1 DEF Follows
    <3>4. r.id = row.id /\ r.rec = row.rec
      BY <3>1, <3>3 DEF Change, TypeOK, Rows
    <3>5. phase[c] = "marking" => r.status # "active"
      BY <3>1, <3>3, ChangeFacts
    <3>6. held[c].rec = row.rec
      BY <1>8, <3>3 DEF SerialInv, ReadOf
    <3>7. ReadOf(c)'
      BY <3>1, <3>2, <3>3, <3>4, <3>5, <3>6 DEF ReadOf
    <3> QED BY <1>4, <1>8, <2>1, <3>7
  <2> QED BY <2>2, <2>3
<1>9. CASE Crash
  BY <1>1, <1>9 DEF Crash, SerialInv, ReadOf
<1>10. CASE UNCHANGED vars
  BY <1>10 DEF vars, SerialInv, ReadOf
<1> QED
  BY <1>2, <1>3, <1>5, <1>6, <1>7, <1>8, <1>9, <1>10, Cases

-----------------------------------------------------------------------------
THEOREM Invariance == Spec => []SafeInv
<1>1. Init => SafeInv
  BY InitInv
<1>2. SafeInv /\ [Next]_vars => SafeInv'
  BY TypeStep, OwnStep, ServedStep, SerialStep DEF SafeInv
<1> QED BY <1>1, <1>2, PTL DEF Spec

\* Every variable keeps its type.
THEOREM TypeCorrect == Spec => []TypeOK
<1>1. SafeInv => TypeOK
  BY DEF SafeInv
<1> QED BY <1>1, Invariance, PTL

\* An active domain's record is at Cloudflare, however the calls overlap.
THEOREM ServedCorrect == Spec => []ActiveIsServed
<1>1. SafeInv => ActiveIsServed
  BY DEF SafeInv, OwnInv, ServedInv, ActiveIsServed
<1> QED BY <1>1, Invariance, PTL

\* Without overlap an active domain stays so until it is removed.
THEOREM StaysCorrect == Spec => ActiveStays
<1> DEFINE Stays == ~ overlap /\ row.status = "active" =>
                      row'.status = "active" \/ row'.id # row.id
<1>1. SafeInv /\ [Next]_vars => Stays
  <2> SUFFICES ASSUME SafeInv, [Next]_vars, ~ overlap, row.status = "active"
               PROVE  row'.status = "active" \/ row'.id # row.id
    OBVIOUS
  <2>1. TypeOK /\ OwnInv /\ SerialInv
    BY DEF SafeInv
  <2>2. ASSUME NEW c \in Callers, NEW r, AnUpdate(c, r)
        PROVE  row'.status = "active" \/ row'.id # row.id
    <3>1. Change(c, r) /\ row' \in {row, r}
      BY <2>1, <2>2, UpdateFacts DEF AnUpdate
    <3>2. phase[c] \notin {"marking", "resolving"}
      BY <2>1 DEF SerialInv, ReadOf
    <3>3. r.status = "active" \/ r = NoRow
      BY <2>1, <3>1, <3>2, ChangeFacts
    <3>4. row.id # 0
      BY <2>1, NoRowIsRow DEF OwnInv
    <3> QED BY <3>1, <3>3, <3>4, NoRowIsRow
  <2>3. ASSUME NEW c \in Callers, Create(c) PROVE row' = row
    BY <2>3, NoRowIsRow DEF Create
  <2>4. ASSUME NEW c \in Callers,
               Begins(c) \/ Locate(c) \/ NoZone(c) \/ Point(c) \/ Unpoint(c)
        PROVE  row' = row
    BY <2>4 DEF Begins, Add, Verify, Configure, Remove, Call, Locate, NoZone,
                Point, Unpoint, Remote
  <2>5. CASE Crash \/ UNCHANGED vars
    BY <2>5 DEF Crash, Remote, vars
  <2> QED BY <2>2, <2>3, <2>4, <2>5, Cases
<1> QED BY <1>1, Invariance, PTL DEF Spec, ActiveStays

-----------------------------------------------------------------------------
(***************************************************************************)
(* Without overlap: what is lost, and when.                                *)
(***************************************************************************)
IsLost(r, c) == /\ r \in dns
                /\ \/ r \notin {row.rec, held[c].rec}
                   \/ phase[c] = "dropping" /\ r = row.rec

Rest(c) == \A d \in Callers \ {c} : phase[d] = "idle"

LEMMA LostBefore ==
  ASSUME TypeOK, OwnInv, NEW c \in Callers, Rest(c)
  PROVE  \A r : r \in Lost <=> IsLost(r, c)
<1>1. \A d \in Callers \ {c} : held[d].rec = NoRec /\ phase[d] # "dropping"
  BY DEF OwnInv, Rest
<1>2. NoRec \notin dns
  BY DomainsAssumption DEF TypeOK
<1>3. \A r : r \in Known \/ r = NoRec <=> r \in {row.rec, held[c].rec, NoRec}
  BY <1>1 DEF Known
<1>4. \A r : r \in Doomed <=> phase[c] = "dropping" /\ r = row.rec
  BY <1>1 DEF Doomed
<1> QED BY <1>2, <1>3, <1>4 DEF Lost, IsLost

LEMMA LostAfter ==
  ASSUME TypeOK', OwnInv', NEW c \in Callers, Rest(c)'
  PROVE  \A r : r \in Lost' <=> IsLost(r, c)'
<1>1. \A d \in Callers \ {c} : held'[d].rec = NoRec /\ phase'[d] # "dropping"
  BY DEF OwnInv, Rest
<1>2. NoRec \notin dns'
  BY DomainsAssumption DEF TypeOK
<1>3. \A r : r \in Known' \/ r = NoRec <=> r \in {row'.rec, held'[c].rec, NoRec}
  BY <1>1 DEF Known
<1>4. \A r : r \in Doomed' <=> phase'[c] = "dropping" /\ r = row'.rec
  BY <1>1 DEF Doomed
<1> QED BY <1>2, <1>3, <1>4 DEF Lost, IsLost

\* A step loses nothing, or it is a failure and loses one record.
Losing(x) == /\ dns' \subseteq dns \cup {x}
             /\ Lost' \subseteq Lost \cup {x}
             /\ (Lost' \subseteq Lost /\ faults' = faults) \/ Throws

LEMMA LosingStep ==
  ASSUME LostInv, TypeOK, ~ overlap, overlap' = overlap, NEW x, Losing(x)
  PROVE  LostInv'
<1>1. IsFiniteSet(dns') /\ IsFiniteSet(Lost)
  <2>1. IsFiniteSet(dns \cup {x})
    BY FS_AddElement DEF LostInv
  <2>2. Lost \subseteq dns
    BY DEF Lost
  <2> QED BY <2>1, <2>2, FS_Subset DEF Losing, LostInv
<1>2. /\ Cardinality(Lost) \in Nat /\ Cardinality(Lost) <= MaxFaults - faults
      /\ faults \in Nat /\ MaxFaults \in Nat /\ faults <= MaxFaults
  BY <1>1, FS_CardinalityType, DomainsAssumption DEF LostInv, TypeOK
<1>3. CASE Lost' \subseteq Lost /\ faults' = faults
  <2>1. IsFiniteSet(Lost') /\ Cardinality(Lost') <= Cardinality(Lost)
    BY <1>1, <1>3, FS_Subset
  <2>2. Cardinality(Lost') \in Nat
    BY <2>1, FS_CardinalityType
  <2>3. Cardinality(Lost') <= MaxFaults - faults'
    BY <1>2, <1>3, <2>1, <2>2
  <2> QED BY <1>1, <1>2, <1>3, <2>3 DEF LostInv
<1>4. CASE Throws
  <2>1. IsFiniteSet(Lost \cup {x})
        /\ Cardinality(Lost \cup {x}) <= Cardinality(Lost) + 1
    BY <1>1, <1>2, FS_AddElement
  <2>2. IsFiniteSet(Lost') /\ Cardinality(Lost') <= Cardinality(Lost \cup {x})
    BY <2>1, FS_Subset DEF Losing
  <2>3. Cardinality(Lost') \in Nat /\ Cardinality(Lost \cup {x}) \in Nat
    BY <2>1, <2>2, FS_CardinalityType
  <2>4. faults > 0 /\ faults' = faults - 1
    BY <1>4 DEF Throws
  <2>5. Cardinality(Lost') <= MaxFaults - faults' /\ faults' <= MaxFaults
    BY <1>2, <2>1, <2>2, <2>3, <2>4
  <2> QED BY <1>1, <2>5 DEF LostInv
<1> QED BY <1>3, <1>4 DEF Losing

LEMMA LostStep == SafeInv /\ SafeInv' /\ LostInv /\ [Next]_vars => LostInv'
<1> SUFFICES ASSUME SafeInv, SafeInv', LostInv, [Next]_vars PROVE LostInv'
  OBVIOUS
<1>1. /\ TypeOK /\ OwnInv /\ SerialInv /\ TypeOK' /\ OwnInv' /\ SerialInv'
      /\ NoRec \notin dns /\ NoRec \notin dns'
  BY DomainsAssumption DEF SafeInv, TypeOK
<1>2. overlap' = overlap
  BY DEF Next, Begins, Works, Crash, Add, Verify, Configure, Remove, Call,
         Locate, Create, Mark, Resolve, NoZone, SaveZone, Point, Activate,
         Unpoint, Drop, Update, Remote, vars
<1>3. CASE overlap
  BY <1>2, <1>3 DEF LostInv
<1>4. CASE UNCHANGED vars
  <2>1. Lost' = Lost
    BY <1>4 DEF vars, Lost, Known, Doomed
  <2> QED BY <1>4, <2>1 DEF LostInv, vars
<1>5. CASE ~ overlap /\ Crash
  <2>1. \A r : r \in Lost' => r \in dns /\ r # row.rec
    BY <1>5 DEF Crash, Remote, Lost, Known, Doomed
  <2>2. CASE \E c \in Callers : phase[c] # "idle"
    <3>1. PICK c \in Callers : phase[c] # "idle"
      BY <2>2
    <3>2. Rest(c)
      BY <1>1, <1>5, <3>1 DEF SerialInv, Rest
    <3>3. \A r : r \in Lost' => r \in Lost \/ r = held[c].rec
      BY <1>1, <2>1, <3>2, LostBefore DEF IsLost
    <3>4. Losing(held[c].rec)
      BY <1>5, <3>3 DEF Losing, Crash
    <3> QED BY <1>1, <1>2, <1>5, <3>4, LosingStep
  <2>3. CASE \A c \in Callers : phase[c] = "idle"
    <3>1. \A c \in Callers : held[c].rec = NoRec
      BY <1>1, <2>3 DEF OwnInv
    <3>2. \A r : r \in Lost' => r \in Lost
      BY <1>1, <2>1, <3>1 DEF Lost, Known
    <3>3. Losing(NoRec)
      BY <1>5, <3>2 DEF Losing, Crash
    <3> QED BY <1>1, <1>2, <1>5, <3>3, LosingStep
  <2> QED BY <2>2, <2>3
<1>6. ASSUME ~ overlap, NEW c \in Callers, NEW x, Rest(c), Rest(c)',
             dns' \subseteq dns \cup {x},
             \/ faults' = faults /\ \A r : IsLost(r, c)' => IsLost(r, c)
             \/ Throws /\ \A r : IsLost(r, c)' => IsLost(r, c) \/ r = x
      PROVE  LostInv'
  <2>1. \A r : r \in Lost <=> IsLost(r, c)
    BY <1>1, <1>6, LostBefore
  <2>2. \A r : r \in Lost' <=> IsLost(r, c)'
    BY <1>1, <1>6, LostAfter
  <2>3. Losing(x)
    BY <1>6, <2>1, <2>2 DEF Losing
  <2> QED BY <1>1, <1>2, <1>6, <2>3, LosingStep
<1>7. ASSUME ~ overlap, NEW c \in Callers, Begins(c) PROVE LostInv'
  <2>1. PICK to : Call(c, to) /\ (to = "dropping" => row.rec = NoRec)
    BY <1>1, <1>7, CallFacts
  <2>2. Rest(c) /\ Rest(c)'
    BY <1>1, <1>7, <2>1 DEF TypeOK, Rest, Call, Goto
  <2>3. /\ held[c].rec = NoRec /\ held'[c] = row /\ phase'[c] = to
        /\ UNCHANGED <<row, dns, faults>>
    BY <1>1, <2>1 DEF TypeOK, OwnInv, Call, Goto, Hold
  <2>4. \A r : IsLost(r, c)' => IsLost(r, c)
    BY <1>1, <2>1, <2>3 DEF IsLost
  <2> QED BY <1>6, <1>7, <2>2, <2>3, <2>4
<1>8. ASSUME ~ overlap, NEW c \in Callers, phase[c] # "idle",
             \A d \in Callers \ {c} : phase'[d] = phase[d]
      PROVE  Rest(c) /\ Rest(c)'
  BY <1>1, <1>8 DEF SerialInv, Rest
<1>9. ASSUME ~ overlap, NEW c \in Callers, Locate(c) \/ Create(c) \/ NoZone(c)
      PROVE  LostInv'
  <2>1. /\ \A d \in Callers \ {c} : phase'[d] = phase[d]
        /\ phase[c] # "idle" /\ phase'[c] \in {"idle", "creating"}
        /\ UNCHANGED dns
    BY <1>1, <1>9 DEF TypeOK, Locate, Create, NoZone, Over, Goto
  <2>2. Rest(c) /\ Rest(c)'
    BY <1>8, <1>9, <2>1
  <2>3. faults' = faults \/ Throws
    BY <1>9 DEF Locate, Create, NoZone
  <2>4. held[c].rec \in {row.rec, NoRec}
    BY <1>1, <1>9 DEF OwnInv, SerialInv, ReadOf, Locate, Create, NoZone
  <2>5. row'.rec = row.rec
    <3>1. CASE Create(c) /\ row' # row
      <4>1. held[c] \in Rows /\ row' = [held[c] EXCEPT !.id = ids + 1]
            /\ row.rec = NoRec /\ held[c].rec = NoRec
        BY <1>1, <3>1, NoRowIsRow DEF Create, TypeOK, OwnInv
      <4> QED BY <4>1 DEF Rows
    <3> QED BY <1>9, <3>1 DEF Locate, NoZone, Remote
  <2>6. \A r : IsLost(r, c)' => IsLost(r, c)
    BY <1>1, <2>1, <2>4, <2>5 DEF IsLost
  <2> QED BY <1>6, <1>9, <2>1, <2>2, <2>3, <2>6
<1>10. ASSUME ~ overlap, NEW c \in Callers, Point(c) PROVE LostInv'
  <2>1. /\ \A d \in Callers \ {c} : phase'[d] = phase[d]
        /\ phase[c] = "pointing" /\ row' = row
        /\ phase'[c] \in {"idle", "activating"}
    BY <1>1, <1>10 DEF TypeOK, Point, Remote, Over, Goto
  <2>2. Rest(c) /\ Rest(c)'
    BY <1>8, <1>10, <2>1
  <2>3. held[c].rec = row.rec
    BY <1>1, <1>10, <2>1 DEF SerialInv, ReadOf
  <2>4. CASE UNCHANGED dns
    <3>1. \A r : IsLost(r, c)' => IsLost(r, c)
      BY <2>1, <2>3, <2>4 DEF IsLost
    <3>2. faults' = faults \/ Throws
      BY <1>10 DEF Point
    <3> QED BY <1>6, <1>10, <2>2, <2>4, <3>1, <3>2
  <2>5. ASSUME NEW x \in unused, dns' = dns \cup {x},
               \/ Hold(c, [held[c] EXCEPT !.rec = x]) /\ UNCHANGED faults
               \/ Throws
        PROVE  LostInv'
    <3>1. CASE Throws
      <4>1. \A r : IsLost(r, c)' => IsLost(r, c) \/ r = x
        BY <2>1, <2>3, <2>5 DEF IsLost
      <4> QED BY <1>6, <1>10, <2>2, <2>5, <3>1, <4>1
    <3>2. CASE Hold(c, [held[c] EXCEPT !.rec = x]) /\ UNCHANGED faults
      <4>1. held[c] \in Rows /\ held'[c] = [held[c] EXCEPT !.rec = x]
        BY <1>1, <3>2 DEF TypeOK, Hold
      <4>2. held'[c].rec = x
        BY <4>1 DEF Rows
      <4>3. \A r : IsLost(r, c)' => IsLost(r, c)
        BY <2>1, <2>3, <2>5, <4>2 DEF IsLost
      <4> QED BY <1>6, <1>10, <2>2, <2>5, <3>2, <4>3
    <3> QED BY <2>5, <3>1, <3>2
  <2> QED BY <1>10, <2>4, <2>5 DEF Point
<1>11. ASSUME ~ overlap, NEW c \in Callers, Unpoint(c) PROVE LostInv'
  <2>1. /\ \A d \in Callers \ {c} : phase'[d] = phase[d]
        /\ phase[c] = "unpointing" /\ phase'[c] = "dropping"
        /\ UNCHANGED <<row, held>>
    BY <1>1, <1>11 DEF TypeOK, Unpoint, Remote, Goto
  <2>2. Rest(c) /\ Rest(c)'
    BY <1>8, <1>11, <2>1
  <2>3. held[c].rec = row.rec
    BY <1>1, <1>11, <2>1 DEF SerialInv, ReadOf
  <2>4. CASE dns' = dns \ {held[c].rec} /\ UNCHANGED faults
    <3>1. \A r : IsLost(r, c)' => IsLost(r, c)
      BY <2>1, <2>3, <2>4 DEF IsLost
    <3> QED BY <1>6, <1>11, <2>2, <2>4, <3>1
  <2>5. CASE Throws /\ UNCHANGED dns
    <3>1. \A r : IsLost(r, c)' => IsLost(r, c) \/ r = row.rec
      BY <2>1, <2>3, <2>5 DEF IsLost
    <3> QED BY <1>6, <1>11, <2>2, <2>5, <3>1
  <2> QED BY <1>11, <2>4, <2>5 DEF Unpoint
<1>12. ASSUME ~ overlap, NEW c \in Callers, NEW n, AnUpdate(c, n) PROVE LostInv'
  <2>1. /\ Change(c, n) /\ row' \in {row, n}
        /\ phase[c] \notin {"idle", "locating", "creating", "pointing", "unpointing"}
        /\ \A d \in Callers \ {c} : phase'[d] = phase[d]
        /\ \/ held'[c] = held[c] /\ phase'[c] \in {"resolving", "pointing"}
           \/ held'[c] = NoRow /\ phase'[c] = "idle"
        /\ UNCHANGED dns
        /\ faults' = faults \/ Throws
    BY <1>1, <1>12, UpdateFacts DEF AnUpdate
  <2>2. Rest(c) /\ Rest(c)'
    BY <1>8, <1>12, <2>1
  <2>3. ReadOf(c)
    BY <1>1, <1>12 DEF SerialInv
  <2>4. CASE phase[c] = "dropping"
    <3>1. \A r : IsLost(r, c)' => IsLost(r, c)
      BY <1>1, <2>1, <2>3, <2>4, ChangeFacts, NoRowIsRow DEF IsLost, ReadOf
    <3> QED BY <1>6, <1>12, <2>1, <2>2, <3>1
  <2>5. CASE phase[c] = "activating"
    <3>1. held[c].id = row.id
      BY <2>3, <2>5 DEF ReadOf
    <3>2. (row' = n /\ faults' = faults) \/ Throws
      BY <1>12, <3>1 DEF AnUpdate, Update
    <3>3. CASE row' = n /\ faults' = faults
      <4>1. row'.rec = held[c].rec /\ row.rec \in {NoRec, held[c].rec}
        BY <1>1, <2>1, <2>3, <2>5, <3>3, ChangeFacts DEF ReadOf
      <4>2. \A r : IsLost(r, c)' => IsLost(r, c)
        BY <1>1, <2>1, <4>1 DEF IsLost
      <4> QED BY <1>6, <1>12, <2>1, <2>2, <3>3, <4>2
    <3>4. CASE Throws
      <4>1. row.rec \in {NoRec, held[c].rec}
        BY <2>3, <2>5 DEF ReadOf
      <4>2. \A r : IsLost(r, c)' => IsLost(r, c) \/ r = held[c].rec
        BY <1>1, <2>1, <4>1 DEF IsLost
      <4> QED BY <1>6, <1>12, <2>1, <2>2, <3>4, <4>2
    <3> QED BY <3>2, <3>3, <3>4
  <2>6. CASE phase[c] \notin {"dropping", "activating"}
    <3>1. row'.rec = row.rec
      BY <1>1, <2>1, <2>6, ChangeFacts
    <3>2. held[c].rec = row.rec
      BY <2>1, <2>3, <2>6, <1>1, <1>12 DEF ReadOf, Change
    <3>3. \A r : IsLost(r, c)' => IsLost(r, c)
      BY <2>1, <3>1, <3>2 DEF IsLost
    <3> QED BY <1>6, <1>12, <2>1, <2>2, <3>3
  <2> QED BY <2>4, <2>5, <2>6
<1> QED
  BY <1>3, <1>4, <1>5, <1>7, <1>9, <1>10, <1>11, <1>12, Cases

\* Without overlap no failure or crash leaves more than one record behind.
THEOREM OrphansCorrect == Spec => []OrphansAreFaults
<1>1. Init => LostInv
  BY InitInv
<1>2. LostInv /\ SafeInv => OrphansAreFaults
  <2> SUFFICES ASSUME LostInv, SafeInv, ~ overlap
               PROVE  Cardinality(Orphans) <= MaxFaults - faults
    BY DEF OrphansAreFaults
  <2>1. IsFiniteSet(Lost)
    <3>1. Lost \subseteq dns
      BY DEF Lost
    <3> QED BY <3>1, FS_Subset DEF LostInv
  <2>2. Orphans \subseteq Lost
    BY DEF Orphans, Lost, Known
  <2>3. /\ IsFiniteSet(Orphans)
        /\ Cardinality(Orphans) <= Cardinality(Lost)
        /\ Cardinality(Lost) <= MaxFaults - faults
    BY <2>1, <2>2, FS_Subset DEF LostInv
  <2>4. /\ Cardinality(Orphans) \in Nat /\ Cardinality(Lost) \in Nat
        /\ MaxFaults \in Nat /\ faults \in Nat
    BY <2>1, <2>3, FS_CardinalityType, DomainsAssumption DEF SafeInv, TypeOK
  <2> QED BY <2>3, <2>4
<1> QED BY <1>1, <1>2, Invariance, LostStep, PTL DEF Spec
=============================================================================
