------------------------------ MODULE AccessProofs ------------------------------
(***************************************************************************)
(* Proofs about the parts that say who may do what: the license client,    *)
(* single sign-on and role based access control.                           *)
(***************************************************************************)
EXTENDS LicenseClient, SsoLogin, Rbac, FiniteSetTheorems, TLAPS

-----------------------------------------------------------------------------
(***************************************************************************)
(* The license, for any number of processes, keys and retries.             *)
(***************************************************************************)

\* An entry has the validation it was made of, and the moment it was made.
Timely(entry) ==
  /\ entry.timestamp = entry.result.came /\ entry.timestamp <= now
  /\ entry.until = entry.result.until

TimelyIn(entries) == \A k \in Keys : entries[k] # None => Timely(entries[k])

EntriesInv ==
  /\ TimelyIn(ReadAllCaches)
  /\ \A c \in Clients : Holds(c) => TimelyIn(client[c].held)

Writing == {"clear", "clearing", "set", "setting"}

HeldToWrite == \A c \in Clients : Holds(c) <=> client[c].phase \in Writing

Alone(c) == Holds(c) /\ \A d \in Clients \ {c} : ~Holds(d)

\* As long as nothing was disturbed, a client that alone holds the file holds
\* what was last set, and only it has emptied the file.
AloneInv ==
  ~disturbed =>
    /\ (\A c \in Clients : ~Holds(c)) => ReadAllCaches = latest
    /\ \A c \in Clients : Alone(c) =>
         /\ client[c].held = latest
         /\ client[c].phase \in {"clearing", "setting"} => file = Empty

LicenseInv ==
  TypeOK /\ EntriesInv /\ HeldToWrite /\ AloneInv /\ ServedInTime

ClientRecords ==
  [phase : Phases, call : {"none", "validate", "refresh"}, attempt : 0..(MaxRetries - 1),
   held : Files \cup {None}, last : Tellings \cup {None}]

THEOREM LicenseInitial == Init => LicenseInv
<1> SUFFICES ASSUME Init PROVE LicenseInv
  OBVIOUS
<1>1. Nothing \in Files /\ Nothing \notin {Empty, Garbled} /\ \A k \in Keys : Nothing[k] = None
  BY LicenseAssumption DEF Nothing, Files
<1>2. Idle \in ClientRecords /\ Idle.held = None /\ Idle.last = None /\ Idle.phase = "idle"
  BY LicenseAssumption DEF Idle, ClientRecords, Phases
<1>3. /\ now = 0 /\ file = Nothing /\ latest = Nothing /\ disturbed = FALSE
      /\ client \in [Clients -> ClientRecords] /\ \A c \in Clients : client[c] = Idle
  BY <1>2 DEF Init
<1>4. TypeOK
  <2>1. now \in 0..MaxTime /\ disturbed \in BOOLEAN /\ file \in Files /\ latest \in Files
    <3>1. 0 \in 0..MaxTime
      BY LicenseAssumption
    <3> QED
      BY <1>1, <1>3, <3>1
  <2> QED
    BY <1>3, <2>1 DEF TypeOK, ClientRecords
<1>5. ReadAllCaches = latest /\ TimelyIn(ReadAllCaches)
  BY <1>1, <1>3 DEF ReadAllCaches, TimelyIn
<1>6. \A c \in Clients : ~Holds(c) /\ client[c].phase \notin Writing /\ client[c].last = None
  BY <1>2, <1>3 DEF Holds, Writing
<1> QED
  BY <1>4, <1>5, <1>6 DEF LicenseInv, EntriesInv, HeldToWrite, AloneInv, Alone, ServedInTime

\* What is read of the file, and what is made of it.
LEMMA FileTypes ==
  ASSUME TypeOK
  PROVE  /\ ReadAllCaches \in Files
         /\ \A k \in Keys, entry \in Entries \cup {None} : WithEntry(k, entry) \in Files
         /\ \A k \in Keys : WithoutEntry(k) \in Files
         /\ \A k \in Keys : Get(k) \in Entries \cup {None} /\ GetWithGracePeriod(k) \in Entries \cup {None}
<1>1. ReadAllCaches \in Files
  BY DEF TypeOK, ReadAllCaches, Nothing, Files
<1> QED
  BY <1>1 DEF WithEntry, WithoutEntry, Get, GetWithGracePeriod, Files

\* The parts of a client.
LEMMA ClientTypes ==
  ASSUME TypeOK, NEW c \in Clients
  PROVE  /\ client[c] \in ClientRecords /\ KeyOf[c] \in Keys
         /\ now \in Nat /\ MaxTime \in Nat
  BY LicenseAssumption DEF TypeOK, ClientRecords

\* The entry that set makes of an answer.
EntryOf(until) ==
  [result |-> [came |-> now, until |-> until], timestamp |-> now, until |-> until]

LEMMA Answered ==
  ASSUME TypeOK, NEW c \in Clients, Answer(c)
  PROVE  \E until \in Nat \cup {None} :
           /\ EntryOf(until) \in Entries
           /\ client' = [client EXCEPT ![c].phase = "set", ![c].last = Told(EntryOf(until).result),
                                       ![c].held = WithEntry(KeyOf[c], EntryOf(until))]
           /\ latest' = [latest EXCEPT ![KeyOf[c]] = EntryOf(until)]
<1>1. PICK until \in {None} \cup {now + n : n \in Leases} :
        LET result == [came |-> now, until |-> until]
            entry == [result |-> result, timestamp |-> now, until |-> until]
        IN /\ client' = [client EXCEPT ![c].phase = "set", ![c].last = Told(result),
                                       ![c].held = WithEntry(KeyOf[c], entry)]
           /\ latest' = [latest EXCEPT ![KeyOf[c]] = entry]
  BY DEF Answer
<1>2. until \in Nat \cup {None} /\ now \in Nat
  BY ClientTypes, LicenseAssumption
<1>3. EntryOf(until) \in Entries /\ EntryOf(until).result = [came |-> now, until |-> until]
  BY <1>2 DEF EntryOf, Entries, Results
<1> QED
  BY <1>1, <1>2, <1>3 DEF EntryOf

\* A step of one client puts a client in its place.
Becomes(c, x) == client' = [client EXCEPT ![c] = x]

\* What a client is after each of its steps.
StepsTo(c, x) ==
  \/ Crash(c) /\ x.phase = "idle" /\ x.held = None /\ x.last = None
  \/ /\ ValidateCached(c) /\ x.phase = client[c].phase /\ x.held = client[c].held
     /\ Get(KeyOf[c]) # None /\ x.last = Told(Get(KeyOf[c]).result)
  \/ /\ Validate(c) \/ Retry(c)
     /\ client[c].phase \in {"idle", "asking"} /\ x.phase = "asking"
     /\ x.held = client[c].held /\ x.last = client[c].last
  \/ /\ Refresh(c) /\ x.phase = "clear"
     /\ x.held = WithoutEntry(KeyOf[c]) /\ x.last = client[c].last
  \/ /\ Answer(c) /\ x.phase = "set"
     /\ \E until \in Nat \cup {None} :
          /\ EntryOf(until) \in Entries
          /\ x.held = WithEntry(KeyOf[c], EntryOf(until))
          /\ x.last = Told(EntryOf(until).result)
          /\ latest' = [latest EXCEPT ![KeyOf[c]] = EntryOf(until)]
  \/ /\ GiveUp(c, TRUE) \/ GiveUp(c, FALSE) \/ NoContent(c)
     /\ x.phase = "idle" /\ x.held = None
     /\ \/ x.last \in {client[c].last, None}
        \/ /\ GetWithGracePeriod(KeyOf[c]) # None
           /\ x.last = Told(GetWithGracePeriod(KeyOf[c]).result)
  \/ /\ Truncate(c) /\ x.phase \in {"clearing", "setting"}
     /\ x.held = client[c].held /\ x.last = client[c].last
  \/ /\ Fill(c) \/ CannotWrite(c)
     /\ x.phase \in {"idle", "asking"} /\ x.held = None
     /\ x.last \in {client[c].last, None}

LEMMA ClientStep ==
  ASSUME TypeOK, NEW c \in Clients, Client(c)
  PROVE  \E x \in ClientRecords : Becomes(c, x) /\ StepsTo(c, x)
<1> DEFINE k == client[c]
<1>1. /\ k \in ClientRecords /\ KeyOf[c] \in Keys /\ now \in Nat /\ client \in [Clients -> ClientRecords]
      /\ Idle \in ClientRecords
  BY ClientTypes, LicenseAssumption DEF TypeOK, ClientRecords, Idle, Phases
<1>2. \A entry \in Entries : Told(entry.result) \in Tellings
  BY <1>1 DEF Told, Tellings, Entries
<1>3. CASE Crash(c)
  BY <1>1, <1>3 DEF Crash, Becomes, StepsTo, Idle
<1>4. CASE ValidateCached(c)
  <2> DEFINE told == Told(Get(KeyOf[c]).result)
             x == [k EXCEPT !.last = told]
  <2>1. Becomes(c, x) /\ Get(KeyOf[c]) # None
    BY <1>4 DEF ValidateCached, Becomes
  <2>2. told \in Tellings
    BY <1>1, <1>2, <2>1, FileTypes
  <2> HIDE DEF told
  <2>3. x \in ClientRecords /\ x.phase = k.phase /\ x.held = k.held /\ x.last = told
    BY <1>1, <2>2 DEF ClientRecords
  <2> HIDE DEF x
  <2> QED
    BY <1>4, <2>1, <2>3 DEF told, StepsTo
<1>5. CASE Validate(c)
  <2> DEFINE x == [k EXCEPT !.phase = "asking", !.call = "validate"]
  <2>1. Becomes(c, x) /\ k.phase = "idle"
    BY <1>5 DEF Validate, Becomes
  <2>2. x \in ClientRecords /\ x.phase = "asking" /\ x.held = k.held /\ x.last = k.last
    BY <1>1 DEF ClientRecords, Phases
  <2> HIDE DEF x
  <2> QED
    BY <1>5, <2>1, <2>2 DEF StepsTo
<1>6. CASE Refresh(c)
  <2> DEFINE held == WithoutEntry(KeyOf[c])
             x == [k EXCEPT !.phase = "clear", !.call = "refresh", !.held = held]
  <2>1. Becomes(c, x)
    BY <1>6 DEF Refresh, Becomes
  <2>2. held \in Files
    BY <1>1, FileTypes
  <2> HIDE DEF held
  <2>3. x \in ClientRecords /\ x.phase = "clear" /\ x.held = held /\ x.last = k.last
    BY <1>1, <2>2 DEF ClientRecords, Phases
  <2> HIDE DEF x
  <2> QED
    BY <1>6, <2>1, <2>3 DEF held, StepsTo
<1>7. CASE Answer(c)
  <2>1. PICK until \in Nat \cup {None} :
          /\ EntryOf(until) \in Entries
          /\ client' = [client EXCEPT ![c].phase = "set", ![c].last = Told(EntryOf(until).result),
                                      ![c].held = WithEntry(KeyOf[c], EntryOf(until))]
          /\ latest' = [latest EXCEPT ![KeyOf[c]] = EntryOf(until)]
    BY <1>7, Answered
  <2> DEFINE told == Told(EntryOf(until).result)
             held == WithEntry(KeyOf[c], EntryOf(until))
             x == [k EXCEPT !.phase = "set", !.last = told, !.held = held]
  <2>2. told \in Tellings /\ held \in Files
    BY <1>1, <1>2, <2>1, FileTypes
  <2>3. Becomes(c, x)
    BY <2>1 DEF Becomes
  <2> HIDE DEF told, held
  <2>4. x \in ClientRecords /\ x.phase = "set" /\ x.held = held /\ x.last = told
    BY <1>1, <2>2 DEF ClientRecords, Phases
  <2> HIDE DEF x
  <2> QED
    BY <1>7, <2>1, <2>3, <2>4 DEF told, held, StepsTo
<1>8. CASE Retry(c)
  <2> DEFINE n == k.attempt + 1
             x == [k EXCEPT !.attempt = n]
  <2>1. Becomes(c, x) /\ k.phase = "asking"
    BY <1>8 DEF Retry, Becomes
  <2>2. n \in 0..(MaxRetries - 1)
    BY <1>1, <1>8, LicenseAssumption DEF Retry, ClientRecords
  <2> HIDE DEF n
  <2>3. x \in ClientRecords /\ x.phase = "asking" /\ x.held = k.held /\ x.last = k.last
    BY <1>1, <2>1, <2>2 DEF ClientRecords
  <2> HIDE DEF x
  <2> QED
    BY <1>8, <2>1, <2>3 DEF StepsTo
<1>9. CASE GiveUp(c, TRUE) \/ GiveUp(c, FALSE) \/ NoContent(c)
  <2>0. PICK before \in {k.last, None} : FallBack(c, before)
    BY <1>9 DEF GiveUp, NoContent
  <2> DEFINE entry == IF k.call = "validate" THEN GetWithGracePeriod(KeyOf[c]) ELSE None
             last == IF entry = None THEN before ELSE Told(entry.result)
             x == [Idle EXCEPT !.last = last]
  <2>1. Becomes(c, x)
    BY <2>0 DEF FallBack, Becomes
  <2>2. entry \in Entries \cup {None}
    BY <1>1, FileTypes
  <2>3. last \in Tellings \cup {None}
    BY <1>1, <1>2, <2>2 DEF ClientRecords
  <2>4. \/ last \in {k.last, None}
        \/ GetWithGracePeriod(KeyOf[c]) # None /\ last = Told(GetWithGracePeriod(KeyOf[c]).result)
    OBVIOUS
  <2> HIDE DEF last
  <2>5. x \in ClientRecords /\ x.phase = "idle" /\ x.held = None /\ x.last = last
    BY <1>1, <2>3 DEF ClientRecords, Idle
  <2> HIDE DEF x
  <2> QED
    BY <1>9, <2>1, <2>4, <2>5 DEF StepsTo
<1>10. CASE Truncate(c)
  <2> DEFINE then == IF k.phase = "clear" THEN "clearing" ELSE "setting"
             x == [k EXCEPT !.phase = then]
  <2>1. Becomes(c, x)
    BY <1>10 DEF Truncate, Becomes
  <2>2. then \in {"clearing", "setting"}
    OBVIOUS
  <2> HIDE DEF then
  <2>3. x \in ClientRecords /\ x.phase \in {"clearing", "setting"} /\ x.held = k.held /\ x.last = k.last
    BY <1>1, <2>2 DEF ClientRecords, Phases
  <2> HIDE DEF x
  <2> QED
    BY <1>10, <2>1, <2>3 DEF StepsTo
<1>11. CASE Fill(c) \/ CannotWrite(c)
  <2>1. Becomes(c, AfterWrite(c))
    BY <1>11 DEF Fill, CannotWrite, Becomes
  <2>2. /\ AfterWrite(c) \in ClientRecords
        /\ AfterWrite(c).phase \in {"idle", "asking"} /\ AfterWrite(c).held = None
        /\ AfterWrite(c).last = k.last \/ AfterWrite(c).last = None
    <3>1. [k EXCEPT !.phase = "asking", !.held = None, !.last = None] \in ClientRecords
      BY <1>1 DEF ClientRecords, Phases
    <3>2. [Idle EXCEPT !.last = k.last] \in ClientRecords
      BY <1>1 DEF ClientRecords, Idle
    <3> QED
      BY <1>1, <3>1, <3>2 DEF AfterWrite, ClientRecords, Idle
  <2> QED
    BY <1>11, <2>1, <2>2 DEF StepsTo
<1> QED
  BY <1>3, <1>4, <1>5, <1>6, <1>7, <1>8, <1>9, <1>10, <1>11 DEF Client

\* What the shared state is after a step.
LEMMA SharedStep ==
  ASSUME TypeOK, HeldToWrite, NEW c \in Clients, Client(c)
  PROVE  /\ now' = now
         /\ file' \in Files \cup {Empty, Garbled}
         /\ latest' \in Files /\ disturbed' \in BOOLEAN
         /\ \/ UNCHANGED file
            \/ Truncate(c) /\ file' = Empty
            \/ Fill(c) /\ (file' = client[c].held \/ file' = Garbled)
<1>1. client[c].held \in Files \cup {None} /\ \A k \in Keys : WithoutEntry(k) \in Files
  BY ClientTypes, FileTypes DEF ClientRecords
<1>2. latest \in Files /\ file \in Files \cup {Empty, Garbled} /\ disturbed \in BOOLEAN /\ KeyOf[c] \in Keys
  BY ClientTypes DEF TypeOK
<1>3. CASE Fill(c)
  BY <1>1, <1>2, <1>3 DEF Fill, Disturbs, HeldToWrite, Holds, Writing
<1>4. CASE Truncate(c)
  BY <1>2, <1>4 DEF Truncate, Disturbs
<1>5. CASE Refresh(c)
  <2>1. [latest EXCEPT ![KeyOf[c]] = None] \in Files
    BY <1>2 DEF Files
  <2> QED
    BY <1>2, <1>5, <2>1 DEF Refresh
<1>6. CASE Answer(c)
  <2>1. PICK entry \in Entries : latest' = [latest EXCEPT ![KeyOf[c]] = entry]
    BY <1>6, Answered
  <2>2. latest' \in Files
    BY <1>2, <2>1 DEF Files
  <2> QED
    BY <1>2, <1>6, <2>2 DEF Answer
<1>7. CASE ~(Fill(c) \/ Truncate(c) \/ Refresh(c) \/ Answer(c))
  <2>1. UNCHANGED <<now, file, latest>> /\ disturbed' \in BOOLEAN
    BY <1>2, <1>7 DEF Client, ValidateCached, Validate, Retry, GiveUp, NoContent, FallBack, CannotWrite, Crash
  <2> QED
    BY <1>2, <2>1
<1> QED
  BY <1>3, <1>4, <1>5, <1>6, <1>7

\* What is made of timely entries is timely.
LEMMA TimelyEntries ==
  ASSUME TypeOK, EntriesInv
  PROVE  /\ \A until : Timely(EntryOf(until))
         /\ \A k \in Keys : \A until : EntryOf(until) \in Entries =>
              TimelyIn(WithEntry(k, EntryOf(until)))
         /\ \A k \in Keys : TimelyIn(WithoutEntry(k))
         /\ \A k \in Keys : /\ Get(k) # None => Timely(Get(k)) /\ IsCacheValid(Get(k))
                            /\ GetWithGracePeriod(k) # None =>
                                 /\ Timely(GetWithGracePeriod(k))
                                 /\ now - GetWithGracePeriod(k).timestamp < Grace
<1>1. now \in Nat
  BY LicenseAssumption DEF TypeOK
<1>2. \A until : Timely(EntryOf(until))
  BY <1>1 DEF Timely, EntryOf
<1>3. ReadAllCaches \in Files
  BY FileTypes
<1>4. \A k \in Keys : \A until :
       EntryOf(until) \in Entries => TimelyIn(WithEntry(k, EntryOf(until)))
  BY <1>2, <1>3 DEF EntriesInv, TimelyIn, WithEntry, Files
<1>5. \A k \in Keys : TimelyIn(WithoutEntry(k))
  BY <1>3 DEF EntriesInv, TimelyIn, WithoutEntry, Files
<1> QED
  BY <1>2, <1>4, <1>5 DEF EntriesInv, TimelyIn, Get, GetWithGracePeriod

\* What a client was told is in time.
InTime(told) ==
  LET age == told.at - told.result.came
  IN \/ told.result.until # None /\ told.result.until > told.at
     \/ age < Grace \/ age < Duration
     \/ age = 0

LEMMA LicenseStepInTime ==
  ASSUME LicenseInv, NEW c \in Clients, Client(c)
  PROVE  TypeOK' /\ HeldToWrite' /\ EntriesInv' /\ ServedInTime'
<1>1. TypeOK /\ EntriesInv /\ HeldToWrite /\ ServedInTime
  BY DEF LicenseInv
<1>2. PICK x \in ClientRecords : Becomes(c, x) /\ StepsTo(c, x)
  BY <1>1, ClientStep
<1>3. /\ client' \in [Clients -> ClientRecords] /\ client'[c] = x
      /\ \A d \in Clients \ {c} : client'[d] = client[d]
  BY <1>1, <1>2 DEF Becomes, TypeOK, ClientRecords
<1>4. /\ now' = now /\ now \in Nat
      /\ \/ UNCHANGED file
         \/ Truncate(c) /\ file' = Empty
         \/ Fill(c) /\ (file' = client[c].held \/ file' = Garbled)
  BY <1>1, SharedStep, ClientTypes
<1>5. TypeOK'
  BY <1>1, <1>3, <1>4, SharedStep DEF TypeOK, ClientRecords
<1>6. None \notin Files /\ KeyOf[c] \in Keys /\ client[c] \in ClientRecords
  BY <1>1, ClientTypes, LicenseAssumption
<1>7. x.held # None <=> x.phase \in Writing
  <2>1. client[c].held # None <=> client[c].phase \in Writing
    BY <1>1 DEF HeldToWrite, Holds
  <2>2. WithoutEntry(KeyOf[c]) \in Files
    BY <1>1, <1>6, FileTypes
  <2>3. \A until : EntryOf(until) \in Entries => WithEntry(KeyOf[c], EntryOf(until)) \in Files
    BY <1>1, <1>6, FileTypes
  <2>4. Truncate(c) => client[c].phase \in Writing
    BY DEF Truncate, Writing
  <2> QED
    BY <1>2, <1>6, <2>1, <2>2, <2>3, <2>4 DEF StepsTo, Writing
<1>8. HeldToWrite'
  BY <1>1, <1>3, <1>7 DEF HeldToWrite, Holds
<1>9. x.held # None => TimelyIn(x.held)
  <2>1. client[c].held # None => TimelyIn(client[c].held)
    BY <1>1 DEF EntriesInv, Holds
  <2>2. /\ TimelyIn(WithoutEntry(KeyOf[c]))
        /\ \A until : EntryOf(until) \in Entries => TimelyIn(WithEntry(KeyOf[c], EntryOf(until)))
    BY <1>1, <1>6, TimelyEntries
  <2> QED
    BY <1>2, <2>1, <2>2 DEF StepsTo
<1>10. EntriesInv'
  <2>1. \A entries : TimelyIn(entries) => TimelyIn(entries)'
    BY <1>4 DEF TimelyIn, Timely
  <2>2. TimelyIn(ReadAllCaches)'
    <3>1. CASE UNCHANGED file
      BY <1>1, <1>4, <3>1 DEF ReadAllCaches, EntriesInv, TimelyIn, Timely
    <3>2. CASE file' \in {Empty, Garbled}
      BY <3>2 DEF ReadAllCaches, Nothing, TimelyIn
    <3>3. CASE Fill(c) /\ file' = client[c].held
      <4>1. Holds(c)
        BY <1>1, <3>3 DEF Fill, HeldToWrite, Writing
      <4>2. TimelyIn(client[c].held)
        BY <1>1, <4>1 DEF EntriesInv
      <4> QED
        BY <1>4, <3>2, <3>3, <4>2 DEF ReadAllCaches, TimelyIn, Timely
    <3> QED
      BY <1>4, <3>1, <3>2, <3>3
  <2>3. \A d \in Clients : Holds(d)' => TimelyIn(client[d].held)'
    <3> TAKE d \in Clients
    <3>1. CASE d = c
      BY <1>3, <1>4, <1>9, <3>1 DEF Holds, TimelyIn, Timely
    <3>2. CASE d # c
      BY <1>1, <1>3, <1>4, <3>2 DEF EntriesInv, Holds, TimelyIn, Timely
    <3> QED
      BY <3>1, <3>2
  <2> QED
    BY <2>2, <2>3 DEF EntriesInv
<1>11. x.last # None => InTime(x.last)
  <2>1. client[c].last # None => InTime(client[c].last)
    BY <1>1 DEF ServedInTime, InTime
  <2>2. \A entry \in Entries : Timely(entry) /\ (IsCacheValid(entry) \/ now - entry.timestamp < Grace)
          => InTime(Told(entry.result))
    BY <1>4 DEF Timely, IsCacheValid, InTime, Told, Entries, Results
  <2>3. \A until : InTime(Told(EntryOf(until).result))
    BY <1>4 DEF InTime, Told, EntryOf
  <2>4. /\ Get(KeyOf[c]) \in Entries \cup {None}
        /\ GetWithGracePeriod(KeyOf[c]) \in Entries \cup {None}
    BY <1>1, <1>6, FileTypes
  <2>5. Get(KeyOf[c]) # None => InTime(Told(Get(KeyOf[c]).result))
    BY <1>1, <1>6, <2>2, <2>4, TimelyEntries
  <2>6. GetWithGracePeriod(KeyOf[c]) # None => InTime(Told(GetWithGracePeriod(KeyOf[c]).result))
    BY <1>1, <1>6, <2>2, <2>4, TimelyEntries
  <2> QED
    BY <1>2, <2>1, <2>3, <2>5, <2>6 DEF StepsTo
<1>12. ServedInTime'
  BY <1>1, <1>3, <1>11 DEF ServedInTime, InTime
<1> QED
  BY <1>5, <1>8, <1>10, <1>12

\* A step keeps what the only holder of the file has, and what the file has
\* when none holds it.
LEMMA LicenseStepAlone ==
  ASSUME LicenseInv, NEW c \in Clients, Client(c)
  PROVE  AloneInv'
<1> SUFFICES ASSUME ~disturbed' PROVE AloneInv'
  BY DEF AloneInv
<1>1. TypeOK /\ HeldToWrite /\ AloneInv
  BY DEF LicenseInv
<1>2. PICK x \in ClientRecords : Becomes(c, x) /\ StepsTo(c, x)
  BY <1>1, ClientStep
<1>3. /\ client'[c] = x /\ \A d \in Clients \ {c} : client'[d] = client[d]
  BY <1>1, <1>2 DEF Becomes, TypeOK
<1>4. ~disturbed
  BY <1>1 DEF Client, ValidateCached, Validate, Refresh, Answer, Retry, GiveUp, NoContent, FallBack,
              Truncate, Fill, CannotWrite, Crash, Disturbs, TypeOK
<1>5. /\ (\A d \in Clients : ~Holds(d)) => ReadAllCaches = latest
      /\ \A d \in Clients : Alone(d) =>
           /\ client[d].held = latest
           /\ client[d].phase \in {"clearing", "setting"} => file = Empty
  BY <1>1, <1>4 DEF AloneInv
<1>6. /\ Holds(c)' <=> x.held # None
      /\ \A d \in Clients \ {c} : Holds(d)' <=> Holds(d)
  BY <1>3 DEF Holds
<1>7. KeyOf[c] \in Keys /\ {None, Empty, Garbled} \cap Files = {} /\ Nothing \in Files
      /\ latest \in Files /\ client[c].held \in Files \cup {None}
  BY <1>1, ClientTypes, LicenseAssumption DEF TypeOK, ClientRecords, Nothing, Files
\* The client begins to hold what it has read, with an entry set or cleared.
<1>8. CASE Refresh(c) \/ Answer(c)
  <2>1. ~Holds(c) /\ file' = file /\ client[c].phase \in {"idle", "asking"}
    BY <1>1, <1>8 DEF Refresh, Answer, HeldToWrite, Writing
  <2>2. /\ x.held # None /\ x.phase \in {"clear", "set"}
        /\ ReadAllCaches = latest => x.held = latest'
    <3>1. CASE Refresh(c)
      <4> DEFINE held == WithoutEntry(KeyOf[c])
      <4>1. x = [client[c] EXCEPT !.phase = "clear", !.call = "refresh", !.held = held]
        BY <1>1, <1>3, <3>1 DEF Refresh, TypeOK
      <4>2. held \in Files /\ client[c] \in ClientRecords
        BY <1>1, <1>7, FileTypes, ClientTypes
      <4> HIDE DEF held
      <4>3. x.phase = "clear" /\ x.held = held
        BY <4>1, <4>2 DEF ClientRecords
      <4> QED
        BY <1>7, <3>1, <4>2, <4>3 DEF Refresh, WithoutEntry, held
    <3>2. CASE Answer(c)
      <4>1. PICK until \in Nat \cup {None} :
              /\ EntryOf(until) \in Entries
              /\ client' = [client EXCEPT ![c].phase = "set", ![c].last = Told(EntryOf(until).result),
                                          ![c].held = WithEntry(KeyOf[c], EntryOf(until))]
              /\ latest' = [latest EXCEPT ![KeyOf[c]] = EntryOf(until)]
        BY <1>1, <3>2, Answered
      <4> DEFINE held == WithEntry(KeyOf[c], EntryOf(until))
                 told == Told(EntryOf(until).result)
      <4>2. x = [client[c] EXCEPT !.phase = "set", !.last = told, !.held = held]
        BY <1>1, <1>3, <4>1 DEF TypeOK
      <4>3. held \in Files /\ client[c] \in ClientRecords
        BY <1>1, <1>7, <4>1, FileTypes, ClientTypes
      <4> HIDE DEF held, told
      <4>4. x.phase = "set" /\ x.held = held
        BY <4>2, <4>3 DEF ClientRecords
      <4> QED
        BY <1>7, <4>1, <4>3, <4>4 DEF WithEntry, held
    <3> QED
      BY <1>8, <3>1, <3>2
  <2>3. Holds(c)' /\ client'[c].phase \notin {"clearing", "setting"}
    BY <1>3, <1>6, <2>2
  <2>4. Alone(c)' => ReadAllCaches = latest
    BY <1>5, <1>6, <2>1 DEF Alone
  <2>5. \A d \in Clients \ {c} : ~Alone(d)'
    BY <2>3 DEF Alone
  <2> QED
    BY <1>3, <2>2, <2>3, <2>4, <2>5 DEF AloneInv, Holds, Alone
\* Nothing of this is about a client that holds nothing and leaves the file alone.
<1>9. CASE ValidateCached(c) \/ Validate(c) \/ Retry(c) \/ GiveUp(c, TRUE) \/ GiveUp(c, FALSE) \/ NoContent(c)
  <2>1. ~Holds(c) /\ UNCHANGED <<file, latest>>
    BY <1>1, <1>9 DEF ValidateCached, Validate, Retry, GiveUp, NoContent, FallBack, HeldToWrite, Writing
  <2>2. client[c].held = None /\ client[c] \in ClientRecords
    BY <1>1, <2>1, ClientTypes DEF Holds
  <2>3. \A y : [client[c] EXCEPT !.last = y].held = None
    BY <2>2 DEF ClientRecords
  <2>4. \A y : [client[c] EXCEPT !.attempt = y].held = None
    BY <2>2 DEF ClientRecords
  <2>5. [client[c] EXCEPT !.phase = "asking", !.call = "validate"].held = None
    BY <2>2 DEF ClientRecords
  <2>6. \A y : [Idle EXCEPT !.last = y].held = None
    BY DEF Idle
  <2>7. c \in DOMAIN client
    BY <1>1 DEF TypeOK
  <2>8. x.held = None
    <3>1. CASE ValidateCached(c)
      <4>1. PICK y : client' = [client EXCEPT ![c].last = y]
        BY <3>1 DEF ValidateCached
      <4>2. x = [client[c] EXCEPT !.last = y]
        BY <1>3, <2>7, <4>1
      <4> QED
        BY <2>3, <4>2
    <3>2. CASE Validate(c)
      <4>1. x = [client[c] EXCEPT !.phase = "asking", !.call = "validate"]
        BY <1>3, <2>7, <3>2 DEF Validate
      <4> QED
        BY <2>5, <4>1
    <3>3. CASE Retry(c)
      <4>1. PICK y : client' = [client EXCEPT ![c].attempt = y]
        BY <3>3 DEF Retry
      <4>2. x = [client[c] EXCEPT !.attempt = y]
        BY <1>3, <2>7, <4>1
      <4> QED
        BY <2>4, <4>2
    <3>4. CASE GiveUp(c, TRUE) \/ GiveUp(c, FALSE) \/ NoContent(c)
      <4>1. PICK y : client' = [client EXCEPT ![c] = [Idle EXCEPT !.last = y]]
        BY <3>4 DEF GiveUp, NoContent, FallBack
      <4>2. x = [Idle EXCEPT !.last = y]
        BY <1>3, <2>7, <4>1
      <4> QED
        BY <2>6, <4>2
    <3> QED
      BY <1>9, <3>1, <3>2, <3>3, <3>4
  <2> QED
    BY <1>3, <1>5, <1>6, <2>1, <2>8 DEF AloneInv, Alone, Holds, ReadAllCaches
\* Whoever ends without having written has disturbed the file, unless it held nothing.
<1>10. CASE Crash(c) \/ CannotWrite(c)
  <2>1. ~Holds(c) /\ x.held = None /\ UNCHANGED <<file, latest>>
    <3>1. Crash(c) /\ ~Holds(c)
      BY <1>10 DEF Crash, CannotWrite
    <3>2. x = Idle
      BY <1>1, <1>3, <3>1 DEF Crash, TypeOK
    <3> QED
      BY <3>1, <3>2 DEF Crash, Idle
  <2> QED
    BY <1>3, <1>5, <1>6, <2>1 DEF AloneInv, Alone, Holds, ReadAllCaches
\* Whoever changes the file holds it alone.
<1>11. CASE Truncate(c)
  <2>1. Alone(c) /\ file' = Empty /\ latest' = latest
    BY <1>1, <1>11 DEF Truncate, Disturbs, Alone, HeldToWrite, Writing, Holds
  <2>2. x.held = client[c].held
    BY <1>1, <1>3, <1>11, ClientTypes DEF Truncate, TypeOK, ClientRecords
  <2> QED
    BY <1>3, <1>5, <1>6, <2>1, <2>2 DEF AloneInv, Alone, Holds
<1>12. CASE Fill(c)
  <2>1. Alone(c) /\ client[c].phase \in {"clearing", "setting"} /\ latest' = latest
    BY <1>1, <1>12 DEF Fill, Disturbs, Alone, HeldToWrite, Writing, Holds
  <2>2. file' = latest
    BY <1>5, <1>12, <2>1 DEF Fill
  <2>3. x.held = None
    <3>1. x = AfterWrite(c)
      BY <1>1, <1>3, <1>12 DEF Fill, TypeOK
    <3> QED
      BY <1>1, <3>1, ClientTypes DEF AfterWrite, ClientRecords, Idle
  <2>4. ReadAllCaches' = latest'
    BY <1>7, <2>1, <2>2 DEF ReadAllCaches
  <2> QED
    BY <1>3, <1>6, <2>1, <2>3, <2>4 DEF AloneInv, Alone, Holds
<1> QED
  BY <1>8, <1>9, <1>10, <1>11, <1>12 DEF Client

THEOREM LicenseStep == LicenseInv /\ [Next]_vars => LicenseInv'
<1> SUFFICES ASSUME LicenseInv, [Next]_vars PROVE LicenseInv'
  OBVIOUS
<1>1. ASSUME NEW c \in Clients, Client(c) PROVE LicenseInv'
  BY <1>1, LicenseStepInTime, LicenseStepAlone DEF LicenseInv
<1>2. CASE Tick
  <2>1. UNCHANGED <<file, client, latest, disturbed>> /\ now' \in 0..MaxTime /\ now' = now + 1 /\ now \in Nat
    BY <1>2, LicenseAssumption DEF Tick, LicenseInv, TypeOK
  <2>2. TypeOK'
    BY <2>1 DEF LicenseInv, TypeOK
  <2>3. ASSUME NEW entries \in Files, TimelyIn(entries) PROVE TimelyIn(entries)'
    BY <2>1, <2>3 DEF TimelyIn, Timely, Files, Entries
  <2>4. ReadAllCaches' = ReadAllCaches /\ ReadAllCaches \in Files
    BY <2>1, FileTypes DEF ReadAllCaches, LicenseInv
  <2>5. TimelyIn(ReadAllCaches)'
    BY <2>1, <2>4 DEF LicenseInv, EntriesInv, TimelyIn, Timely, Files, Entries
  <2>6. \A c \in Clients : Holds(c)' => TimelyIn(client[c].held)'
    <3> SUFFICES ASSUME NEW c \in Clients, Holds(c) PROVE TimelyIn(client[c].held)'
      BY <2>1 DEF Holds
    <3>1. client[c].held \in Files /\ TimelyIn(client[c].held)
      BY ClientTypes DEF LicenseInv, EntriesInv, Holds, ClientRecords
    <3> QED
      BY <2>1, <3>1 DEF TimelyIn, Timely, Files, Entries
  <2>7. EntriesInv'
    BY <2>5, <2>6 DEF EntriesInv
  <2>8. HeldToWrite' /\ AloneInv' /\ ServedInTime'
    BY <2>1, <2>4 DEF LicenseInv, HeldToWrite, AloneInv, Alone, Holds, ServedInTime
  <2> QED
    BY <2>2, <2>7, <2>8 DEF LicenseInv
<1>3. CASE UNCHANGED vars
  BY <1>3 DEF vars, LicenseInv, TypeOK, EntriesInv, ReadAllCaches, TimelyIn, Timely, HeldToWrite,
              AloneInv, Alone, Holds, ServedInTime
<1> QED
  BY <1>1, <1>2, <1>3 DEF Next

THEOREM LicenseInvariance == Spec => []LicenseInv
  BY LicenseInitial, LicenseStep, PTL DEF Spec

THEOREM LicenseTypeCorrect == Spec => []TypeOK
<1>1. LicenseInv => TypeOK
  BY DEF LicenseInv
<1> QED
  BY LicenseInvariance, <1>1, PTL

\* What validate returns came within the longer of the two periods or may
\* be kept until later, through any retries, crashes and writes of others.
THEOREM ServedCorrect == Spec => []ServedInTime
<1>1. LicenseInv => ServedInTime
  BY DEF LicenseInv
<1> QED
  BY LicenseInvariance, <1>1, PTL

\* A file that was not disturbed has what was last set or cleared for every key.
THEOREM FileCorrect == Spec => []FileIsLatest
<1>1. LicenseInv => FileIsLatest
  BY DEF LicenseInv, AloneInv, FileIsLatest
<1> QED
  BY LicenseInvariance, <1>1, PTL

-----------------------------------------------------------------------------
(***************************************************************************)
(* Single sign-on, for any number of logins, organizations and emails.     *)
(***************************************************************************)
\* A login that provisions knows its organization and its user; users stay.
LoginsKnow ==
  \A l \in Logins :
    /\ login[l].step \in {"away", "parse"} \cup Provisioning => login[l].org \in Orgs
    /\ login[l].step = "parse" => login[l].config \in SsoConfig
    /\ login[l].step \in Provisioning => login[l].email \in Emails
    /\ login[l].step = "stats" => users[login[l].email] # Nobody

Recorded(e) == records[e] # Nobody /\ records[e].org = users[e]

\* What holds of a user whose logins followed one another.
RegularInv ==
  \A e \in Emails : ~irregular[e] =>
    /\ \A k \in UnderWay(e), l \in UnderWay(e) : k = l
    /\ \A l \in UnderWay(e) :
         login[l].step = "record" => users[e] = login[l].org /\ records[e] = Nobody
    /\ users[e] # Nobody => Recorded(e) \/ \E l \in UnderWay(e) : login[l].step = "record"
    /\ users[e] = Nobody => records[e] = Nobody

SsoInv == SsoTypeOK /\ LoginsKnow /\ RegularInv

\* No user is regular and new before a login has begun.
THEOREM SsoInitial == SsoInit => SsoInv
<1> SUFFICES ASSUME SsoInit PROVE SsoInv
  OBVIOUS
<1> USE SsoAssumption DEF SsoInit, NoLogin, Provisioning
<1>1. SsoTypeOK
  BY DEF SsoTypeOK, Logged
<1>2. LoginsKnow
  BY DEF LoginsKnow
<1>3. RegularInv
  BY DEF RegularInv, UnderWay
<1> QED
  BY <1>1, <1>2, <1>3 DEF SsoInv

\* An upsert leaves a record, and of the organization that there was.
LEMMA CountedType ==
  ASSUME NEW r \in ProvisionedUser \cup {Nobody}
  PROVE  Counted(r) \in ProvisionedUser /\ (r # Nobody => Counted(r).org = r.org)
<1>1. CASE r = Nobody
  BY <1>1 DEF Counted, ProvisionedUser
<1>2. CASE r # Nobody
  <2>1. r \in ProvisionedUser
    BY <1>2
  <2>2. r.loginCount + 1 \in Nat \ {0}
    BY <2>1 DEF ProvisionedUser
  <2> QED
    BY <1>2, <2>1, <2>2 DEF Counted, ProvisionedUser
<1> QED
  BY <1>1, <1>2

\* Every step of the administrator, of a login and of a crash keeps the types.
LEMMA SsoTypeStep == SsoInv /\ [SsoNext]_ssoVars => SsoTypeOK' /\ LoginsKnow'
<1> SUFFICES ASSUME SsoInv, [SsoNext]_ssoVars PROVE SsoTypeOK' /\ LoginsKnow'
  OBVIOUS
<1> USE SsoAssumption DEF SsoInv, SsoTypeOK, LoginsKnow, Logged, Provisioning, NoLogin,
                          Ends, Unsaved, GoesOn
<1>1. CASE CreateConfig \/ UpdateConfig \/ DeleteConfig
  BY <1>1 DEF CreateConfig, UpdateConfig, DeleteConfig, SaveConfig
<1>2. ASSUME NEW l \in Logins, InitiateLogin(l) PROVE SsoTypeOK' /\ LoginsKnow'
  <2> PICK o \in Orgs : login' = [login EXCEPT ![l].step = "away", ![l].org = o]
    BY <1>2 DEF InitiateLogin
  <2>1. login'[l] = [login[l] EXCEPT !.step = "away", !.org = o]
    OBVIOUS
  <2>2. login[l] \in Logged
    OBVIOUS
  <2>3. login'[l] \in Logged
    BY <2>1, <2>2
  <2>4. \A k \in Logins \ {l} : login'[k] = login[k]
    OBVIOUS
  <2>5. login' \in [Logins -> Logged]
    BY <2>3, <2>4
  <2> QED
    BY <1>2, <2>5 DEF InitiateLogin
<1>3. ASSUME NEW l \in Logins, HandleCallback(l) PROVE SsoTypeOK' /\ LoginsKnow'
  <2> PICK o \in Orgs :
        IF config[o] # Nobody /\ config[o].isEnabled
          THEN login' = [login EXCEPT ![l].step = "parse", ![l].org = o, ![l].config = config[o]]
          ELSE Ends(l, "failed")
    BY <1>3 DEF HandleCallback
  <2> QED
    BY <1>3 DEF HandleCallback
<1>4. ASSUME NEW l \in Logins, Accept(l) PROVE SsoTypeOK' /\ LoginsKnow'
  <2> PICK e \in Acceptable(l) :
        /\ login' = [login EXCEPT ![l].step = "find", ![l].email = e]
        /\ irregular' = [irregular EXCEPT ![e] = @ \/ UnderWay(e) # {}]
    BY <1>4 DEF Accept
  <2>1. e \in Emails
    BY DEF Acceptable, Assertions
  <2>2. irregular' \in [Emails -> BOOLEAN]
    OBVIOUS
  <2>3. login'[l] = [login[l] EXCEPT !.step = "find", !.email = e]
    OBVIOUS
  <2>4. login[l] \in Logged
    OBVIOUS
  <2>5. login'[l] \in Logged
    BY <2>1, <2>3, <2>4
  <2>6. \A k \in Logins \ {l} : login'[k] = login[k]
    OBVIOUS
  <2>7. login' \in [Logins -> Logged]
    BY <2>5, <2>6
  <2> QED
    BY <1>4, <2>1, <2>2, <2>7 DEF Accept
<1>5. ASSUME NEW l \in Logins, Refuse(l) PROVE SsoTypeOK' /\ LoginsKnow'
  BY <1>5 DEF Refuse
<1>6. ASSUME NEW l \in Logins, FindUser(l) PROVE SsoTypeOK' /\ LoginsKnow'
  BY <1>6 DEF FindUser
<1>7. ASSUME NEW l \in Logins, CreateUser(l) PROVE SsoTypeOK' /\ LoginsKnow'
  BY <1>7 DEF CreateUser
<1>8. ASSUME NEW l \in Logins, CreateRecord(l) PROVE SsoTypeOK' /\ LoginsKnow'
  BY <1>8 DEF CreateRecord, ProvisionedUser
<1>9. ASSUME NEW l \in Logins, QueryFails(l) PROVE SsoTypeOK' /\ LoginsKnow'
  BY <1>9 DEF QueryFails
<1>10. ASSUME NEW l \in Logins, UpdateLoginStats(l) PROVE SsoTypeOK' /\ LoginsKnow'
  <2>1. login[l].step = "stats" /\ login[l].email \in Emails
    BY <1>10 DEF UpdateLoginStats
  <2>2. records' \in [Emails -> ProvisionedUser \cup {Nobody}]
    BY <1>10, <2>1, CountedType DEF UpdateLoginStats
  <2> QED
    BY <1>10, <2>2 DEF UpdateLoginStats
<1>11. ASSUME NEW l \in Logins, StatsFail(l) PROVE SsoTypeOK' /\ LoginsKnow'
  BY <1>11 DEF StatsFail
<1>12. CASE SsoCrash
  BY <1>12 DEF SsoCrash
<1>13. CASE UNCHANGED ssoVars
  BY <1>13 DEF ssoVars
<1> QED
  BY <1>1, <1>2, <1>3, <1>4, <1>5, <1>6, <1>7, <1>8, <1>9, <1>10, <1>11, <1>12, <1>13
     DEF SsoNext, Login

\* A regular user stays recorded: the steps of their one login lead from no user
\* to a user about to be recorded to a user who is.
LEMMA RegularStep == SsoInv /\ [SsoNext]_ssoVars => RegularInv'
<1> SUFFICES ASSUME SsoInv, [SsoNext]_ssoVars, NEW e \in Emails, ~irregular'[e]
             PROVE  /\ \A k \in UnderWay(e)', l \in UnderWay(e)' : k = l
                    /\ \A l \in UnderWay(e)' :
                         login'[l].step = "record" => users'[e] = login'[l].org /\ records'[e] = Nobody
                    /\ users'[e] # Nobody =>
                         Recorded(e)' \/ \E l \in UnderWay(e)' : login'[l].step = "record"
                    /\ users'[e] = Nobody => records'[e] = Nobody
  BY DEF RegularInv
<1> USE SsoAssumption DEF SsoInv, SsoTypeOK, LoginsKnow, Logged, Provisioning, NoLogin,
                          Ends, Unsaved, GoesOn, UnderWay, Recorded
<1> DEFINE Good ==
      /\ \A k \in UnderWay(e)', l \in UnderWay(e)' : k = l
      /\ \A l \in UnderWay(e)' :
           login'[l].step = "record" => users'[e] = login'[l].org /\ records'[e] = Nobody
      /\ users'[e] # Nobody =>
           Recorded(e)' \/ \E l \in UnderWay(e)' : login'[l].step = "record"
      /\ users'[e] = Nobody => records'[e] = Nobody
<1>1. CASE CreateConfig \/ UpdateConfig \/ DeleteConfig
  BY <1>1 DEF CreateConfig, UpdateConfig, DeleteConfig, SaveConfig, RegularInv
<1>2. ASSUME NEW l \in Logins, InitiateLogin(l) PROVE Good
  <2>1. PICK o \in Orgs : login' = [login EXCEPT ![l].step = "away", ![l].org = o]
    BY <1>2 DEF InitiateLogin
  <2>2. /\ UNCHANGED <<users, records, irregular>>
        /\ UnderWay(e)' = UnderWay(e)
        /\ \A k \in UnderWay(e) : login'[k] = login[k]
    BY <1>2, <2>1 DEF InitiateLogin
  <2> QED
    BY <2>2 DEF RegularInv
<1>3. ASSUME NEW l \in Logins, HandleCallback(l) PROVE Good
  <2>1. PICK o \in Orgs :
        IF config[o] # Nobody /\ config[o].isEnabled
          THEN login' = [login EXCEPT ![l].step = "parse", ![l].org = o, ![l].config = config[o]]
          ELSE Ends(l, "failed")
    BY <1>3 DEF HandleCallback
  <2>2. /\ UNCHANGED <<users, records, irregular>>
        /\ UnderWay(e)' = UnderWay(e)
        /\ \A k \in UnderWay(e) : login'[k] = login[k]
    BY <1>3, <2>1 DEF HandleCallback
  <2> QED
    BY <2>2 DEF RegularInv
<1>4. ASSUME NEW l \in Logins, Accept(l) PROVE Good
  <2>1. PICK a \in Acceptable(l) :
        /\ login' = [login EXCEPT ![l].step = "find", ![l].email = a]
        /\ irregular' = [irregular EXCEPT ![a] = @ \/ UnderWay(a) # {}]
    BY <1>4 DEF Accept
  <2>2. a \in Emails
    BY DEF Acceptable, Assertions
  <2>3. UNCHANGED <<users, records>> /\ ~irregular[e] /\ login[l].step = "parse"
    BY <1>4, <2>1, <2>2 DEF Accept
  <2>4. CASE a = e
    <3>1. UnderWay(e) = {}
      BY <2>1, <2>2, <2>4
    <3>2. UnderWay(e)' = {l} /\ login'[l].step = "find"
      BY <3>1, <2>1, <2>4
    <3> QED
      BY <2>3, <3>1, <3>2 DEF RegularInv
  <2>5. CASE a # e
    <3>1. UnderWay(e)' = UnderWay(e) /\ \A k \in UnderWay(e) : login'[k] = login[k]
      BY <2>1, <2>3, <2>5
    <3> QED
      BY <2>3, <3>1 DEF RegularInv
  <2> QED
    BY <2>4, <2>5
<1>5. ASSUME NEW l \in Logins, Refuse(l) PROVE Good
  BY <1>5 DEF Refuse, RegularInv
<1>6. ASSUME NEW l \in Logins, FindUser(l) PROVE Good
  BY <1>6 DEF FindUser, RegularInv
<1>7. ASSUME NEW l \in Logins, CreateUser(l) PROVE Good
  BY <1>7 DEF CreateUser, RegularInv
<1>8. ASSUME NEW l \in Logins, CreateRecord(l) PROVE Good
  BY <1>8 DEF CreateRecord, RegularInv, ProvisionedUser
<1>9. ASSUME NEW l \in Logins, QueryFails(l) PROVE Good
  <2>1. login[l].email \in Emails /\ UNCHANGED <<users, records>>
    BY <1>9 DEF QueryFails
  <2>2. /\ irregular' = [irregular EXCEPT ![login[l].email] = @ \/ login[l].step = "record"]
        /\ login' = [login EXCEPT ![l] = [NoLogin EXCEPT !.step = "failed"]]
    BY <1>9 DEF QueryFails
  <2>3. ~irregular[e] /\ (login[l].email = e => login[l].step # "record")
    <3>1. CASE login[l].email = e
      BY <2>1, <2>2, <3>1
    <3>2. CASE login[l].email # e
      BY <2>1, <2>2, <3>2
    <3> QED
      BY <3>1, <3>2
  <2>4. UnderWay(e)' = UnderWay(e) \ {l} /\ \A k \in UnderWay(e) \ {l} : login'[k] = login[k]
    BY <2>2
  <2> QED
    BY <2>1, <2>3, <2>4 DEF RegularInv
<1>10. ASSUME NEW l \in Logins, UpdateLoginStats(l) PROVE Good
  <2> DEFINE m == login[l].email
  <2>1. /\ login[l].step = "stats" /\ m \in Emails
        /\ UNCHANGED <<users, irregular>>
        /\ login' = [login EXCEPT ![l] = [NoLogin EXCEPT !.step = "done"]]
    BY <1>10 DEF UpdateLoginStats
  <2>2. UnderWay(e)' = UnderWay(e) \ {l} /\ \A k \in UnderWay(e) \ {l} : login'[k] = login[k]
    BY <2>1
  <2>3. CASE m # e
    <3>1. records'[e] = records[e]
      BY <1>10, <2>1, <2>3 DEF UpdateLoginStats
    <3> QED
      BY <2>1, <2>2, <2>3, <3>1 DEF RegularInv
  <2>4. CASE m = e
    <3>1. l \in UnderWay(e) /\ UnderWay(e) \ {l} = {}
      BY <2>1, <2>4 DEF RegularInv
    <3>2. users[e] # Nobody /\ ~irregular[e]
      BY <2>1, <2>4
    <3>3. Recorded(e)
      BY <2>1, <3>1, <3>2 DEF RegularInv
    <3>4. records[e] \in ProvisionedUser
      BY <3>3
    <3>5. records'[e] = Counted(records[e])
      BY <1>10, <2>1, <2>4 DEF UpdateLoginStats
    <3>6. records'[e] \in ProvisionedUser /\ records'[e].org = records[e].org
      BY <3>3, <3>4, <3>5, CountedType
    <3>7. Recorded(e)'
      BY <2>1, <3>3, <3>6
    <3> QED
      BY <2>1, <2>2, <3>1, <3>2, <3>7
  <2> QED
    BY <2>3, <2>4
<1>11. ASSUME NEW l \in Logins, StatsFail(l) PROVE Good
  BY <1>11 DEF StatsFail, RegularInv
<1>12. CASE SsoCrash
  BY <1>12 DEF SsoCrash, RegularInv
<1>13. CASE UNCHANGED ssoVars
  BY <1>13 DEF ssoVars, RegularInv
<1> QED
  BY <1>1, <1>2, <1>3, <1>4, <1>5, <1>6, <1>7, <1>8, <1>9, <1>10, <1>11, <1>12, <1>13
     DEF SsoNext, Login

\* The invariant holds throughout.
THEOREM SsoInvariance == SsoSpec => []SsoInv
<1>1. SsoInv /\ [SsoNext]_ssoVars => SsoInv'
  BY SsoTypeStep, RegularStep DEF SsoInv
<1> QED
  BY SsoInitial, <1>1, PTL DEF SsoSpec

\* The type invariant of configurations, users, records and logins.
THEOREM SsoTypeCorrect == SsoSpec => []SsoTypeOK
<1>1. SsoInv => SsoTypeOK
  BY DEF SsoInv
<1> QED
  BY SsoInvariance, <1>1, PTL

\* A user whom SSO made has a record under their organization, unless a first
\* login was cut short or met another: provision creates both, in this order.
THEOREM RecordCorrect == SsoSpec => []FirstLoginIsRecorded
<1>1. SsoInv => FirstLoginIsRecorded
  BY DEF SsoInv, RegularInv, FirstLoginIsRecorded, Recorded
<1> QED
  BY SsoInvariance, <1>1, PTL

-----------------------------------------------------------------------------
(***************************************************************************)
(* Role based access control, for any users, roles, permissions and number *)
(* of calls at once.                                                       *)
(***************************************************************************)
\* The loops of bootstrap stay within what they go through.
Within(k) ==
  k.op = "bootstrap" =>
    /\ k.step \in {"roles", "wire", "wiring"} => k.at <= Len(DefaultRoles)
    /\ k.step \in {"member", "joining"} => k.at <= Len(Members)

LoopsInv == \A c \in Calls : Within(call[c])

\* Ids are given once, and a grant refers to a role.
TablesInv ==
  /\ \A n \in RoleNames : roles[n] # Missing => roles[n].id <= created
  /\ \A m, n \in RoleNames :
       roles[m] # Missing /\ roles[n] # Missing /\ roles[m].id = roles[n].id => m = n
  /\ \A g \in grants : Exists(g[1])

\* An id that a decision asks the permissions of: that of an assigned role, or
\* of one below, as which nothing else has come to be known since.
Known(c, id) ==
  \/ \E a \in call[c].rows : id = a.role
  \/ /\ id <= created
     /\ \A n \in RoleNames :
          roles[n] # Missing /\ roles[n].id = id => n \in Below(call[c].rows)

\* Some grant, of a role of the user's or of one below it, is for what is asked.
HasGrant(c, rows, granted) ==
  \E a \in rows, g \in granted :
    /\ a.user = call[c].user
    /\ HasPermission({g[3]}, call[c].need)
    /\ g[1] = a.role \/ g[2] \in ExpandRoleHierarchy({a.name})

DecisionInv(c) ==
  call[c].op \in Decisions =>
    /\ call[c].step # "done" => Live \subseteq seen[c].everRows /\ Granted \subseteq seen[c].everGrants
    /\ call[c].step \in {"all", "ids", "perms"} =>
         \A a \in call[c].rows : a \in seen[c].everRows /\ a.user = call[c].user
    /\ call[c].step = "ids" => \A id \in call[c].ids : \E a \in call[c].rows : id = a.role
    /\ call[c].step = "perms" => \A id \in call[c].ids : Known(c, id)
    /\ call[c].step = "role" => HasGrant(c, seen[c].everRows, seen[c].everGrants)
    /\ call[c].step = "done" /\ call[c].answer = "yes" =>
         Entitles(c, seen[c].everRows, seen[c].everGrants)

RbacInv ==
  /\ RbacTypeOK /\ LoopsInv /\ TablesInv
  /\ seen = [c \in Calls |-> seen[c]]
  /\ \A c \in Calls : DecisionInv(c)

-----------------------------------------------------------------------------
(***************************************************************************)
(* What there is to go through.                                            *)
(***************************************************************************)

\* The system roles are names of roles, each at a place of its own.
LEMMA DefaultRolesType ==
  /\ DefaultRoles \in Seq(RoleNames)
  /\ Len(DefaultRoles) \in Nat \ {0}
  /\ \A i \in 1..Len(DefaultRoles) :
       DefaultRoles[i] \in {"super_admin", "admin", "manager", "member", "viewer"}
<1> DEFINE Names == RoleNames \cap {"super_admin", "admin", "manager", "member", "viewer"}
           If(n) == IF n \in RoleNames THEN <<n>> ELSE <<>>
<1>1. /\ If("super_admin") \in Seq(Names) /\ If("admin") \in Seq(Names)
      /\ If("manager") \in Seq(Names) /\ If("member") \in Seq(Names)
      /\ If("viewer") \in Seq(Names)
  <2>1. \A S, n : <<>> \in Seq(S) /\ (n \in S => <<n>> \in Seq(S))
    OBVIOUS
  <2>2. \A n \in {"super_admin", "admin", "manager", "member", "viewer"} :
          n \in RoleNames => n \in Names
    OBVIOUS
  <2> HIDE DEF Names
  <2>3. ASSUME NEW n \in {"super_admin", "admin", "manager", "member", "viewer"}
        PROVE  If(n) \in Seq(Names)
    BY <2>1, <2>2
  <2> QED
    BY <2>3
<1>2. Len(If("super_admin")) = 1
  BY RbacAssumption
<1> HIDE DEF If, Names
<1>3. \A s, t \in Seq(Names) :
        s \o t \in Seq(Names) /\ Len(s \o t) = Len(s) + Len(t) /\ Len(s) \in Nat
  OBVIOUS
<1> DEFINE A == If("super_admin") \o If("admin")
           B == A \o If("manager")
           C == B \o If("member")
           D == C \o If("viewer")
<1>4. A \in Seq(Names) /\ Len(A) >= 1
  <2>1. A \in Seq(Names) /\ Len(A) = Len(If("super_admin")) + Len(If("admin"))
    BY <1>1, <1>3, Zenon
  <2>2. Len(If("admin")) \in Nat
    BY <1>1, <1>3, Zenon
  <2> HIDE DEF A
  <2> QED
    BY <2>1, <2>2, <1>2
<1>5. B \in Seq(Names) /\ Len(B) >= 1
  <2> HIDE DEF A
  <2> QED  BY <1>1, <1>3, <1>4
<1>6. C \in Seq(Names) /\ Len(C) >= 1
  <2> HIDE DEF B
  <2> QED  BY <1>1, <1>3, <1>5
<1>7. D \in Seq(Names) /\ Len(D) >= 1
  <2> HIDE DEF C
  <2> QED  BY <1>1, <1>3, <1>6
<1>8. DefaultRoles = D
  BY DEF DefaultRoles, If
<1> HIDE DEF D
<1>9. /\ DefaultRoles \in Seq(Names) /\ Len(DefaultRoles) >= 1 /\ Len(DefaultRoles) \in Nat
      /\ \A i \in 1..Len(DefaultRoles) : DefaultRoles[i] \in Names
  BY <1>3, <1>7, <1>8
<1> QED
  BY <1>9 DEF Names

\* Whom bootstrap gives roles: the owner first, then the team.
LEMMA MembersType ==
  /\ Members \in Seq(Users \X RoleNames)
  /\ Len(Members) \in Nat \ {0}
<1>1. <<<<Owner, "super_admin">>>> \in Seq(Users \X RoleNames)
  BY RbacAssumption
<1>2. Len(<<<<Owner, "super_admin">>>>) = 1 /\ Team \in Seq(Users \X RoleNames)
  BY RbacAssumption
<1> QED
  BY <1>1, <1>2 DEF Members

\* The default permissions have ids of their own.
LEMMA SeededIdsType ==
  /\ Cardinality(DefaultPermissions) \in Nat
  /\ \A p \in DefaultPermissions :
       /\ SeededIds[p] \in Nat
       /\ SeededIds[p] <= Len(DefaultRoles) + Cardinality(DefaultPermissions)
  /\ \A p, q \in DefaultPermissions : SeededIds[p] = SeededIds[q] => p = q
<1> DEFINE n == Cardinality(DefaultPermissions)
           first == Len(DefaultRoles) + 1
           last == Len(DefaultRoles) + n
<1>1. DefaultPermissions \subseteq Permissions /\ IsFiniteSet(DefaultPermissions)
  <2>1. DefaultPermissions \subseteq Permissions
    BY DEF DefaultPermissions
  <2> QED
    BY <2>1, FS_Subset, RbacAssumption
<1>2. n \in Nat /\ ExistsBijection(1..n, DefaultPermissions)
  BY <1>1, FS_CardinalityType
<1>3. PICK g \in Bijection(1..n, DefaultPermissions) : TRUE
  BY <1>2 DEF ExistsBijection
<1>4. \A p \in DefaultPermissions : \E i \in 1..n : g[i] = p
  BY <1>3 DEF Bijection, Surjection
<1> HIDE DEF n
<1> DEFINE f == [p \in DefaultPermissions |-> Len(DefaultRoles) + CHOOSE i \in 1..n : g[i] = p]
<1>5. \A p \in DefaultPermissions :
        /\ f[p] - Len(DefaultRoles) \in 1..n /\ f[p] \in first..last
        /\ g[f[p] - Len(DefaultRoles)] = p
  <2> TAKE p \in DefaultPermissions
  <2> DEFINE i == CHOOSE j \in 1..n : g[j] = p
  <2>1. i \in 1..n /\ g[i] = p
    BY <1>4
  <2>2. f[p] = Len(DefaultRoles) + i
    OBVIOUS
  <2> HIDE DEF i, f
  <2> QED
    BY <2>1, <2>2, <1>2, DefaultRolesType
<1>6. /\ f \in [DefaultPermissions -> first..last]
      /\ \A p, q \in DefaultPermissions : f[p] = f[q] => p = q
  <2>1. f \in [DefaultPermissions -> first..last]
    BY <1>5
  <2> QED
    BY SMTT(30), <2>1, <1>5
<1> HIDE DEF f
<1>7. /\ SeededIds \in [DefaultPermissions -> first..last]
      /\ \A p, q \in DefaultPermissions : SeededIds[p] = SeededIds[q] => p = q
  <2>1. SeededIds = CHOOSE h \in [DefaultPermissions -> first..last] :
                      \A p, q \in DefaultPermissions : h[p] = h[q] => p = q
    BY DEF SeededIds, n
  <2> QED
    BY <2>1, <1>6
<1>8. \A p \in DefaultPermissions : SeededIds[p] \in Nat /\ SeededIds[p] <= last
  BY <1>2, <1>7, DefaultRolesType
<1> QED
  BY <1>2, <1>7, <1>8 DEF n

-----------------------------------------------------------------------------
\* A new database and one that bootstrap has been through are in order.
THEOREM RbacInitial == RbacInit => RbacInv
<1> SUFFICES ASSUME RbacInit PROVE RbacInv
  OBVIOUS
<1>1. call \in [Calls -> {Resting}] /\ begun \in [edits : Nat, decisions : Nat] /\ late \in BOOLEAN
  BY DEF RbacInit
<1>2. LoopsInv /\ seen = [c \in Calls |-> seen[c]] /\ \A c \in Calls : DecisionInv(c)
  BY DEF RbacInit, LoopsInv, Within, DecisionInv, Resting, Decisions
<1>3. CASE /\ roles = [n \in RoleNames |-> Missing]
           /\ perms = [p \in Permissions |-> Missing]
           /\ grants = {} /\ assigned = {} /\ created = 0
  <2>1. RbacTypeOK
    BY <1>1, <1>3 DEF RbacTypeOK, Ids
  <2>2. TablesInv
    BY <1>3 DEF TablesInv
  <2> QED
    BY <1>2, <2>1, <2>2 DEF RbacInv
<1>4. CASE ~(/\ roles = [n \in RoleNames |-> Missing]
             /\ perms = [p \in Permissions |-> Missing]
             /\ grants = {} /\ assigned = {} /\ created = 0)
  <2> DEFINE last == Len(DefaultRoles)
             RoleId(n) == CHOOSE i \in 1..last : DefaultRoles[i] = n
             Seeded == {DefaultRoles[i] : i \in 1..last}
  <2>1. /\ roles = [n \in RoleNames |-> IF n \in Seeded
                                          THEN [id |-> RoleId(n), system |-> TRUE]
                                          ELSE Missing]
        /\ perms = [p \in Permissions |-> IF p \in DefaultPermissions
                                            THEN SeededIds[p] ELSE Missing]
        /\ grants = UNION {{RoleId(n)} \X {SeededIds[p] : p \in Permissions \cap DefaultRolePermissions(n)}
                            : n \in Seeded}
        /\ assigned = {[user |-> Members[i][1], role |-> RoleId(Members[i][2]),
                        name |-> Members[i][2], scope |-> Global, until |-> "never"]
                       : i \in {j \in 1..Len(Members) : Members[j][2] \in Seeded}}
        /\ created = last + Cardinality(DefaultPermissions)
    BY <1>4 DEF RbacInit
  <2>2. last \in Nat /\ \A n \in Seeded : RoleId(n) \in 1..last /\ DefaultRoles[RoleId(n)] = n
    BY DefaultRolesType
  <2>3. Seeded \subseteq RoleNames
    BY DefaultRolesType
  <2> HIDE DEF RoleId, Seeded, last
  <2>4. created \in Nat /\ \A n \in Seeded : RoleId(n) \in Nat \ {0} /\ RoleId(n) <= created
    BY <2>1, <2>2, SeededIdsType
  <2>5. /\ roles \in [RoleNames -> Role \cup {Missing}]
        /\ \A n \in RoleNames : roles[n] # Missing <=> n \in Seeded
        /\ \A n \in Seeded : roles[n].id = RoleId(n)
    <3>1. \A n \in Seeded : [id |-> RoleId(n), system |-> TRUE] \in Role
      BY <2>4 DEF Role
    <3>2. \A n \in Seeded : [id |-> RoleId(n), system |-> TRUE] # Missing
      BY <3>1, RbacAssumption
    <3> QED
      BY <2>1, <2>3, <3>1, <3>2
  <2>6. perms \in [Permissions -> Ids]
    BY <2>1, SeededIdsType DEF Ids
  <2>7. \A g \in grants : \E n \in Seeded, p \in DefaultPermissions : g = <<RoleId(n), SeededIds[p]>>
    <3>1. \A n \in Seeded : Permissions \cap DefaultRolePermissions(n) \subseteq DefaultPermissions
      <4> TAKE n \in Seeded
      <4>1. n \in {"super_admin", "admin", "manager", "member", "viewer"}
        BY DefaultRolesType DEF Seeded, last
      <4> QED
        BY <4>1 DEF DefaultRolePermissions, DefaultPermissions, ViewerPermissions,
                    MemberPermissions, ManagerPermissions, AdminPermissions
    <3> QED
      BY <2>1, <3>1
  <2>8. grants \subseteq Nat \X Nat
    BY <2>4, <2>7, SeededIdsType
  <2>9. assigned \subseteq Rows
    BY <2>1, <2>3, <2>4, MembersType, RbacAssumption DEF Rows
  <2>10. RbacTypeOK
    BY <1>1, <2>4, <2>5, <2>6, <2>8, <2>9 DEF RbacTypeOK
  <2>11. TablesInv
    <3>1. \A n \in RoleNames : roles[n] # Missing => roles[n].id <= created
      BY <2>4, <2>5
    <3>2. \A m, n \in Seeded : RoleId(m) = RoleId(n) => m = n
      BY <2>2
    <3>3. \A g \in grants : Exists(g[1])
      BY <2>3, <2>5, <2>7 DEF Exists
    <3> QED
      BY <2>5, <3>1, <3>2, <3>3 DEF TablesInv
  <2> QED
    BY <1>2, <2>10, <2>11 DEF RbacInv
<1> QED
  BY <1>3, <1>4

-----------------------------------------------------------------------------
(***************************************************************************)
(* Types.                                                                  *)
(***************************************************************************)
CallRecords ==
  {Resting} \cup AuthorizeCalls \cup GuardCalls \cup AssignmentCalls \cup CreateCalls
            \cup ChangeCalls \cup PermissionCalls \cup BootstrapCalls

\* What a call does tells what it is made of.
LEMMA CallKinds ==
  ASSUME NEW k \in CallRecords
  PROVE  /\ k.op = "authorize" => k \in AuthorizeCalls
         /\ k.op = "guard" => k \in GuardCalls
         /\ k.op \in {"assign", "revoke"} => k \in AssignmentCalls
         /\ k.op = "create" => k \in CreateCalls
         /\ k.op \in Changes \cup {"delete"} => k \in ChangeCalls
         /\ k.op \in {"permit", "forbid"} => k \in PermissionCalls
         /\ k.op = "bootstrap" => k \in BootstrapCalls
<1>1. CASE k = Resting
  BY <1>1 DEF Resting, Changes
<1>2. CASE k \in AuthorizeCalls
  BY <1>2 DEF AuthorizeCalls, Changes
<1>3. CASE k \in GuardCalls
  BY <1>3 DEF GuardCalls, Changes
<1>4. CASE k \in AssignmentCalls
  BY <1>4 DEF AssignmentCalls, Changes
<1>5. CASE k \in CreateCalls
  BY <1>5 DEF CreateCalls, Changes
<1>6. CASE k \in ChangeCalls
  BY <1>6 DEF ChangeCalls, Changes
<1>7. CASE k \in PermissionCalls
  BY <1>7 DEF PermissionCalls, Changes
<1>8. CASE k \in BootstrapCalls
  BY <1>8 DEF BootstrapCalls, Changes
<1> QED
  BY <1>1, <1>2, <1>3, <1>4, <1>5, <1>6, <1>7, <1>8 DEF CallRecords

\* Queries find what there is.
LEMMA QueryTypes ==
  ASSUME RbacTypeOK
  PROVE  /\ \A u, scope : GetUserRoles(u, scope) \subseteq Live
         /\ \A u, scope : \A a \in GetUserRoles(u, scope) : a.user = u
         /\ Live \subseteq Rows
         /\ \A n \in RoleNames : roles[n] # Missing => roles[n] \in Role
         /\ \A ps \in SUBSET Permissions : PermissionIds(ps) \subseteq Nat
         /\ \A id : Exists(id) => id \in Nat
<1> QED
  BY DEF RbacTypeOK, GetUserRoles, Live, PermissionIds, Ids, Exists, Role

\* A call that only goes on, or is over, keeps the types of the tables.
LEMMA DecideType ==
  ASSUME RbacTypeOK, NEW c \in Calls, Decide(c)
  PROVE  /\ call' \in [Calls -> CallRecords]
         /\ begun' \in [edits : Nat, decisions : Nat]
         /\ UNCHANGED <<tables, late>>
         /\ call'[c].op \in Decisions
         /\ \A d \in Calls \ {c} : call'[d] = call[d]
<1> DEFINE Goal(x) == /\ call' = [call EXCEPT ![c] = x]
                      /\ x \in AuthorizeCalls \cup GuardCalls
                      /\ begun' \in [edits : Nat, decisions : Nat]
                      /\ UNCHANGED <<tables, late>>
<1>1. call \in [Calls -> CallRecords] /\ begun \in [edits : Nat, decisions : Nat]
  BY DEF RbacTypeOK, CallRecords
<1>2. call[c].op \in Decisions => call[c] \in AuthorizeCalls \cup GuardCalls
  BY <1>1, CallKinds DEF Decisions
<1> SUFFICES \E x : Goal(x)
  <2>1. \A x \in AuthorizeCalls \cup GuardCalls : x \in CallRecords /\ x.op \in Decisions
    BY DEF CallRecords, AuthorizeCalls, GuardCalls, Decisions
  <2> QED
    BY <1>1, <2>1
<1>3. CASE BeginAuthorize(c)
  <2>1. PICK u \in Users, p \in Asked, s \in (Scopes \ {Global}) \cup {Anywhere} :
          Begin(c, [op |-> "authorize", step |-> "mine", user |-> u, need |-> p,
                    scope |-> s, rows |-> {}, ids |-> {}, answer |-> "none"])
    BY <1>3 DEF BeginAuthorize
  <2> DEFINE x == [op |-> "authorize", step |-> "mine", user |-> u, need |-> p,
                   scope |-> s, rows |-> {}, ids |-> {}, answer |-> "none"]
  <2>2. x \in AuthorizeCalls
    BY RbacAssumption DEF AuthorizeCalls
  <2>3. Goal(x)
    BY <1>1, <2>1, <2>2 DEF Begin, Decisions
  <2> QED
    BY <2>3
<1>4. CASE BeginGuard(c)
  <2>1. PICK u \in Users, p \in Asked, n \in RoleNames :
          Begin(c, [op |-> "guard", step |-> "mine", user |-> u, need |-> p, role |-> n,
                    scope |-> Anywhere, rows |-> {}, ids |-> {}, answer |-> "none"])
    BY <1>4 DEF BeginGuard
  <2> DEFINE x == [op |-> "guard", step |-> "mine", user |-> u, need |-> p, role |-> n,
                   scope |-> Anywhere, rows |-> {}, ids |-> {}, answer |-> "none"]
  <2>2. x \in GuardCalls
    BY RbacAssumption DEF GuardCalls
  <2>3. Goal(x)
    BY <1>1, <2>1, <2>2 DEF Begin, Decisions
  <2> QED
    BY <2>3
<1>5. ASSUME NEW rows, rows \subseteq Rows, Resolved(c, rows), Reads, call[c].op \in Decisions
      PROVE  \E x : Goal(x)
  <2> DEFINE ids == {a.role : a \in rows}
             x == [call[c] EXCEPT
                     !.rows = rows, !.ids = ids,
                     !.step = IF Below(rows) # {} THEN "ids" ELSE IF ids # {} THEN "perms" ELSE "done",
                     !.answer = IF ids = {} THEN "no" ELSE @]
  <2>1. call' = [call EXCEPT ![c] = x]
    BY <1>5 DEF Resolved
  <2>2. ids \subseteq Nat
    BY <1>5 DEF Rows
  <2> HIDE DEF ids
  <2>3. x \in AuthorizeCalls \cup GuardCalls
    BY ZenonT(30), <1>2, <1>5, <2>2 DEF AuthorizeCalls, GuardCalls
  <2> QED
    BY <1>1, <1>5, <2>1, <2>3 DEF Reads
<1>6. CASE ReadMine(c)
  <2> DEFINE rows == GetUserRoles(call[c].user, call[c].scope)
             x == [call[c] EXCEPT !.step = "all", !.rows = rows]
  <2>1. rows \subseteq Rows
    BY QueryTypes
  <2>2. CASE call[c].scope = Anywhere
    BY <1>5, <1>6, <2>1, <2>2 DEF ReadMine, At
  <2>3. CASE call[c].scope # Anywhere
    <3>1. call' = [call EXCEPT ![c] = x] /\ call[c] \in AuthorizeCalls
      BY <1>2, <1>6, <2>3 DEF ReadMine, At, GuardCalls
    <3> HIDE DEF rows
    <3>2. x \in AuthorizeCalls
      BY <2>1, <3>1 DEF AuthorizeCalls
    <3> QED
      BY <1>1, <1>6, <3>1, <3>2 DEF ReadMine, Reads
  <2> QED
    BY <2>2, <2>3
<1>7. CASE ReadAll(c)
  <2>1. call[c] \in AuthorizeCalls /\ call[c].rows \subseteq Rows
    BY <1>2, <1>7 DEF ReadAll, At, GuardCalls, AuthorizeCalls
  <2>2. call[c].rows \cup GetUserRoles(call[c].user, Anywhere) \subseteq Rows
    BY <2>1, QueryTypes
  <2> QED
    BY <1>5, <1>7, <2>2 DEF ReadAll, At
<1>8. CASE ReadIds(c)
  <2> DEFINE more == {roles[n].id : n \in {m \in Below(call[c].rows) : roles[m] # Missing}}
             x == [call[c] EXCEPT !.step = "perms", !.ids = @ \cup more]
  <2>1. Below(call[c].rows) \subseteq RoleNames
    BY RbacAssumption DEF Below, ExpandRoleHierarchy
  <2>2. more \subseteq Nat
    BY <2>1, QueryTypes DEF Role
  <2> HIDE DEF more
  <2>3. call' = [call EXCEPT ![c] = x]
    BY <1>8 DEF ReadIds, more
  <2>4. x \in AuthorizeCalls \cup GuardCalls
    BY <1>2, <1>8, <2>2 DEF ReadIds, At, AuthorizeCalls, GuardCalls
  <2> QED
    BY <1>1, <1>8, <2>3, <2>4 DEF ReadIds, Reads
<1>9. CASE ReadPermissions(c)
  <2> DEFINE allowed == HasPermission(GetPermissionsForRoles(call[c].ids), call[c].need)
             x == [call[c] EXCEPT
                     !.step = IF allowed /\ call[c].op = "guard" THEN "role" ELSE "done",
                     !.answer = IF ~allowed THEN "no" ELSE IF call[c].op = "guard" THEN @ ELSE "yes"]
  <2>1. call' = [call EXCEPT ![c] = x]
    BY <1>9 DEF ReadPermissions
  <2> HIDE DEF allowed
  <2>2. x \in AuthorizeCalls \cup GuardCalls
    BY <1>2, <1>9 DEF ReadPermissions, At, AuthorizeCalls, GuardCalls
  <2> QED
    BY <1>1, <1>9, <2>1, <2>2 DEF ReadPermissions, Reads
<1>10. CASE ReadRole(c)
  <2> DEFINE found == \E a \in GetUserRoles(call[c].user, Anywhere) : a.name = call[c].role
             x == [call[c] EXCEPT !.step = "done", !.answer = IF found THEN "yes" ELSE "no"]
  <2>1. call' = [call EXCEPT ![c] = x]
    BY <1>10 DEF ReadRole
  <2> HIDE DEF found
  <2>2. x \in AuthorizeCalls \cup GuardCalls
    BY <1>2, <1>10 DEF ReadRole, At, AuthorizeCalls, GuardCalls, Decisions
  <2> QED
    BY <1>1, <1>10, <2>1, <2>2 DEF ReadRole, Reads
<1> QED
  BY <1>3, <1>4, <1>6, <1>7, <1>8, <1>9, <1>10 DEF Decide

Edits(c) == Assign(c) \/ EditRole(c) \/ EditPermission(c) \/ Bootstrapping(c)

\* A call that edits goes on, loops or returns.
LEMMA EditCall ==
  ASSUME RbacTypeOK, LoopsInv, NEW c \in Calls, Edits(c)
  PROVE  /\ call' \in [Calls -> CallRecords]
         /\ begun' \in [edits : Nat, decisions : Nat]
         /\ call'[c].op \notin Decisions /\ Within(call'[c])
         /\ \A d \in Calls \ {c} : call'[d] = call[d]
<1> DEFINE Goal(x) == /\ call' = [call EXCEPT ![c] = x]
                      /\ x \in CallRecords /\ x.op \notin Decisions /\ Within(x)
                      /\ begun' \in [edits : Nat, decisions : Nat]
<1>1. call \in [Calls -> CallRecords] /\ begun \in [edits : Nat, decisions : Nat]
  BY DEF RbacTypeOK, CallRecords
<1> SUFFICES \E x : Goal(x)
  BY <1>1
<1>2. call[c] \in CallRecords /\ Within(call[c])
  BY <1>1 DEF LoopsInv
<1>3. ASSUME Returns(c), UNCHANGED begun PROVE \E x : Goal(x)
  <2>1. Goal(Resting)
    BY <1>1, <1>3 DEF Returns, CallRecords, Resting, Decisions, Within
  <2> QED
    BY <2>1
<1>4. ASSUME NEW what \in AssignmentCalls \cup CreateCalls \cup ChangeCalls \cup PermissionCalls
                            \cup {b \in BootstrapCalls : b.step = "permissions"},
             Begin(c, what)
      PROVE  \E x : Goal(x)
  <2>1. what.op \notin Decisions /\ Within(what) /\ what \in CallRecords
    BY DEF CallRecords, AssignmentCalls, CreateCalls, ChangeCalls, PermissionCalls,
           BootstrapCalls, Changes, Decisions, Within
  <2>2. Goal(what)
    BY <1>1, <1>4, <2>1 DEF Begin
  <2> QED
    BY <2>2
<1>5. ASSUME NEW x \in AssignmentCalls \cup CreateCalls \cup ChangeCalls \cup PermissionCalls,
             call' = [call EXCEPT ![c] = x], UNCHANGED begun
      PROVE  \E y : Goal(y)
  <2>1. x.op \notin Decisions /\ Within(x) /\ x \in CallRecords
    BY DEF CallRecords, AssignmentCalls, CreateCalls, ChangeCalls, PermissionCalls,
           Changes, Decisions, Within
  <2> QED
    BY <1>1, <1>5, <2>1
<1>6. CASE Assign(c)
  <2>1. CASE BeginAssignment(c)
    <3>1. PICK op \in {"assign", "revoke"}, u \in Users, n \in RoleNames, s \in Scopes,
               until \in {"never", "later"} :
            Begin(c, [op |-> op, step |-> "find", user |-> u, name |-> n, scope |-> s,
                      until |-> until, id |-> Missing])
      BY <2>1 DEF BeginAssignment
    <3>2. [op |-> op, step |-> "find", user |-> u, name |-> n, scope |-> s,
           until |-> until, id |-> Missing] \in AssignmentCalls
      BY DEF AssignmentCalls, Ids
    <3> QED
      BY <1>4, <3>1, <3>2
  <2>2. CASE FindByName(c)
    <3>1. call[c] \in AssignmentCalls /\ UNCHANGED begun
      BY <1>2, <2>2, CallKinds DEF FindByName, At, Reads
    <3>2. CASE roles[call[c].name] = Missing
      BY <1>3, <2>2, <3>1, <3>2 DEF FindByName
    <3>3. CASE roles[call[c].name] # Missing
      <4> DEFINE id == roles[call[c].name].id
                 x == [call[c] EXCEPT !.step = "write", !.id = id]
      <4>1. call' = [call EXCEPT ![c] = x]
        BY <2>2, <3>3 DEF FindByName
      <4>2. call[c].name \in RoleNames
        BY <3>1 DEF AssignmentCalls
      <4>3. id \in Nat
        BY <3>3, <4>2, QueryTypes DEF Role
      <4> HIDE DEF id
      <4>4. x \in AssignmentCalls
        BY <3>1, <4>3 DEF AssignmentCalls, Ids
      <4> QED
        BY <1>5, <3>1, <4>1, <4>4
    <3> QED
      BY <3>2, <3>3
  <2>3. CASE AssignRole(c) \/ RevokeRole(c)
    BY <1>3, <2>3 DEF AssignRole, RevokeRole
  <2> QED
    BY <1>6, <2>1, <2>2, <2>3 DEF Assign
<1>7. CASE EditRole(c)
  <2>1. CASE BeginCreate(c)
    <3>1. PICK n \in RoleNames, ps \in SUBSET Asked, isSystem \in BOOLEAN :
            Begin(c, [op |-> "create", step |-> "find", name |-> n, perms |-> ps, ids |-> {},
                      system |-> isSystem])
      BY <2>1 DEF BeginCreate
    <3>2. [op |-> "create", step |-> "find", name |-> n, perms |-> ps, ids |-> {},
          system |-> isSystem] \in CreateCalls
      BY RbacAssumption DEF CreateCalls
    <3> QED
      BY <1>4, <3>1, <3>2
  <2>2. CASE BeginChange(c)
    <3>1. PICK op \in Changes \cup {"delete"}, id \in 1..created, ps \in SUBSET Permissions :
            Begin(c, [op |-> op, step |-> "find", id |-> id, perms |-> ps, ids |-> {}])
      BY <2>2 DEF BeginChange
    <3>2. [op |-> op, step |-> "find", id |-> id, perms |-> ps, ids |-> {}] \in ChangeCalls
      BY DEF ChangeCalls, RbacTypeOK
    <3> QED
      BY <1>4, <3>1, <3>2
  <2>3. ASSUME NEW step \in {"resolve", "write"}, call[c].op \in Changes \cup {"create", "delete"},
               Goes(c, step), UNCHANGED begun
        PROVE  \E x : Goal(x)
    <3> DEFINE x == [call[c] EXCEPT !.step = step]
    <3>1. call[c] \in CreateCalls \cup ChangeCalls
      BY <1>2, <2>3, CallKinds
    <3>2. x \in CreateCalls \cup ChangeCalls
      BY <3>1 DEF CreateCalls, ChangeCalls
    <3>3. call' = [call EXCEPT ![c] = x]
      BY <2>3 DEF Goes
    <3> HIDE DEF x
    <3> QED
      BY <1>5, <2>3, <3>2, <3>3
  <2>4. CASE FindConflict(c)
    BY <1>3, <2>3, <2>4 DEF FindConflict, At, Reads
  <2>5. CASE FindById(c)
    BY <1>3, <2>3, <2>5 DEF FindById, At, Reads
  <2>6. CASE ResolvePermissionIds(c)
    <3> DEFINE ids == PermissionIds(call[c].perms)
               x == [call[c] EXCEPT !.step = "write", !.ids = ids]
    <3>1. call[c] \in CreateCalls \cup ChangeCalls /\ UNCHANGED begun
      BY <1>2, <2>6, CallKinds DEF ResolvePermissionIds, At, Reads
    <3>2. ids \subseteq Nat
      BY <3>1, QueryTypes DEF CreateCalls, ChangeCalls
    <3> HIDE DEF ids
    <3>3. x \in CreateCalls \cup ChangeCalls
      BY <3>1, <3>2 DEF CreateCalls, ChangeCalls
    <3>4. call' = [call EXCEPT ![c] = x] \/ Returns(c)
      BY <2>6 DEF ResolvePermissionIds, ids
    <3> HIDE DEF x
    <3> QED
      BY <1>3, <1>5, <3>1, <3>3, <3>4
  <2>7. CASE CreateRole(c) \/ UpdateRole(c) \/ AddPermissions(c) \/ RemovePermissions(c) \/ DeleteRole(c)
    BY <1>3, <2>7 DEF CreateRole, UpdateRole, AddPermissions, RemovePermissions, DeleteRole
  <2> QED
    BY <1>7, <2>1, <2>2, <2>4, <2>5, <2>6, <2>7 DEF EditRole
<1>8. CASE EditPermission(c)
  <2>1. CASE BeginPermission(c)
    <3>1. PICK p \in Permissions, op \in {"permit", "forbid"} :
            Begin(c, [op |-> op, step |-> "find", perm |-> p, id |-> perms[p]])
      BY <2>1 DEF BeginPermission
    <3>2. [op |-> op, step |-> "find", perm |-> p, id |-> perms[p]] \in PermissionCalls
      BY DEF PermissionCalls, RbacTypeOK
    <3> QED
      BY <1>4, <3>1, <3>2
  <2>2. CASE FindPermission(c)
    <3> DEFINE x == [call[c] EXCEPT !.step = "write"]
    <3>1. call[c] \in PermissionCalls /\ UNCHANGED begun
      BY <1>2, <2>2, CallKinds DEF FindPermission, At, Reads
    <3>2. x \in PermissionCalls
      BY <3>1 DEF PermissionCalls
    <3>3. call' = [call EXCEPT ![c] = x] \/ Returns(c)
      BY <2>2 DEF FindPermission, Goes
    <3> HIDE DEF x
    <3> QED
      BY <1>3, <1>5, <3>1, <3>2, <3>3
  <2>3. CASE CreatePermission(c) \/ DeletePermission(c)
    BY <1>3, <2>3 DEF CreatePermission, DeletePermission
  <2> QED
    BY <1>8, <2>1, <2>2, <2>3 DEF EditPermission
<1>9. CASE Bootstrapping(c)
  <2>1. CASE Bootstrap(c)
    <3> DEFINE x == [op |-> "bootstrap", step |-> "permissions", id |-> Missing, ids |-> {}, at |-> 1]
    <3>1. x \in BootstrapCalls /\ x.step = "permissions"
      BY DEF BootstrapCalls, Ids
    <3>2. Begin(c, x)
      BY <2>1 DEF Bootstrap
    <3> HIDE DEF x
    <3> QED
      BY <1>4, <3>1, <3>2
  <2>2. ASSUME NEW x \in BootstrapCalls, Within(x), call' = [call EXCEPT ![c] = x], UNCHANGED begun
        PROVE  \E y : Goal(y)
    <3>1. x.op \notin Decisions /\ x \in CallRecords
      BY DEF CallRecords, BootstrapCalls, Decisions
    <3> QED
      BY <1>1, <2>2, <3>1
  <2>3. ASSUME NEW step \in {"permissions", "roles", "wire", "member"}, call[c] \in BootstrapCalls,
               Loop(c, step), UNCHANGED begun
        PROVE  \E x : Goal(x)
    <3> DEFINE x == [call[c] EXCEPT !.step = step, !.at = @ + 1]
               then == After(step)
               y == [call[c] EXCEPT !.step = then, !.at = 1]
    <3>1. CASE call[c].at < Len(Work(step))
      <4>1. call' = [call EXCEPT ![c] = x]
        BY <2>3, <3>1 DEF Loop
      <4> DEFINE next == call[c].at + 1
      <4> next \in Nat \ {0}
        BY <2>3 DEF BootstrapCalls
      <4> HIDE DEF next
      <4>2. x \in BootstrapCalls /\ x.op = "bootstrap" /\ x.step = step /\ x.at = next
        BY <2>3 DEF BootstrapCalls, next
      <4>3. step \in {"roles", "wire"} => call[c].at < Len(DefaultRoles)
        BY <3>1 DEF Work
      <4>4. step = "member" => call[c].at < Len(Members)
        BY <3>1 DEF Work
      <4>5. call[c].at \in Nat
        BY <2>3 DEF BootstrapCalls
      <4> HIDE DEF x
      <4>6. Within(x)
        BY <4>2, <4>3, <4>4, <4>5, DefaultRolesType, MembersType DEF Within, next
      <4> QED
        BY <2>2, <2>3, <4>1, <4>2, <4>6
    <3>2. CASE ~(call[c].at < Len(Work(step))) /\ step = "member"
      BY <1>3, <2>3, <3>2 DEF Loop
    <3>3. CASE ~(call[c].at < Len(Work(step))) /\ step # "member"
      <4>1. call' = [call EXCEPT ![c] = y]
        BY <2>3, <3>3 DEF Loop
      <4>2. then \in {"roles", "wire", "member"}
        BY <3>3 DEF After
      <4> HIDE DEF then
      <4>3. y \in BootstrapCalls /\ y.at = 1
        <5>1. 1 \in Nat \ {0}
          OBVIOUS
        <5> HIDE DEF x
        <5> QED
          BY <2>3, <4>2, <5>1 DEF BootstrapCalls
      <4> HIDE DEF y
      <4>4. Within(y)
        BY <4>3, DefaultRolesType, MembersType DEF Within
      <4> QED
        BY <2>2, <2>3, <4>1, <4>3, <4>4
    <3> QED
      BY <3>1, <3>2, <3>3
  <2>4. CASE ~Bootstrap(c)
    <3>1. call[c] \in BootstrapCalls /\ UNCHANGED begun
      BY <1>2, <1>9, <2>4, CallKinds
         DEF Bootstrapping, Bootstraps, At, SeedPermission, SeedRole, FindToWire, Wire, FindMember,
             Join, Reads
    <3>2. CASE SeedPermission(c) \/ SeedRole(c) \/ Join(c) \/ Wire(c)
      BY <1>3, <2>3, <3>1, <3>2 DEF SeedPermission, SeedRole, Join, Wire
    <3>3. CASE FindToWire(c)
      <4> DEFINE role == roles[ToDo(c, "wire")]
                 ids == PermissionIds(Permissions \cap DefaultRolePermissions(ToDo(c, "wire")))
                 x == [call[c] EXCEPT !.step = "wiring", !.id = role.id, !.ids = ids]
      <4>1. call[c].step = "wire" /\ call[c].op = "bootstrap"
        BY <3>3 DEF FindToWire, Bootstraps, At
      <4>2. ToDo(c, "wire") \in RoleNames
        <5>1. call[c].at \in 1..Len(DefaultRoles)
          BY <1>2, <3>1, <4>1, DefaultRolesType DEF BootstrapCalls, Within
        <5>2. ToDo(c, "wire") = DefaultRoles[call[c].at]
          BY DEF ToDo, Work
        <5> QED
          BY <5>1, <5>2, DefaultRolesType
      <4>3. CASE role = Missing
        BY <2>3, <3>1, <3>3, <4>3 DEF FindToWire
      <4>4. CASE role # Missing
        <5>1. call' = [call EXCEPT ![c] = x]
          BY <3>3, <4>4 DEF FindToWire
        <5>2. role.id \in Nat /\ ids \subseteq Nat
          BY <4>2, <4>4, QueryTypes DEF Role
        <5> HIDE DEF role, ids
        <5>3. x \in BootstrapCalls /\ x.step = "wiring" /\ x.at = call[c].at
          BY <3>1, <5>2 DEF BootstrapCalls, Ids
        <5> HIDE DEF x
        <5>4. Within(x)
          BY <1>2, <4>1, <5>3 DEF Within
        <5> QED
          BY <2>2, <3>1, <5>1, <5>3, <5>4
      <4> QED
        BY <4>3, <4>4
    <3>4. CASE FindMember(c)
      <4> DEFINE role == roles[ToDo(c, "member")[2]]
                 x == [call[c] EXCEPT !.step = "joining", !.id = role.id]
      <4>1. call[c].step = "member" /\ call[c].op = "bootstrap"
        BY <3>4 DEF FindMember, Bootstraps, At
      <4>2. ToDo(c, "member") \in Users \X RoleNames
        <5>1. call[c].at \in 1..Len(Members)
          BY <1>2, <3>1, <4>1, MembersType DEF BootstrapCalls, Within
        <5>2. ToDo(c, "member") = Members[call[c].at]
          BY DEF ToDo, Work
        <5> QED
          BY <5>1, <5>2, MembersType
      <4>3. CASE role = Missing
        BY <2>3, <3>1, <3>4, <4>3 DEF FindMember
      <4>4. CASE role # Missing
        <5>1. call' = [call EXCEPT ![c] = x]
          BY <3>4, <4>4 DEF FindMember
        <5>2. role.id \in Nat
          BY <4>2, <4>4, QueryTypes DEF Role
        <5> HIDE DEF role
        <5>3. x \in BootstrapCalls /\ x.step = "joining" /\ x.at = call[c].at
          BY <3>1, <5>2 DEF BootstrapCalls, Ids
        <5> HIDE DEF x
        <5>4. Within(x)
          BY <1>2, <4>1, <5>3 DEF Within
        <5> QED
          BY <2>2, <3>1, <5>1, <5>3, <5>4
      <4> QED
        BY <4>3, <4>4
    <3> QED
      BY <1>9, <2>4, <3>2, <3>3, <3>4 DEF Bootstrapping
  <2> QED
    BY <2>1, <2>4
<1> QED
  BY <1>6, <1>7, <1>8, <1>9 DEF Edits

-----------------------------------------------------------------------------
(***************************************************************************)
(* Tables.                                                                 *)
(***************************************************************************)
TablesTyped ==
  /\ created \in Nat
  /\ roles \in [RoleNames -> Role \cup {Missing}]
  /\ perms \in [Permissions -> Ids]
  /\ grants \subseteq Nat \X Nat
  /\ assigned \subseteq Rows
  /\ late \in BOOLEAN

\* A role that is there after a step was there before it with its id, or is new.
RolesKeepIds ==
  /\ created <= created'
  /\ \A n \in RoleNames : roles'[n] # Missing =>
       \/ roles'[n].id > created
       \/ roles[n] # Missing /\ roles'[n].id = roles[n].id

\* Rows refer to what is there: the database refuses others.
LEMMA RefersToRole ==
  ASSUME RbacTypeOK
  PROVE  \A id, ids : MayGrant(id, ids) => Exists(id) /\ {id} \X ids \subseteq Nat \X Nat
<1>1. \A id : Exists(id) => id \in Nat
  BY QueryTypes
<1>2. PermissionIds(Permissions) \subseteq Nat
  BY QueryTypes
<1> QED
  BY <1>1, <1>2 DEF MayGrant

\* A step that leaves the roles alone.
LEMMA GrantsStep ==
  ASSUME RbacTypeOK, TablesInv, UNCHANGED roles, created' \in Nat, created <= created',
         \A g \in grants' : Exists(g[1])
  PROVE  TablesInv' /\ RolesKeepIds
<1>1. \A n \in RoleNames : roles[n] # Missing => roles[n].id \in Nat /\ roles[n].id <= created
  BY QueryTypes DEF TablesInv, Role
<1>2. created \in Nat
  BY DEF RbacTypeOK
<1> QED
  BY <1>1, <1>2 DEF TablesInv, RolesKeepIds, Exists

\* A step that makes or keeps the role of one name.
LEMMA NewRoleStep ==
  ASSUME RbacTypeOK, TablesInv, NEW n \in RoleNames, NEW g \in SUBSET Nat,
         roles[n] = Missing, created' = created + 1,
         NEW new \in Role, new.id = created + 1,
         roles' = [roles EXCEPT ![n] = new],
         grants' = grants \cup {created + 1} \X g
  PROVE  /\ created' \in Nat /\ roles' \in [RoleNames -> Role \cup {Missing}]
         /\ grants' \subseteq Nat \X Nat
         /\ TablesInv' /\ RolesKeepIds
<1>1. created \in Nat /\ created' \in Nat
  BY DEF RbacTypeOK
<1>2. \A m \in RoleNames : roles[m] # Missing => roles[m].id \in Nat /\ roles[m].id <= created
  BY QueryTypes DEF TablesInv, Role
<1>3. roles' \in [RoleNames -> Role \cup {Missing}] /\ roles'[n] = new /\ new # Missing
      /\ \A m \in RoleNames \ {n} : roles'[m] = roles[m]
  BY RbacAssumption DEF RbacTypeOK
<1>4. grants' \subseteq Nat \X Nat
  BY <1>1 DEF RbacTypeOK
<1>5. RolesKeepIds
  BY <1>1, <1>3, <1>2 DEF RolesKeepIds
<1>6. TablesInv'
  <2>1. \A m \in RoleNames : roles'[m] # Missing => roles'[m].id <= created'
    BY <1>1, <1>2, <1>3
  <2>2. \A l, m \in RoleNames :
          roles'[l] # Missing /\ roles'[m] # Missing /\ roles'[l].id = roles'[m].id => l = m
    <3> SUFFICES ASSUME NEW l \in RoleNames, NEW m \in RoleNames, roles'[l] # Missing,
                        roles'[m] # Missing, roles'[l].id = roles'[m].id
                 PROVE  l = m
      OBVIOUS
    <3>1. CASE l = n
      BY <1>1, <1>2, <1>3, <3>1
    <3>2. CASE m = n
      BY <1>1, <1>2, <1>3, <3>2
    <3>3. CASE l # n /\ m # n
      BY <1>3, <3>3 DEF TablesInv
    <3> QED
      BY <3>1, <3>2, <3>3
  <2>3. \A h \in grants' : Exists(h[1])'
    <3> TAKE h \in grants'
    <3>1. CASE h \in grants
      <4>1. PICK m \in RoleNames : roles[m] # Missing /\ roles[m].id = h[1]
        BY <3>1 DEF TablesInv, Exists
      <4>2. m # n
        BY <4>1
      <4> QED
        BY <1>3, <4>1, <4>2 DEF Exists
    <3>2. CASE h \in {created + 1} \X g
      BY <1>3, <3>2 DEF Exists
    <3> QED
      BY <3>1, <3>2
  <2> QED
    BY <2>1, <2>2, <2>3 DEF TablesInv
<1> QED
  BY <1>1, <1>3, <1>4, <1>5, <1>6

\* Every step of an edit keeps the tables in order.
LEMMA EditTables ==
  ASSUME RbacTypeOK, LoopsInv, TablesInv, NEW c \in Calls, Edits(c)
  PROVE  TablesTyped' /\ TablesInv' /\ RolesKeepIds
<1> DEFINE Goal == TablesTyped' /\ TablesInv' /\ RolesKeepIds
<1>1. call \in [Calls -> CallRecords] /\ TablesTyped
  BY DEF RbacTypeOK, CallRecords, TablesTyped
<1>2. call[c] \in CallRecords /\ Within(call[c])
  BY <1>1 DEF LoopsInv
<1>3. created \in Nat /\ created <= created
  BY DEF RbacTypeOK
<1>4. ASSUME UNCHANGED <<roles, perms, grants, assigned, late, created>> PROVE Goal
  <2>1. \A g \in grants' : Exists(g[1])
    BY <1>4 DEF TablesInv
  <2> QED
    BY <1>1, <1>3, <1>4, <2>1, GrantsStep DEF TablesTyped
<1>5. ASSUME UNCHANGED <<roles, perms, assigned, late, created>>,
             NEW id, NEW ids, grants' \subseteq grants \/ (MayGrant(id, ids) /\ grants' \subseteq grants \cup {id} \X ids)
      PROVE  Goal
  <2>1. grants' \subseteq Nat \X Nat
    BY <1>5, RefersToRole DEF RbacTypeOK
  <2>2. \A g \in grants' : Exists(g[1])
    BY <1>5, RefersToRole DEF TablesInv
  <2> QED
    BY <1>1, <1>3, <1>5, <2>1, <2>2, GrantsStep DEF TablesTyped
<1>6. ASSUME UNCHANGED <<roles, perms, grants, late, created>>, assigned' \subseteq Rows PROVE Goal
  <2>1. \A g \in grants' : Exists(g[1])
    BY <1>6 DEF TablesInv
  <2> QED
    BY <1>1, <1>3, <1>6, <2>1, GrantsStep DEF TablesTyped
<1>7. ASSUME UNCHANGED <<roles, grants, assigned, late>>, NEW p,
             \/ created' = created + 1 /\ perms' = [perms EXCEPT ![p] = created']
             \/ UNCHANGED <<created, perms>>
      PROVE  Goal
  <2>1. created' \in Nat /\ created <= created'
    BY <1>3, <1>7
  <2>2. perms' \in [Permissions -> Ids]
    BY <1>7, <2>1 DEF RbacTypeOK, Ids
  <2>3. \A g \in grants' : Exists(g[1])
    BY <1>7 DEF TablesInv
  <2> QED
    BY <1>1, <1>7, <2>1, <2>2, <2>3, GrantsStep DEF TablesTyped
<1>8. CASE Assign(c)
  <2>1. CASE BeginAssignment(c) \/ FindByName(c)
    BY <1>4, <2>1 DEF BeginAssignment, Begin, FindByName, Reads, tables
  <2>2. CASE AssignRole(c)
    <3>1. call[c] \in AssignmentCalls
      BY <1>2, <2>2, CallKinds DEF AssignRole, At
    <3>2. Exists(call[c].id) => RowOf(c) \in Rows
      BY <3>1, QueryTypes DEF RowOf, Rows, AssignmentCalls
    <3>3. assigned' \subseteq Rows
      BY <2>2, <3>2 DEF AssignRole, WithoutRow, RbacTypeOK
    <3> QED
      BY <1>6, <2>2, <3>3 DEF AssignRole
  <2>3. CASE RevokeRole(c)
    <3>1. assigned' \subseteq Rows
      BY <2>3 DEF RevokeRole, WithoutRow, RbacTypeOK
    <3> QED
      BY <1>6, <2>3, <3>1 DEF RevokeRole
  <2> QED
    BY <1>8, <2>1, <2>2, <2>3 DEF Assign
<1>9. CASE EditRole(c)
  <2>1. CASE BeginCreate(c) \/ FindConflict(c) \/ BeginChange(c) \/ FindById(c) \/ ResolvePermissionIds(c)
    BY <1>4, <2>1 DEF BeginCreate, FindConflict, BeginChange, FindById, ResolvePermissionIds,
                      Begin, Reads, tables
  <2>2. CASE CreateRole(c)
    <3> DEFINE new == [id |-> created + 1, system |-> call[c].system]
    <3>1. call[c] \in CreateCalls
      BY <1>2, <2>2, CallKinds DEF CreateRole, At
    <3>2. CASE roles[call[c].name] = Missing /\ call[c].ids \subseteq PermissionIds(Permissions)
      <4>1. /\ created' = created + 1
            /\ roles' = [roles EXCEPT ![call[c].name] = new]
            /\ grants' = grants \cup {created + 1} \X call[c].ids
            /\ UNCHANGED <<perms, assigned, late>>
        BY <2>2, <3>2 DEF CreateRole
      <4>2. call[c].name \in RoleNames /\ call[c].ids \in SUBSET Nat
        BY <3>1 DEF CreateCalls
      <4>3. new \in Role /\ new.id = created + 1
        BY <1>3, <3>1 DEF Role, CreateCalls
      <4> HIDE DEF new
      <4> QED
        BY <1>1, <3>2, <4>1, <4>2, <4>3, NewRoleStep DEF TablesTyped
    <3>3. CASE ~(roles[call[c].name] = Missing /\ call[c].ids \subseteq PermissionIds(Permissions))
      BY <1>4, <2>2, <3>3 DEF CreateRole
    <3> QED
      BY <3>2, <3>3
  <2>3. CASE UpdateRole(c)
    BY <1>5, <2>3 DEF UpdateRole
  <2>4. CASE AddPermissions(c)
    BY <1>5, <2>4 DEF AddPermissions
  <2>5. CASE RemovePermissions(c)
    BY <1>5, <2>5 DEF RemovePermissions
  <2>6. CASE DeleteRole(c)
    <3>1. /\ roles' = [n \in RoleNames |->
                        IF roles[n] # Missing /\ roles[n].id = call[c].id THEN Missing ELSE roles[n]]
          /\ grants' = grants \ GrantsOf(call[c].id)
          /\ assigned' = {a \in assigned : a.role # call[c].id}
          /\ UNCHANGED <<perms, late, created>>
      BY <2>6 DEF DeleteRole
    <3>2. \A n \in RoleNames : roles'[n] # Missing => roles'[n] = roles[n] /\ roles[n].id # call[c].id
      BY <3>1
    <3>3. TablesTyped'
      BY <1>1, <3>1 DEF TablesTyped
    <3>4. \A g \in grants' : Exists(g[1])'
      <4> TAKE g \in grants'
      <4>1. g \in grants /\ g[1] # call[c].id
        BY <3>1 DEF GrantsOf
      <4>2. PICK n \in RoleNames : roles[n] # Missing /\ roles[n].id = g[1]
        BY <4>1 DEF TablesInv, Exists
      <4>3. roles'[n] = roles[n]
        BY <3>1, <4>1, <4>2
      <4> QED
        BY <4>2, <4>3 DEF Exists
    <3>5. TablesInv'
      BY <3>1, <3>2, <3>4 DEF TablesInv
    <3>6. RolesKeepIds
      BY <1>3, <3>1, <3>2 DEF RolesKeepIds
    <3> QED
      BY <3>3, <3>5, <3>6
  <2> QED
    BY <1>9, <2>1, <2>2, <2>3, <2>4, <2>5, <2>6 DEF EditRole
<1>10. CASE EditPermission(c)
  <2>1. CASE BeginPermission(c) \/ FindPermission(c)
    BY <1>4, <2>1 DEF BeginPermission, FindPermission, Begin, Reads, tables
  <2>2. CASE CreatePermission(c)
    BY <1>7, <2>2 DEF CreatePermission
  <2>3. CASE DeletePermission(c)
    <3>1. perms' \in [Permissions -> Ids]
      BY <2>3 DEF DeletePermission, RbacTypeOK, Ids
    <3>2. \A g \in grants' : Exists(g[1])
      BY <2>3 DEF DeletePermission, TablesInv
    <3>3. UNCHANGED <<roles, assigned, late, created>> /\ grants' \subseteq Nat \X Nat
      BY <2>3 DEF DeletePermission, RbacTypeOK
    <3> QED
      BY <1>1, <1>3, <3>1, <3>2, <3>3, GrantsStep DEF TablesTyped
  <2> QED
    BY <1>10, <2>1, <2>2, <2>3 DEF EditPermission
<1>11. CASE Bootstrapping(c)
  <2>1. CASE Bootstrap(c) \/ FindToWire(c) \/ FindMember(c)
    BY <1>4, <2>1 DEF Bootstrap, FindToWire, FindMember, Begin, Reads, tables
  <2>2. CASE SeedPermission(c)
    BY <1>7, <2>2 DEF SeedPermission
  <2>3. CASE SeedRole(c)
    <3> DEFINE n == ToDo(c, "roles")
    <3>1. n \in RoleNames
      <4>1. call[c] \in BootstrapCalls /\ call[c].step = "roles"
        BY <1>2, <2>3, CallKinds DEF SeedRole, Bootstraps, At
      <4>2. call[c].at \in 1..Len(DefaultRoles)
        BY <1>2, <4>1, DefaultRolesType DEF BootstrapCalls, Within
      <4>3. n = DefaultRoles[call[c].at]
        BY DEF ToDo, Work
      <4> QED
        BY <4>2, <4>3, DefaultRolesType
    <3>2. /\ IF roles[n] = Missing
                THEN /\ created' = created + 1
                     /\ roles' = [roles EXCEPT ![n] = [id |-> created + 1, system |-> TRUE]]
                ELSE /\ roles' = [roles EXCEPT ![n].system = TRUE]
                     /\ UNCHANGED created
          /\ UNCHANGED <<perms, grants, assigned, late>>
      BY <2>3 DEF SeedRole
    <3> HIDE DEF n
    <3>3. CASE roles[n] = Missing
      <4> DEFINE new == [id |-> created + 1, system |-> TRUE]
      <4>1. new \in Role /\ new.id = created + 1
        BY <1>3 DEF Role
      <4>2. roles' = [roles EXCEPT ![n] = new] /\ created' = created + 1
        BY <3>2, <3>3
      <4>3. grants' = grants \cup {created + 1} \X {}
        BY <3>2
      <4> HIDE DEF new
      <4> QED
        BY <1>1, <3>1, <3>2, <3>3, <4>1, <4>2, <4>3, NewRoleStep DEF TablesTyped
    <3>4. CASE roles[n] # Missing
      <4> DEFINE same == [roles[n] EXCEPT !.system = TRUE]
      <4>1. same \in Role /\ same.id = roles[n].id
        BY <3>1, <3>4, QueryTypes DEF Role
      <4>2. roles' = [roles EXCEPT ![n] = same] /\ UNCHANGED <<created, perms, grants, assigned, late>>
        BY <3>2, <3>4
      <4> HIDE DEF same
      <4>3. /\ roles' \in [RoleNames -> Role \cup {Missing}]
            /\ \A m \in RoleNames :
                 /\ roles'[m] # Missing => roles[m] # Missing /\ roles'[m].id = roles[m].id
                 /\ roles[m] # Missing => roles'[m] # Missing
        <5>1. same # Missing
          BY <4>1, RbacAssumption
        <5> QED
          BY <1>1, <3>1, <3>4, <4>1, <4>2, <5>1 DEF TablesTyped
      <4>4. TablesTyped'
        BY <1>1, <4>2, <4>3 DEF TablesTyped
      <4>5. created' = created /\ grants' = grants
        BY <4>2
      <4>6. TablesInv'
        BY <4>3, <4>5 DEF TablesInv, Exists
      <4>7. RolesKeepIds
        BY <1>3, <4>3, <4>5 DEF RolesKeepIds
      <4> QED
        BY <4>4, <4>6, <4>7
    <3> QED
      BY <3>3, <3>4
  <2>4. CASE Wire(c)
    BY <1>5, <2>4 DEF Wire
  <2>5. CASE Join(c)
    <3> DEFINE row == [user |-> ToDo(c, "member")[1], role |-> call[c].id, name |-> ToDo(c, "member")[2],
                       scope |-> Global, until |-> "never"]
    <3>1. call[c] \in BootstrapCalls /\ call[c].step = "joining"
      BY <1>2, <2>5, CallKinds DEF Join, Bootstraps, At
    <3>2. ToDo(c, "member") \in Users \X RoleNames
      <4>1. call[c].at \in 1..Len(Members)
        BY <1>2, <3>1, MembersType DEF BootstrapCalls, Within
      <4>2. ToDo(c, "member") = Members[call[c].at]
        BY DEF ToDo, Work
      <4> QED
        BY <4>1, <4>2, MembersType
    <3>3. Exists(call[c].id) => row \in Rows
      BY <3>2, QueryTypes, RbacAssumption DEF Rows
    <3>4. assigned' = assigned \/ (Exists(row.role) /\ assigned' = assigned \cup {row})
      BY <2>5 DEF Join
    <3>5. assigned' \subseteq Rows
      BY <3>3, <3>4 DEF RbacTypeOK
    <3> QED
      BY <1>6, <2>5, <3>5 DEF Join
  <2> QED
    BY <1>11, <2>1, <2>2, <2>3, <2>4, <2>5 DEF Bootstrapping
<1> QED
  BY <1>8, <1>9, <1>10, <1>11 DEF Edits

-----------------------------------------------------------------------------
(***************************************************************************)
(* Decisions.                                                              *)
(***************************************************************************)
Watched == seen' = [c \in Calls |-> Watch(c)]

\* What the history has of a decision that goes on, and of one that is over.
LEMMA WatchFacts ==
  ASSUME Watched, NEW c \in Calls, call'[c].op \in Decisions
  PROVE  /\ call'[c].step = "done" => seen'[c] = seen[c]
         /\ call'[c].step # "done" => Live' \subseteq seen'[c].everRows /\ Granted' \subseteq seen'[c].everGrants
         /\ call'[c].step \notin {"mine", "done"} =>
              seen[c].everRows \subseteq seen'[c].everRows /\ seen[c].everGrants \subseteq seen'[c].everGrants
<1>1. seen'[c] = Watch(c)
  BY DEF Watched
<1>2. CASE call'[c].step = "done"
  BY <1>1, <1>2 DEF Watch
<1>3. CASE call'[c].step = "mine"
  <2>1. seen'[c].everRows = Live' /\ seen'[c].everGrants = Granted'
    BY <1>1, <1>3 DEF Watch
  <2> QED
    BY <1>3, <2>1
<1>4. CASE call'[c].step \notin {"mine", "done"}
  <2>1. seen'[c].everRows = seen[c].everRows \cup Live' /\ seen'[c].everGrants = seen[c].everGrants \cup Granted'
    BY <1>1, <1>4 DEF Watch
  <2> QED
    BY <1>4, <2>1
<1> QED
  BY <1>2, <1>3, <1>4

\* A decision stays sound while other calls change the tables: what it has read
\* stays in the history, and no role gets the id of another.
LEMMA OthersDecision ==
  ASSUME NEW c \in Calls, DecisionInv(c), call'[c] = call[c], Watched, RolesKeepIds,
         created \in Nat, created' \in Nat, call[c].op \in Decisions => call[c].ids \subseteq Nat
  PROVE  DecisionInv(c)'
<1> SUFFICES ASSUME call[c].op \in Decisions PROVE DecisionInv(c)'
  BY DEF DecisionInv
<1> DEFINE k == call[c]
           goes == k.step \notin {"mine", "done"}
<1>1. /\ k.step = "done" => seen'[c] = seen[c]
      /\ k.step # "done" => Live' \subseteq seen'[c].everRows /\ Granted' \subseteq seen'[c].everGrants
      /\ goes => seen[c].everRows \subseteq seen'[c].everRows /\ seen[c].everGrants \subseteq seen'[c].everGrants
  BY WatchFacts
<1>2. k.step \in {"all", "ids", "perms"} => \A a \in k.rows : a \in seen'[c].everRows /\ a.user = k.user
  BY <1>1 DEF DecisionInv
<1>3. k.step = "perms" => \A id \in k.ids : Known(c, id)'
  <2> SUFFICES ASSUME k.step = "perms", NEW id \in k.ids PROVE Known(c, id)'
    OBVIOUS
  <2>1. Known(c, id) /\ id \in Nat
    BY DEF DecisionInv
  <2>2. CASE id <= created /\ \A n \in RoleNames : roles[n] # Missing /\ roles[n].id = id => n \in Below(k.rows)
    <3>1. id <= created'
      BY <2>1, <2>2 DEF RolesKeepIds
    <3>2. \A n \in RoleNames : roles'[n] # Missing /\ roles'[n].id = id => n \in Below(k.rows)
      BY <2>1, <2>2 DEF RolesKeepIds
    <3> QED
      BY <3>1, <3>2 DEF Known
  <2> QED
    BY <2>1, <2>2 DEF Known
<1>4. k.step = "role" => HasGrant(c, seen'[c].everRows, seen'[c].everGrants)
  BY <1>1 DEF DecisionInv, HasGrant
<1>5. k.step = "role" => HasGrant(c, seen[c].everRows, seen[c].everGrants)'
  BY <1>4 DEF HasGrant
<1>6. k.step = "done" /\ k.answer = "yes" => Entitles(c, seen[c].everRows, seen[c].everGrants)'
  BY <1>1 DEF DecisionInv, Entitles
<1> QED
  BY <1>1, <1>2, <1>3, <1>5, <1>6 DEF DecisionInv

\* What the permissions of known roles allow was granted to a role of the
\* user's or to one below it.
LEMMA AllowedByGrant ==
  ASSUME RbacTypeOK, TablesInv, NEW c \in Calls, DecisionInv(c),
         call[c].op \in Decisions, call[c].step = "perms",
         HasPermission(GetPermissionsForRoles(call[c].ids), call[c].need)
  PROVE  HasGrant(c, seen[c].everRows, seen[c].everGrants)
<1>1. PICK p \in GetPermissionsForRoles(call[c].ids) : HasPermission({p}, call[c].need)
  BY DEF HasPermission
<1>2. PICK id \in call[c].ids : p \in Permissions /\ perms[p] # Missing /\ <<id, perms[p]>> \in grants
  BY <1>1 DEF GetPermissionsForRoles
<1>3. PICK n \in RoleNames : roles[n] # Missing /\ roles[n].id = id
  BY <1>2 DEF TablesInv, Exists
<1> DEFINE g == <<id, n, p>>
<1>4. g \in Granted
  <2>1. <<n, p>> \in {q \in RoleNames \X Permissions :
                       /\ roles[q[1]] # Missing /\ perms[q[2]] # Missing
                       /\ <<roles[q[1]].id, perms[q[2]]>> \in grants}
    BY <1>2, <1>3
  <2>2. g = <<roles[<<n, p>>[1]].id, <<n, p>>[1], <<n, p>>[2]>>
    BY <1>3
  <2> QED
    BY <2>1, <2>2 DEF Granted
<1>5. g \in seen[c].everGrants /\ HasPermission({g[3]}, call[c].need)
  BY <1>1, <1>4 DEF DecisionInv
<1>6. CASE \E a \in call[c].rows : id = a.role
  <2>1. PICK a \in call[c].rows : id = a.role
    BY <1>6
  <2>2. a \in seen[c].everRows /\ a.user = call[c].user
    BY DEF DecisionInv
  <2>3. g[1] = a.role
    BY <2>1
  <2> QED
    BY <1>5, <2>2, <2>3 DEF HasGrant
<1>7. CASE n \in Below(call[c].rows)
  <2>1. PICK i \in 1..Len(Hierarchy) :
          /\ Hierarchy[i] = n
          /\ \E j \in (i + 1)..Len(Hierarchy) : Hierarchy[j] \in {a.name : a \in call[c].rows}
    BY <1>7 DEF Below, ExpandRoleHierarchy
  <2>2. PICK a \in call[c].rows : \E j \in (i + 1)..Len(Hierarchy) : Hierarchy[j] = a.name
    BY <2>1
  <2>3. n # a.name
    BY <1>7, <2>2 DEF Below, ExpandRoleHierarchy
  <2>4. n \in ExpandRoleHierarchy({a.name})
    BY <2>1, <2>2, <2>3 DEF ExpandRoleHierarchy
  <2>5. a \in seen[c].everRows /\ a.user = call[c].user
    BY DEF DecisionInv
  <2>6. g[2] = n
    OBVIOUS
  <2> QED
    BY <1>5, <2>4, <2>5, <2>6 DEF HasGrant
<1>8. Known(c, id)
  BY <1>2 DEF DecisionInv
<1> QED
  BY <1>3, <1>6, <1>7, <1>8 DEF Known

\* A decision's own steps: it goes on with what it reads.
LEMMA DecideStep ==
  ASSUME RbacInv, NEW c \in Calls, Decide(c), Watched
  PROVE  DecisionInv(c)'
<1> DEFINE k == call'[c]
<1>1. /\ call' \in [Calls -> CallRecords] /\ UNCHANGED <<tables, late>> /\ k.op \in Decisions
      /\ call \in [Calls -> CallRecords] /\ RbacTypeOK /\ TablesInv /\ DecisionInv(c)
  BY DecideType DEF RbacInv, RbacTypeOK, CallRecords
<1>2. Live' = Live /\ Granted' = Granted
  BY <1>1 DEF Live, Granted, tables
<1>3. /\ k.step = "done" => seen'[c] = seen[c]
      /\ k.step # "done" => Live' \subseteq seen'[c].everRows /\ Granted' \subseteq seen'[c].everGrants
      /\ k.step \notin {"mine", "done"} =>
           seen[c].everRows \subseteq seen'[c].everRows /\ seen[c].everGrants \subseteq seen'[c].everGrants
  BY <1>1, WatchFacts
<1>4. call[c].op \in Decisions => call[c] \in AuthorizeCalls \cup GuardCalls
  BY <1>1, CallKinds DEF Decisions
<1>5. CASE BeginAuthorize(c) \/ BeginGuard(c)
  <2>1. k.step = "mine"
    BY <1>1, <1>5 DEF BeginAuthorize, BeginGuard, Begin
  <2> QED
    BY <1>3, <2>1 DEF DecisionInv
<1>6. ASSUME NEW rows, Resolved(c, rows), call[c].op \in Decisions,
             \A a \in rows : a \in seen[c].everRows /\ a.user = call[c].user
      PROVE  DecisionInv(c)'
  <2> DEFINE ids == {a.role : a \in rows}
             step == IF Below(rows) # {} THEN "ids" ELSE IF ids # {} THEN "perms" ELSE "done"
  <2>1. /\ k.rows = rows /\ k.ids = ids /\ k.user = call[c].user
        /\ k.step = step /\ (ids = {} => k.answer = "no")
    BY <1>1, <1>4, <1>6 DEF Resolved, AuthorizeCalls, GuardCalls
  <2>2. \A id \in k.ids : \E a \in k.rows : id = a.role
    BY <2>1
  <2>3. k.step = "done" => k.answer = "no"
    BY <2>1
  <2>4. k.step \in {"ids", "perms", "done"}
    BY <2>1
  <2>5. k.step # "done" => \A a \in k.rows : a \in seen'[c].everRows /\ a.user = k.user
    BY <1>3, <1>6, <2>1, <2>4
  <2>6. k.step = "perms" => \A id \in k.ids : Known(c, id)'
    BY <2>2 DEF Known
  <2> HIDE DEF ids, step
  <2> QED
    BY <1>3, <2>2, <2>3, <2>4, <2>5, <2>6 DEF DecisionInv
<1>7. CASE ReadMine(c)
  <2> DEFINE rows == GetUserRoles(call[c].user, call[c].scope)
  <2>1. call[c].op \in Decisions /\ call[c].step = "mine"
    BY <1>7 DEF ReadMine, At
  <2>2. \A a \in rows : a \in seen[c].everRows /\ a.user = call[c].user
    BY <1>1, <2>1, QueryTypes DEF DecisionInv
  <2>3. CASE call[c].scope = Anywhere
    BY <1>6, <1>7, <2>1, <2>2, <2>3 DEF ReadMine
  <2>4. CASE call[c].scope # Anywhere
    <3>1. call' = [call EXCEPT ![c].step = "all", ![c].rows = rows]
      BY <1>7, <2>4 DEF ReadMine
    <3> HIDE DEF rows
    <3>2. k.step = "all" /\ k.rows = rows /\ k.user = call[c].user
      BY <1>1, <1>4, <2>1, <3>1 DEF AuthorizeCalls, GuardCalls
    <3>3. \A a \in k.rows : a \in seen'[c].everRows /\ a.user = k.user
      BY <1>3, <2>2, <3>2
    <3> QED
      BY <1>3, <3>2, <3>3 DEF DecisionInv
  <2> QED
    BY <2>3, <2>4
<1>8. CASE ReadAll(c)
  <2> DEFINE rows == call[c].rows \cup GetUserRoles(call[c].user, Anywhere)
  <2>1. call[c].op \in Decisions /\ call[c].step = "all" /\ Resolved(c, rows)
    BY <1>8 DEF ReadAll, At
  <2>2. \A a \in rows : a \in seen[c].everRows /\ a.user = call[c].user
    BY <1>1, <2>1, QueryTypes DEF DecisionInv
  <2> QED
    BY <1>6, <2>1, <2>2
<1>9. CASE ReadIds(c)
  <2> DEFINE below == {m \in Below(call[c].rows) : roles[m] # Missing}
             more == {roles[n].id : n \in below}
  <2>1. call[c].op \in Decisions /\ call[c].step = "ids"
    BY <1>9 DEF ReadIds, At
  <2>2. call' = [call EXCEPT ![c].step = "perms", ![c].ids = @ \cup more]
    BY <1>9 DEF ReadIds
  <2> HIDE DEF more
  <2>3. k.step = "perms" /\ k.rows = call[c].rows /\ k.user = call[c].user /\ k.ids = call[c].ids \cup more
    BY <1>1, <1>4, <2>1, <2>2 DEF AuthorizeCalls, GuardCalls
  <2>4. \A a \in k.rows : a \in seen'[c].everRows /\ a.user = k.user
    BY <1>1, <1>3, <2>1, <2>3 DEF DecisionInv
  <2>5. \A id \in k.ids : Known(c, id)'
    <3> TAKE id \in k.ids
    <3>1. CASE id \in call[c].ids
      BY <1>1, <2>1, <2>3, <3>1 DEF DecisionInv, Known
    <3>2. CASE id \in more
      <4>1. PICK m \in Below(call[c].rows) : roles[m] # Missing /\ roles[m].id = id
        BY <3>2 DEF more
      <4>2. m \in RoleNames
        BY <4>1, RbacAssumption DEF Below, ExpandRoleHierarchy
      <4>3. id <= created /\ \A n \in RoleNames : roles[n] # Missing /\ roles[n].id = id => n = m
        BY <1>1, <4>1, <4>2 DEF TablesInv
      <4>4. roles' = roles /\ created' = created
        BY <1>1 DEF tables
      <4> QED
        BY <2>3, <4>1, <4>3, <4>4 DEF Known
    <3> QED
      BY <2>3, <3>1, <3>2
  <2> QED
    BY <1>3, <2>3, <2>4, <2>5 DEF DecisionInv
<1>10. CASE ReadPermissions(c)
  <2> DEFINE allowed == HasPermission(GetPermissionsForRoles(call[c].ids), call[c].need)
  <2>1. call[c].op \in Decisions /\ call[c].step = "perms"
    BY <1>10 DEF ReadPermissions, At
  <2>2. call' = [call EXCEPT
          ![c].step = IF allowed /\ call[c].op = "guard" THEN "role" ELSE "done",
          ![c].answer = IF ~allowed THEN "no" ELSE IF call[c].op = "guard" THEN @ ELSE "yes"]
    BY <1>10 DEF ReadPermissions
  <2>3. allowed => HasGrant(c, seen[c].everRows, seen[c].everGrants)
    BY <1>1, <2>1, AllowedByGrant
  <2> HIDE DEF allowed
  <2>4. /\ k.op = call[c].op /\ k.user = call[c].user /\ k.need = call[c].need
        /\ k.step = IF allowed /\ call[c].op = "guard" THEN "role" ELSE "done"
        /\ k.step = "done" /\ k.answer = "yes" => allowed /\ k.op # "guard"
    BY <1>1, <1>4, <2>1, <2>2 DEF AuthorizeCalls, GuardCalls
  <2>5. k.step = "role" => HasGrant(c, seen[c].everRows, seen[c].everGrants)'
    BY <1>3, <2>3, <2>4 DEF HasGrant
  <2>6. k.step = "done" /\ k.answer = "yes" => Entitles(c, seen[c].everRows, seen[c].everGrants)'
    BY <1>3, <2>3, <2>4 DEF HasGrant, Entitles
  <2> QED
    BY <1>3, <2>4, <2>5, <2>6 DEF DecisionInv
<1>11. CASE ReadRole(c)
  <2> DEFINE found == \E a \in GetUserRoles(call[c].user, Anywhere) : a.name = call[c].role
  <2>1. call[c].op = "guard" /\ call[c].op \in Decisions /\ call[c].step = "role"
    BY <1>11 DEF ReadRole, At, Decisions
  <2>2. call' = [call EXCEPT ![c].step = "done", ![c].answer = IF found THEN "yes" ELSE "no"]
    BY <1>11 DEF ReadRole
  <2>3. found => \E a \in seen[c].everRows : a.user = call[c].user /\ a.name = call[c].role
    BY <1>1, <2>1, QueryTypes DEF DecisionInv
  <2>4. HasGrant(c, seen[c].everRows, seen[c].everGrants)
    BY <1>1, <2>1 DEF DecisionInv
  <2> HIDE DEF found
  <2>5. /\ k.op = "guard" /\ k.user = call[c].user /\ k.need = call[c].need /\ k.role = call[c].role
        /\ k.step = "done" /\ (k.answer = "yes" => found)
    BY <1>1, <1>4, <2>1, <2>2 DEF AuthorizeCalls, GuardCalls
  <2>6. k.answer = "yes" => Entitles(c, seen[c].everRows, seen[c].everGrants)'
    BY <1>3, <2>3, <2>4, <2>5 DEF HasGrant, Entitles
  <2> QED
    BY <2>5, <2>6 DEF DecisionInv
<1> QED
  BY <1>5, <1>7, <1>8, <1>9, <1>10, <1>11 DEF Decide

-----------------------------------------------------------------------------
\* Every step, of whichever call and of the clock, keeps the invariant.
LEMMA RbacStep == RbacInv /\ [RbacNext]_rbacVars => RbacInv'
<1> SUFFICES ASSUME RbacInv, [RbacNext]_rbacVars PROVE RbacInv'
  OBVIOUS
<1>1. /\ RbacTypeOK /\ LoopsInv /\ TablesInv /\ TablesTyped
      /\ \A c \in Calls : DecisionInv(c)
      /\ call \in [Calls -> CallRecords]
  BY DEF RbacInv, RbacTypeOK, TablesTyped, CallRecords
<1>2. \A c \in Calls : call[c].op \in Decisions => call[c].ids \subseteq Nat
  BY <1>1, CallKinds DEF Decisions, AuthorizeCalls, GuardCalls
<1>3. CASE UNCHANGED rbacVars
  <2>1. /\ UNCHANGED <<roles, perms, grants, assigned, late, created>>
        /\ UNCHANGED <<call, begun, seen>>
    BY <1>3 DEF rbacVars
  <2>2. RbacTypeOK' /\ LoopsInv' /\ TablesInv'
    BY <1>1, <2>1 DEF RbacTypeOK, LoopsInv, Within, TablesInv, Exists
  <2>3. Live' = Live /\ Granted' = Granted
    BY <2>1 DEF Live, Granted
  <2>4. ASSUME NEW c \in Calls PROVE DecisionInv(c)'
    BY <1>1, <2>1, <2>3 DEF DecisionInv, Known, HasGrant, Entitles
  <2> QED
    BY <2>1, <2>2, <2>4 DEF RbacInv
<1>4. ASSUME Watched, call' \in [Calls -> CallRecords], begun' \in [edits : Nat, decisions : Nat],
             TablesTyped', TablesInv', LoopsInv', RolesKeepIds,
             \A c \in Calls : call'[c] # call[c] => DecisionInv(c)'
      PROVE  RbacInv'
  <2>1. RbacTypeOK'
    BY <1>4 DEF RbacTypeOK, TablesTyped, CallRecords
  <2>2. \A c \in Calls : DecisionInv(c)'
    <3> TAKE c \in Calls
    <3>1. created \in Nat /\ created' \in Nat
      BY <1>1, <2>1 DEF RbacTypeOK
    <3> QED
      BY <1>1, <1>2, <1>4, <3>1, OthersDecision
  <2>3. seen' = [c \in Calls |-> seen'[c]]
    BY <1>4 DEF Watched
  <2> QED
    BY <1>4, <2>1, <2>2, <2>3 DEF RbacInv
<1>5. CASE Expire /\ Watched
  <2>1. late' \in BOOLEAN /\ UNCHANGED <<roles, perms, grants, assigned, created, call, begun>>
    BY <1>5 DEF Expire, tables
  <2>2. TablesTyped' /\ TablesInv' /\ LoopsInv'
    BY <1>1, <2>1 DEF TablesTyped, TablesInv, Exists, LoopsInv, Within
  <2>3. RolesKeepIds
    BY <1>1, <2>1 DEF RolesKeepIds, TablesTyped
  <2>4. call' \in [Calls -> CallRecords] /\ begun' \in [edits : Nat, decisions : Nat]
    BY <1>1, <2>1 DEF RbacTypeOK
  <2> QED
    BY <1>4, <1>5, <2>1, <2>2, <2>3, <2>4
<1>6. ASSUME NEW c \in Calls, Decide(c), Watched PROVE RbacInv'
  <2>1. /\ call' \in [Calls -> CallRecords] /\ begun' \in [edits : Nat, decisions : Nat]
        /\ UNCHANGED <<roles, perms, grants, assigned, created, late>>
        /\ call'[c].op \in Decisions /\ \A d \in Calls \ {c} : call'[d] = call[d]
    BY <1>1, <1>6, DecideType DEF tables
  <2>2. TablesTyped' /\ TablesInv'
    BY <1>1, <2>1 DEF TablesTyped, TablesInv, Exists
  <2>3. LoopsInv'
    BY <1>1, <2>1 DEF LoopsInv, Within, Decisions
  <2>4. RolesKeepIds
    BY <1>1, <2>1 DEF RolesKeepIds, TablesTyped
  <2>5. DecisionInv(c)'
    BY <1>6, DecideStep
  <2> QED
    BY <1>4, <1>6, <2>1, <2>2, <2>3, <2>4, <2>5
<1>7. ASSUME NEW c \in Calls, Edits(c), Watched PROVE RbacInv'
  <2>1. /\ call' \in [Calls -> CallRecords] /\ begun' \in [edits : Nat, decisions : Nat]
        /\ call'[c].op \notin Decisions /\ Within(call'[c])
        /\ \A d \in Calls \ {c} : call'[d] = call[d]
    BY <1>1, <1>7, EditCall
  <2>2. TablesTyped' /\ TablesInv' /\ RolesKeepIds
    BY <1>1, <1>7, EditTables
  <2>3. LoopsInv'
    BY <1>1, <2>1 DEF LoopsInv, Within
  <2>4. DecisionInv(c)'
    BY <2>1 DEF DecisionInv
  <2> QED
    BY <1>4, <1>7, <2>1, <2>2, <2>3, <2>4
<1> QED
  BY <1>3, <1>5, <1>6, <1>7 DEF RbacNext, Watched, Edits

\* The invariant: what a decision has read was there, and what it asks of goes
\* back to the user's assignments, whatever other calls do meanwhile.
THEOREM RbacInvariance == RbacSpec => []RbacInv
  BY RbacInitial, RbacStep, PTL DEF RbacSpec

\* The type invariant of the tables and the calls.
THEOREM RbacTypeCorrect == RbacSpec => []RbacTypeOK
<1>1. RbacInv => RbacTypeOK
  BY DEF RbacInv
<1> QED
  BY RbacInvariance, <1>1, PTL

\* authorize and the guard let a user through only by an assignment and a grant
\* that were there at some moment of the decision.  The assignment counts for the
\* scope asked for: it is of that scope or global, or no scope was named.  Only
\* where one was named it may also be of another scope, for authorize looks for
\* assignments of every scope then.
THEOREM AllowedCorrect == RbacSpec => []AllowedWasGranted
<1>1. RbacInv => AllowedWasGranted
  <2> SUFFICES ASSUME RbacInv, NEW c \in Calls, Decided(c, "yes")
               PROVE  LET rows == seen[c].everRows
                          counting == InScope(c, rows)
                      IN  \/ Entitles(c, counting, seen[c].everGrants)
                          \/ /\ call[c].scope # Anywhere
                             /\ Entitles(c, rows \ counting, seen[c].everGrants)
    BY DEF AllowedWasGranted
  <2> DEFINE rows == seen[c].everRows
  <2>1. Entitles(c, rows, seen[c].everGrants)
    BY DEF RbacInv, DecisionInv, Decided, At
  <2>2. CASE call[c].scope = Anywhere
    <3>1. InScope(c, rows) = rows
      BY <2>2 DEF InScope
    <3> QED
      BY <2>1, <3>1
  <2>3. CASE call[c].scope # Anywhere
    <3>1. call[c].op # "guard"
      BY <2>3, CallKinds DEF RbacInv, RbacTypeOK, CallRecords, GuardCalls
    <3>2. PICK a \in rows, g \in seen[c].everGrants :
            /\ a.user = call[c].user /\ HasPermission({g[3]}, call[c].need)
            /\ g[1] = a.role \/ g[2] \in ExpandRoleHierarchy({a.name})
      BY <2>1 DEF Entitles
    <3>3. CASE a \in InScope(c, rows)
      BY <3>1, <3>2, <3>3 DEF Entitles
    <3>4. CASE a \in rows \ InScope(c, rows)
      BY <2>3, <3>1, <3>2, <3>4 DEF Entitles
    <3> QED
      BY <3>3, <3>4
  <2> QED
    BY <2>2, <2>3
<1> QED
  BY RbacInvariance, <1>1, PTL
-----------------------------------------------------------------------------
(***************************************************************************)
(* Grants that nothing takes away.                                         *)
(***************************************************************************)

\* An id that was found by a name is that name's: no other gets it since.
NamesRole(id, n) ==
  /\ id \in Nat /\ id <= created
  /\ \A m \in RoleNames : roles[m] # Missing /\ roles[m].id = id => m = n

NamesPermission(id, p) ==
  /\ id \in Nat /\ id <= created
  /\ \A q \in Permissions : perms[q] = id => q = p

\* Permissions have ids of their own, and a row is of the role it names.
NamesInv ==
  /\ \A p \in Permissions : perms[p] # Missing => NamesPermission(perms[p], p)
  /\ \A a \in assigned : roles[a.name] # Missing /\ roles[a.name].id = a.role

\* What a call has found is what its names are for.
Found(k) ==
  /\ k.op \in {"assign", "revoke"} /\ k.step = "write" => NamesRole(k.id, k.name)
  /\ k.op = "bootstrap" /\ k.step = "joining" => NamesRole(k.id, Members[k.at][2])
  /\ k.op = "forbid" => NamesPermission(k.id, k.perm)
  /\ k.op \in {"update", "remove"} /\ k.step = "write" =>
       /\ \A p \in k.perms : \E i \in k.ids : NamesPermission(i, p)
       /\ \A i \in k.ids : \E p \in k.perms : NamesPermission(i, p)

\* What is kept for a decision is there, and no call under way takes it away.
Safe(c) ==
  /\ seen[c].keptRows \subseteq {a \in assigned : a.until = "never"}
  /\ seen[c].keptGrants \subseteq Granted
  /\ \A d \in Calls : /\ \A a \in seen[c].keptRows : ~TakesRow(call[d], a)
                      /\ \A g \in seen[c].keptGrants : ~TakesGrant(call[d], g)

\* A grant to the role of a row or to one below it.
Reaches(a, g) == g[1] = a.role \/ g[2] \in ExpandRoleHierarchy({a.name})

\* What a decision has read holds what is kept for the user: first the rows,
\* then the ids of their roles, then those of the roles below.
KeptInv(c) ==
  call[c].op \in Decisions =>
    /\ call[c].step # "done" => Safe(c)
    /\ call[c].step \in {"all", "ids", "perms"} =>
         \A b \in call[c].rows, g \in seen[c].keptGrants : b.name = g[2] => b.role = g[1]
    /\ call[c].step \in {"ids", "perms"} =>
         /\ \A a \in seen[c].keptRows : a.user = call[c].user => a \in call[c].rows
         /\ \A b \in call[c].rows : b.role \in call[c].ids
    /\ call[c].step = "perms" =>
         \A a \in seen[c].keptRows, g \in seen[c].keptGrants :
           a.user = call[c].user /\ Reaches(a, g) => g[1] \in call[c].ids
    /\ call[c].step = "done" /\ call[c].answer = "no" =>
         ~Entitles(c, seen[c].keptRows, seen[c].keptGrants)

EntitledInv ==
  /\ NamesInv
  /\ \A c \in Calls : Found(call[c]) /\ KeptInv(c)

\* Names keep their permissions' ids as RolesKeepIds says of roles.
PermsKeepIds ==
  \A p \in Permissions : perms'[p] # Missing => perms'[p] > created \/ perms'[p] = perms[p]

\* What an id is for does not change.
LEMMA NamesLast ==
  ASSUME created \in Nat, created' \in Nat, RolesKeepIds, PermsKeepIds
  PROVE  /\ \A id, n : NamesRole(id, n) => NamesRole(id, n)'
         /\ \A id, p : NamesPermission(id, p) => NamesPermission(id, p)'
<1>1. ASSUME NEW id, NEW n, NamesRole(id, n) PROVE NamesRole(id, n)'
  BY <1>1 DEF NamesRole, RolesKeepIds
<1>2. ASSUME NEW id, NEW p, NamesPermission(id, p) PROVE NamesPermission(id, p)'
  <2>1. id \in Nat /\ id <= created'
    BY <1>2 DEF NamesPermission, RolesKeepIds
  <2>2. \A q \in Permissions : perms'[q] = id => q = p
    <3> SUFFICES ASSUME NEW q \in Permissions, perms'[q] = id PROVE q = p
      OBVIOUS
    <3>1. perms'[q] # Missing /\ ~(perms'[q] > created)
      BY <1>2, RbacAssumption DEF NamesPermission
    <3> QED
      BY <1>2, <3>1 DEF PermsKeepIds, NamesPermission
  <2> QED
    BY <2>1, <2>2 DEF NamesPermission
<1> QED
  BY <1>1, <1>2

\* The role or the permission that has an id is the one it is the id of.
LEMMA FoundById ==
  ASSUME RbacTypeOK, TablesInv, NamesInv
  PROVE  /\ \A n \in RoleNames : roles[n] # Missing => NamesRole(roles[n].id, n)
         /\ \A id, n : NamesRole(id, n) /\ Exists(id) =>
              n \in RoleNames /\ roles[n] # Missing /\ roles[n].id = id
         /\ \A ps \in SUBSET Permissions : (\A p \in ps : perms[p] # Missing) =>
              /\ \A p \in ps : \E i \in PermissionIds(ps) : NamesPermission(i, p)
              /\ \A i \in PermissionIds(ps) : \E p \in ps : NamesPermission(i, p)
<1>1. ASSUME NEW n \in RoleNames, roles[n] # Missing PROVE NamesRole(roles[n].id, n)
  BY <1>1, QueryTypes DEF NamesRole, TablesInv, Role
<1>2. ASSUME NEW id, NEW n, NamesRole(id, n), Exists(id)
      PROVE  n \in RoleNames /\ roles[n] # Missing /\ roles[n].id = id
  BY <1>2 DEF NamesRole, Exists
<1>3. ASSUME NEW ps \in SUBSET Permissions, \A p \in ps : perms[p] # Missing
      PROVE  /\ \A p \in ps : \E i \in PermissionIds(ps) : NamesPermission(i, p)
             /\ \A i \in PermissionIds(ps) : \E p \in ps : NamesPermission(i, p)
  <2>1. PermissionIds(ps) = {perms[p] : p \in ps}
    BY <1>3 DEF PermissionIds
  <2>2. \A p \in ps : NamesPermission(perms[p], p)
    BY <1>3 DEF NamesInv
  <2> QED
    BY <2>1, <2>2
<1> QED
  BY <1>1, <1>2, <1>3

\* A row that the call is not to take away stays.
LEMMA RowStays ==
  ASSUME RbacTypeOK, TablesInv, NamesInv, NEW c \in Calls, Found(call[c]), Edits(c),
         NEW a \in assigned, ~TakesRow(call[c], a)
  PROVE  a \in assigned'
<1>1. call[c] \in CallRecords /\ a.name \in RoleNames /\ roles[a.name] # Missing /\ roles[a.name].id = a.role
  BY DEF RbacTypeOK, CallRecords, NamesInv, Rows
<1>2. CASE AssignRole(c) \/ RevokeRole(c)
  <2>1. /\ call[c].op \in {"assign", "revoke"} /\ call[c].step = "write"
        /\ WithoutRow(RowOf(c)) \subseteq assigned' \/ assigned' = assigned
    BY <1>2 DEF AssignRole, RevokeRole, WithoutRow, At
  <2>2. NamesRole(call[c].id, call[c].name)
    BY <2>1 DEF Found
  <2>3. a.role = call[c].id => a.name = call[c].name
    BY <1>1, <2>2 DEF NamesRole
  <2>4. Key(a) # Key(RowOf(c))
    BY <2>1, <2>3 DEF Key, RowOf, TakesRow
  <2> QED
    BY <2>1, <2>4 DEF WithoutRow
<1>3. CASE DeleteRole(c)
  BY <1>3 DEF DeleteRole, At, TakesRow
<1>4. CASE Join(c)
  BY <1>4 DEF Join
<1>5. CASE ~(AssignRole(c) \/ RevokeRole(c) \/ DeleteRole(c) \/ Join(c))
  BY <1>5 DEF Edits, Assign, EditRole, EditPermission, Bootstrapping,
              BeginAssignment, FindByName, BeginCreate, FindConflict, BeginChange, FindById,
              ResolvePermissionIds, CreateRole, UpdateRole, AddPermissions, RemovePermissions,
              BeginPermission, FindPermission, CreatePermission, DeletePermission, Bootstrap,
              SeedPermission, SeedRole, FindToWire, Wire, FindMember, Begin, Reads, tables
<1> QED
  BY <1>2, <1>3, <1>4, <1>5

\* Grants by the tables they are read from.
GrantsAreRead ==
  /\ \A g \in Granted : \E n \in RoleNames, p \in Permissions :
       /\ roles[n] # Missing /\ perms[p] # Missing /\ <<roles[n].id, perms[p]>> \in grants
       /\ g = <<roles[n].id, n, p>>
  /\ \A n \in RoleNames, p \in Permissions :
       roles[n] # Missing /\ perms[p] # Missing /\ <<roles[n].id, perms[p]>> \in grants =>
         <<roles[n].id, n, p>> \in Granted

LEMMA GrantsRead == GrantsAreRead
<1> DEFINE Pairs == {q \in RoleNames \X Permissions :
                       /\ roles[q[1]] # Missing /\ perms[q[2]] # Missing
                       /\ <<roles[q[1]].id, perms[q[2]]>> \in grants}
<1>1. Granted = {<<roles[np[1]].id, np[1], np[2]>> : np \in Pairs}
  BY DEF Granted
<1>2. ASSUME NEW n \in RoleNames, NEW p \in Permissions,
             roles[n] # Missing, perms[p] # Missing, <<roles[n].id, perms[p]>> \in grants
      PROVE  <<roles[n].id, n, p>> \in Granted
  <2>1. <<n, p>> \in Pairs
    BY <1>2
  <2>2. <<roles[n].id, n, p>> = <<roles[<<n, p>>[1]].id, <<n, p>>[1], <<n, p>>[2]>>
    OBVIOUS
  <2> HIDE DEF Pairs
  <2> QED
    BY <1>1, <2>1, <2>2
<1>3. ASSUME NEW g \in Granted
      PROVE  \E n \in RoleNames, p \in Permissions :
               /\ roles[n] # Missing /\ perms[p] # Missing /\ <<roles[n].id, perms[p]>> \in grants
               /\ g = <<roles[n].id, n, p>>
  <2>1. PICK np \in Pairs : g = <<roles[np[1]].id, np[1], np[2]>>
    BY <1>1
  <2> QED
    BY <2>1
<1> QED
  BY <1>2, <1>3 DEF GrantsAreRead

\* A grant that the call is not to take away stays.
LEMMA GrantStays ==
  ASSUME RbacTypeOK, LoopsInv, TablesInv, NamesInv, NEW c \in Calls, Found(call[c]), Edits(c),
         NEW g \in Granted, ~TakesGrant(call[c], g)
  PROVE  g \in Granted'
<1>1. PICK n \in RoleNames, p \in Permissions :
        /\ roles[n] # Missing /\ perms[p] # Missing /\ <<roles[n].id, perms[p]>> \in grants
        /\ g = <<roles[n].id, n, p>>
  BY GrantsRead DEF GrantsAreRead
<1> DEFINE id == roles[n].id
<1>2. /\ Exists(id)
      /\ \A m \in RoleNames : roles[m] # Missing /\ roles[m].id = id => m = n
      /\ \A q \in Permissions : perms[q] = perms[p] => q = p
  BY <1>1 DEF TablesInv, NamesInv, NamesPermission, Exists
<1>0. call[c] \in CallRecords /\ g[1] = id /\ g[3] = p
  BY <1>1 DEF RbacTypeOK, CallRecords
<1> DEFINE Stays == /\ roles'[n] # Missing /\ roles'[n].id = roles[n].id
                    /\ perms'[p] = perms[p] /\ <<id, perms[p]>> \in grants'
<1> SUFFICES Stays
  <2>1. roles'[n] # Missing /\ perms'[p] # Missing /\ <<roles'[n].id, perms'[p]>> \in grants'
    BY <1>1
  <2>2. GrantsAreRead'
    BY GrantsRead, PTL
  <2> QED
    BY <1>1, <2>1, <2>2 DEF GrantsAreRead
<1>3. ASSUME UNCHANGED <<roles, perms>>, <<id, perms[p]>> \in grants' PROVE Stays
  BY <1>1, <1>3
<1>4. CASE Assign(c)
  BY <1>1, <1>4 DEF Assign, BeginAssignment, FindByName, AssignRole, RevokeRole, Begin, Reads, tables
<1>5. CASE EditRole(c)
  <2>1. CASE BeginCreate(c) \/ FindConflict(c) \/ BeginChange(c) \/ FindById(c) \/ ResolvePermissionIds(c)
    BY <1>1, <2>1 DEF BeginCreate, FindConflict, BeginChange, FindById, ResolvePermissionIds,
                      Begin, Reads, tables
  <2>2. CASE CreateRole(c)
    <3>1. CASE UNCHANGED <<roles, grants>>
      BY <1>1, <2>2, <3>1 DEF CreateRole
    <3>2. CASE ~UNCHANGED <<roles, grants>>
      <4>1. /\ roles[call[c].name] = Missing
            /\ roles' = [roles EXCEPT ![call[c].name] = [id |-> created', system |-> call[c].system]]
            /\ grants \subseteq grants' /\ perms' = perms
        BY <2>2, <3>2 DEF CreateRole
      <4>2. n # call[c].name
        BY <1>1, <4>1
      <4>3. roles'[n] = roles[n]
        BY <4>1, <4>2, <1>1 DEF RbacTypeOK
      <4> QED
        BY <1>1, <4>1, <4>3
    <3> QED
      BY <3>1, <3>2
  <2>3. CASE UpdateRole(c)
    <3>1. /\ call[c].op = "update" /\ call[c].step = "write" /\ UNCHANGED <<roles, perms>>
          /\ \/ grants' = grants
             \/ /\ MayGrant(call[c].id, call[c].ids)
                /\ grants' = (grants \ GrantsOf(call[c].id)) \cup {call[c].id} \X call[c].ids
      BY <2>3 DEF UpdateRole, At
    <3>2. CASE grants' = grants \/ id # call[c].id
      BY <1>1, <1>3, <3>1, <3>2 DEF GrantsOf
    <3>3. CASE grants' # grants /\ id = call[c].id
      <4>1. p \in call[c].perms
        BY <1>0, <3>1, <3>3 DEF TakesGrant
      <4>2. PICK i \in call[c].ids : NamesPermission(i, p)
        BY <3>1, <4>1 DEF Found
      <4>3. PICK q \in Permissions : perms[q] = i
        BY <3>1, <3>3, <4>2 DEF MayGrant, PermissionIds
      <4>4. i = perms[p]
        BY <4>2, <4>3 DEF NamesPermission
      <4> QED
        BY <1>3, <3>1, <3>3, <4>2, <4>4
    <3> QED
      BY <3>2, <3>3
  <2>4. CASE AddPermissions(c)
    BY <1>1, <1>3, <2>4 DEF AddPermissions
  <2>5. CASE RemovePermissions(c)
    <3>1. /\ call[c].op = "remove" /\ call[c].step = "write" /\ UNCHANGED <<roles, perms>>
          /\ grants' = grants \ {call[c].id} \X call[c].ids
      BY <2>5 DEF RemovePermissions, At
    <3>2. ASSUME id = call[c].id, perms[p] \in call[c].ids PROVE FALSE
      <4>1. p \notin call[c].perms
        BY <1>0, <3>1, <3>2 DEF TakesGrant
      <4>2. PICK q \in call[c].perms : NamesPermission(perms[p], q)
        BY <3>1, <3>2 DEF Found
      <4> QED
        BY <1>1, <4>1, <4>2 DEF NamesPermission
    <3> QED
      BY <1>1, <1>3, <3>1, <3>2
  <2>6. CASE DeleteRole(c)
    <3>1. /\ call[c].op = "delete" /\ perms' = perms
          /\ roles' = [m \in RoleNames |->
                        IF roles[m] # Missing /\ roles[m].id = call[c].id THEN Missing ELSE roles[m]]
          /\ grants' = grants \ GrantsOf(call[c].id)
      BY <2>6 DEF DeleteRole, At
    <3>2. id # call[c].id
      BY <1>0, <3>1 DEF TakesGrant
    <3> QED
      BY <1>1, <3>1, <3>2 DEF GrantsOf
  <2> QED
    BY <1>5, <2>1, <2>2, <2>3, <2>4, <2>5, <2>6 DEF EditRole
<1>6. CASE EditPermission(c)
  <2>1. CASE BeginPermission(c) \/ FindPermission(c)
    BY <1>1, <2>1 DEF BeginPermission, FindPermission, Begin, Reads, tables
  <2>2. CASE CreatePermission(c)
    BY <1>1, <2>2 DEF CreatePermission, RbacTypeOK
  <2>3. CASE DeletePermission(c)
    <3>1. /\ call[c].op = "forbid" /\ UNCHANGED roles
          /\ perms' = [perms EXCEPT ![call[c].perm] = IF @ = call[c].id THEN Missing ELSE @]
          /\ grants' = {h \in grants : h[2] # call[c].id}
      BY <2>3 DEF DeletePermission, At
    <3>2. p # call[c].perm
      BY <1>0, <3>1 DEF TakesGrant
    <3>3. perms[p] # call[c].id
      BY <1>1, <3>1, <3>2 DEF Found, NamesPermission
    <3> QED
      BY <1>1, <3>1, <3>2, <3>3 DEF RbacTypeOK
  <2> QED
    BY <1>6, <2>1, <2>2, <2>3 DEF EditPermission
<1>7. CASE Bootstrapping(c)
  <2>1. CASE Bootstrap(c) \/ FindToWire(c) \/ FindMember(c) \/ Join(c)
    BY <1>1, <2>1 DEF Bootstrap, FindToWire, FindMember, Join, Begin, Reads, tables
  <2>2. CASE SeedPermission(c)
    BY <1>1, <2>2 DEF SeedPermission, RbacTypeOK
  <2>3. CASE SeedRole(c)
    <3>1. /\ UNCHANGED <<perms, grants>>
          /\ IF roles[ToDo(c, "roles")] = Missing
               THEN roles' = [roles EXCEPT ![ToDo(c, "roles")] = [id |-> created', system |-> TRUE]]
               ELSE roles' = [roles EXCEPT ![ToDo(c, "roles")].system = TRUE]
      BY <2>3 DEF SeedRole
    <3>2. roles[n] \in Role
      BY <1>1 DEF RbacTypeOK
    <3>3. roles'[n] = roles[n] \/ roles'[n] = [roles[n] EXCEPT !.system = TRUE]
      BY <1>1, <3>1 DEF RbacTypeOK
    <3>4. roles'[n] \in Role /\ roles'[n].id = roles[n].id
      BY <3>2, <3>3 DEF Role
    <3> QED
      BY <1>1, <3>1, <3>4, RbacAssumption
  <2>4. CASE Wire(c)
    BY <1>1, <1>3, <2>4 DEF Wire
  <2> QED
    BY <1>7, <2>1, <2>2, <2>3, <2>4 DEF Bootstrapping
<1> QED
  BY <1>4, <1>5, <1>6, <1>7 DEF Edits

\* A step of an edit gives new ids to permissions only.
LEMMA PermsStep ==
  ASSUME RbacTypeOK, NamesInv, NEW c \in Calls, Edits(c)
  PROVE  /\ PermsKeepIds
         /\ \A p \in Permissions : perms'[p] # Missing => NamesPermission(perms[p], p)'
<1> DEFINE Goal == /\ PermsKeepIds
                   /\ \A p \in Permissions : perms'[p] # Missing => NamesPermission(perms[p], p)'
<1>1. created \in Nat /\ perms \in [Permissions -> Ids]
  BY DEF RbacTypeOK
<1>2. ASSUME UNCHANGED perms, created' = created \/ created' = created + 1 PROVE Goal
  BY <1>1, <1>2 DEF PermsKeepIds, NamesInv, NamesPermission
<1>3. ASSUME NEW p, perms[p] = Missing, created' = created + 1, perms' = [perms EXCEPT ![p] = created']
      PROVE  Goal
  <2>1. \A q \in Permissions : perms'[q] = perms[q] \/ (q = p /\ perms'[q] = created + 1)
    BY <1>1, <1>3
  <2>2. \A q \in Permissions : perms[q] # Missing => perms[q] \in Nat /\ perms[q] <= created
    BY DEF NamesInv, NamesPermission
  <2>3. PermsKeepIds
    BY <1>1, <2>1 DEF PermsKeepIds
  <2>4. ASSUME NEW q \in Permissions, perms'[q] # Missing PROVE NamesPermission(perms[q], q)'
    <3>1. perms'[q] \in Nat /\ perms'[q] <= created'
      BY <1>1, <1>3, <2>1, <2>2, <2>4
    <3>2. \A r \in Permissions : perms'[r] = perms'[q] => r = q
      <4> SUFFICES ASSUME NEW r \in Permissions, perms'[r] = perms'[q] PROVE r = q
        OBVIOUS
      <4>1. CASE perms'[q] = perms[q] /\ perms'[r] = perms[r]
        BY <2>4, <4>1 DEF NamesInv, NamesPermission
      <4>2. CASE perms'[q] = perms[q] /\ r = p /\ perms'[r] = created + 1
        BY <1>1, <2>2, <2>4, <4>2
      <4>3. CASE q = p /\ perms'[q] = created + 1
        <5>1. CASE r = p
          BY <4>3, <5>1
        <5>2. CASE r # p
          <6>1. perms[r] = created + 1
            BY <2>1, <4>3, <5>2
          <6>2. created + 1 \in Nat /\ ~(created + 1 <= created)
            BY <1>1
          <6>3. perms[r] # Missing
            BY <6>1, <6>2, RbacAssumption
          <6> QED
            BY <2>2, <6>1, <6>2, <6>3
        <5> QED
          BY <5>1, <5>2
      <4> QED
        BY <2>1, <4>1, <4>2, <4>3
    <3> QED
      BY <3>1, <3>2 DEF NamesPermission
  <2> QED
    BY <2>3, <2>4
<1>4. CASE DeletePermission(c)
  <2>1. created' = created /\ perms' = [perms EXCEPT ![call[c].perm] = IF @ = call[c].id THEN Missing ELSE @]
    BY <1>4 DEF DeletePermission
  <2>2. \A q \in Permissions : perms'[q] = perms[q] \/ perms'[q] = Missing
    BY <1>1, <2>1
  <2>3. PermsKeepIds
    BY <2>2 DEF PermsKeepIds
  <2>4. ASSUME NEW q \in Permissions, perms'[q] # Missing PROVE NamesPermission(perms[q], q)'
    <3>1. perms'[q] = perms[q] /\ NamesPermission(perms[q], q)
      BY <2>2, <2>4 DEF NamesInv
    <3>2. \A r \in Permissions : perms'[r] = perms'[q] => r = q
      BY <2>2, <2>4, <3>1 DEF NamesPermission
    <3> QED
      BY <2>1, <3>1, <3>2 DEF NamesPermission
  <2> QED
    BY <2>3, <2>4
<1>5. CASE CreatePermission(c)
  BY <1>2, <1>3, <1>5 DEF CreatePermission
<1>6. CASE SeedPermission(c)
  BY <1>2, <1>3, <1>6 DEF SeedPermission
<1>7. CASE CreateRole(c) \/ SeedRole(c)
  BY <1>2, <1>7 DEF CreateRole, SeedRole
<1>8. CASE ~(DeletePermission(c) \/ CreatePermission(c) \/ SeedPermission(c) \/ CreateRole(c) \/ SeedRole(c))
  <2>1. UNCHANGED <<perms, created>>
    BY <1>8 DEF Edits, Assign, EditRole, EditPermission, Bootstrapping,
              BeginAssignment, FindByName, AssignRole, RevokeRole,
              BeginCreate, FindConflict, BeginChange, FindById,
              ResolvePermissionIds, UpdateRole, AddPermissions, RemovePermissions, DeleteRole,
              BeginPermission, FindPermission, Bootstrap,
              FindToWire, Wire, FindMember, Join, Begin, Reads, tables
  <2> QED
    BY <1>2, <2>1
<1> QED
  BY <1>4, <1>5, <1>6, <1>7, <1>8

\* Whom a call of bootstrap is at.
LEMMA MemberToDo ==
  ASSUME NEW c \in Calls, call[c] \in BootstrapCalls, Within(call[c]),
         call[c].step \in {"member", "joining"}
  PROVE  /\ ToDo(c, "member") = Members[call[c].at]
         /\ ToDo(c, "member") \in Users \X RoleNames
<1>1. call[c].at \in 1..Len(Members)
  BY MembersType DEF BootstrapCalls, Within
<1>2. ToDo(c, "member") = Members[call[c].at]
  BY DEF ToDo, Work
<1> QED
  BY <1>1, <1>2, MembersType

\* A row stays one of the role it names.
LEMMA RowsStep ==
  ASSUME RbacTypeOK, LoopsInv, TablesInv, NamesInv, NEW c \in Calls, Found(call[c]), Edits(c)
  PROVE  \A a \in assigned' : roles'[a.name] # Missing /\ roles'[a.name].id = a.role
<1> DEFINE RoleStands(a) == roles'[a.name] # Missing /\ roles'[a.name].id = a.role
<1>1. call[c] \in CallRecords /\ Within(call[c])
  BY DEF RbacTypeOK, CallRecords, LoopsInv
<1>2. \A a \in assigned : a.name \in RoleNames /\ roles[a.name] # Missing /\ roles[a.name].id = a.role
  BY DEF RbacTypeOK, Rows, NamesInv
<1>3. ASSUME NEW row, UNCHANGED roles,
             assigned' \subseteq assigned \/ (/\ assigned' \subseteq assigned \cup {row}
                                              /\ NamesRole(row.role, row.name) /\ Exists(row.role))
      PROVE  \A a \in assigned' : RoleStands(a)
  BY <1>2, <1>3, FoundById
<1>4. CASE Assign(c)
  <2>1. CASE BeginAssignment(c) \/ FindByName(c)
    BY <1>3, <2>1 DEF BeginAssignment, FindByName, Begin, Reads, tables
  <2>2. CASE AssignRole(c)
    <3>1. NamesRole(call[c].id, call[c].name)
      BY <2>2 DEF AssignRole, At, Found
    <3>2. RowOf(c).role = call[c].id /\ RowOf(c).name = call[c].name
      BY DEF RowOf
    <3>3. /\ UNCHANGED roles
          /\ assigned' = assigned \/ (Exists(call[c].id) /\ assigned' \subseteq assigned \cup {RowOf(c)})
      BY <2>2 DEF AssignRole, WithoutRow
    <3> QED
      BY <1>3, <3>1, <3>2, <3>3
  <2>3. CASE RevokeRole(c)
    BY <1>3, <2>3 DEF RevokeRole, WithoutRow
  <2> QED
    BY <1>4, <2>1, <2>2, <2>3 DEF Assign
<1>5. CASE DeleteRole(c)
  BY <1>2, <1>5 DEF DeleteRole
<1>6. CASE CreateRole(c)
  BY <1>2, <1>6 DEF CreateRole, RbacTypeOK
<1>7. CASE SeedRole(c)
  <2>1. /\ assigned' = assigned
        /\ IF roles[ToDo(c, "roles")] = Missing
             THEN roles' = [roles EXCEPT ![ToDo(c, "roles")] = [id |-> created', system |-> TRUE]]
             ELSE roles' = [roles EXCEPT ![ToDo(c, "roles")].system = TRUE]
    BY <1>7 DEF SeedRole
  <2> SUFFICES ASSUME NEW a \in assigned' PROVE RoleStands(a)
    OBVIOUS
  <2>2. a.name \in RoleNames /\ roles[a.name] # Missing /\ roles[a.name].id = a.role /\ roles[a.name] \in Role
    BY <1>2, <2>1 DEF RbacTypeOK
  <2>3. roles'[a.name] = roles[a.name] \/ roles'[a.name] = [roles[a.name] EXCEPT !.system = TRUE]
    BY <2>1, <2>2 DEF RbacTypeOK
  <2>4. roles'[a.name] \in Role /\ roles'[a.name].id = roles[a.name].id
    BY <2>2, <2>3 DEF Role
  <2> QED
    BY <2>2, <2>4, RbacAssumption
<1>8. CASE Join(c)
  <2> DEFINE row == [user |-> ToDo(c, "member")[1], role |-> call[c].id, name |-> ToDo(c, "member")[2],
                     scope |-> Global, until |-> "never"]
  <2>1. call[c].op = "bootstrap" /\ call[c].step = "joining" /\ UNCHANGED roles
    BY <1>8 DEF Join, Bootstraps, At
  <2>2. ToDo(c, "member") = Members[call[c].at]
    BY <1>1, <2>1, CallKinds, MemberToDo
  <2>3. NamesRole(call[c].id, ToDo(c, "member")[2])
    BY <2>1, <2>2 DEF Found
  <2>4. row.role = call[c].id /\ row.name = ToDo(c, "member")[2]
    OBVIOUS
  <2>5. assigned' = assigned \/ (Exists(row.role) /\ assigned' = assigned \cup {row})
    BY <1>8 DEF Join
  <2> HIDE DEF row
  <2> QED
    BY <1>3, <2>1, <2>3, <2>4, <2>5
<1>9. CASE ~(Assign(c) \/ DeleteRole(c) \/ CreateRole(c) \/ SeedRole(c) \/ Join(c))
  <2>1. UNCHANGED <<roles, assigned>>
    BY <1>9 DEF Edits, EditRole, EditPermission, Bootstrapping,
              BeginCreate, FindConflict, BeginChange, FindById,
              ResolvePermissionIds, UpdateRole, AddPermissions, RemovePermissions,
              BeginPermission, FindPermission, CreatePermission, DeletePermission, Bootstrap,
              SeedPermission, FindToWire, Wire, FindMember, Begin, Reads, tables
  <2> QED
    BY <1>3, <2>1
<1> QED
  BY <1>4, <1>5, <1>6, <1>7, <1>8, <1>9

\* What a call finds next is what its names are for.
LEMMA FoundStep ==
  ASSUME RbacTypeOK, LoopsInv, TablesInv, NamesInv, NEW c \in Calls, Found(call[c]), Edits(c),
         RolesKeepIds, PermsKeepIds, created \in Nat, created' \in Nat
  PROVE  Found(call[c])'
<1> DEFINE k == call[c]
           Goal == Found(call[c])'
<1>1. k \in CallRecords /\ Within(k) /\ call \in [Calls -> CallRecords]
  BY DEF RbacTypeOK, CallRecords, LoopsInv
<1>2. ASSUME NEW x, Found(x), call'[c] = x PROVE Goal
  BY <1>2, NamesLast DEF Found
<1>3. ASSUME Returns(c) PROVE Goal
  <2>1. call'[c] = Resting
    BY <1>1, <1>3 DEF Returns
  <2> QED
    BY <2>1 DEF Found, Resting
<1>4. ASSUME NEW x, call'[c] = x,
             \/ x.op \notin {"assign", "revoke", "forbid", "bootstrap", "update", "remove"}
             \/ x.op = "bootstrap" /\ x.step # "joining"
             \/ x.op \in {"assign", "revoke", "update", "remove"} /\ x.step # "write"
      PROVE  Goal
  BY <1>4 DEF Found
<1>5. ASSUME NEW step, Loop(c, step), k.op = "bootstrap", step \in {"permissions", "roles", "wire", "member"}
      PROVE  Goal
  <2>1. k \in BootstrapCalls
    BY <1>1, <1>5, CallKinds
  <2>2. CASE call[c].at < Len(Work(step))
    <3>1. call'[c] = [k EXCEPT !.step = step, !.at = @ + 1]
      BY <1>1, <1>5, <2>2 DEF Loop
    <3>2. [k EXCEPT !.step = step, !.at = @ + 1].op = "bootstrap"
          /\ [k EXCEPT !.step = step, !.at = @ + 1].step # "joining"
      BY <1>5, <2>1 DEF BootstrapCalls
    <3> QED
      BY <1>4, <3>1, <3>2
  <2>3. CASE ~(call[c].at < Len(Work(step))) /\ step # "member"
    <3>1. call'[c] = [k EXCEPT !.step = After(step), !.at = 1]
      BY <1>1, <1>5, <2>3 DEF Loop
    <3>2. After(step) \in {"roles", "wire", "member"}
      BY <1>5, <2>3 DEF After
    <3>3. [k EXCEPT !.step = After(step), !.at = 1].op = "bootstrap"
          /\ [k EXCEPT !.step = After(step), !.at = 1].step # "joining"
      BY <1>5, <2>1, <3>2 DEF BootstrapCalls
    <3> QED
      BY <1>4, <3>1, <3>3
  <2> QED
    BY <1>3, <1>5, <2>2, <2>3 DEF Loop
<1>6. CASE Assign(c)
  <2>1. CASE BeginAssignment(c)
    <3>1. PICK op \in {"assign", "revoke"}, u \in Users, n \in RoleNames, s \in Scopes,
               until \in {"never", "later"} :
            Begin(c, [op |-> op, step |-> "find", user |-> u, name |-> n, scope |-> s,
                      until |-> until, id |-> Missing])
      BY <2>1 DEF BeginAssignment
    <3>2. call'[c] = [op |-> op, step |-> "find", user |-> u, name |-> n, scope |-> s,
                      until |-> until, id |-> Missing]
      BY <1>1, <3>1 DEF Begin
    <3> QED
      BY <1>4, <3>2
  <2>2. CASE FindByName(c)
    <3>1. k \in AssignmentCalls
      BY <1>1, <2>2, CallKinds DEF FindByName, At
    <3>2. CASE roles[k.name] # Missing
      <4> DEFINE id == roles[k.name].id
                 x == [k EXCEPT !.step = "write", !.id = id]
      <4>1. call'[c] = x
        BY <1>1, <2>2, <3>2 DEF FindByName
      <4>2. k.name \in RoleNames /\ NamesRole(id, k.name)
        BY <3>1, <3>2, FoundById DEF AssignmentCalls
      <4> HIDE DEF id
      <4>3. x.op \in {"assign", "revoke"} /\ x.id = id /\ x.name = k.name
        BY <3>1 DEF AssignmentCalls
      <4> HIDE DEF x
      <4>4. Found(x)
        BY <4>2, <4>3 DEF Found
      <4> QED
        BY <1>2, <4>1, <4>4
    <3> QED
      BY <1>3, <2>2, <3>2 DEF FindByName
  <2> QED
    BY <1>3, <1>6, <2>1, <2>2 DEF Assign, AssignRole, RevokeRole
<1>7. CASE EditRole(c)
  <2>1. CASE BeginCreate(c)
    <3>1. call'[c].op = "create"
      BY <1>1, <2>1 DEF BeginCreate, Begin
    <3> QED
      BY <1>4, <3>1
  <2>2. CASE BeginChange(c)
    <3>1. call'[c].step = "find" /\ call'[c].op \in Changes \cup {"delete"}
      BY <1>1, <2>2 DEF BeginChange, Begin
    <3> QED
      BY <1>4, <3>1 DEF Changes
  <2>3. ASSUME NEW step, Goes(c, step), k.op \in Changes \cup {"create", "delete"},
               k.op \in Changes => step # "write"
        PROVE  Goal
    <3>1. k \in CreateCalls \cup ChangeCalls
      BY <1>1, <2>3, CallKinds
    <3>2. call'[c] = [k EXCEPT !.step = step]
      BY <1>1, <2>3 DEF Goes
    <3>3. call'[c].op = k.op /\ call'[c].step = step
      BY <3>1, <3>2 DEF CreateCalls, ChangeCalls
    <3> QED
      BY <1>4, <2>3, <3>3 DEF Changes
  <2>4. CASE FindConflict(c)
    BY <1>3, <2>3, <2>4 DEF FindConflict, At, Changes
  <2>5. CASE FindById(c)
    BY <1>3, <2>3, <2>5 DEF FindById, At, Changes
  <2>6. CASE ResolvePermissionIds(c)
    <3> DEFINE ids == PermissionIds(k.perms)
               x == [k EXCEPT !.step = "write", !.ids = ids]
    <3>1. k \in CreateCalls \cup ChangeCalls
      BY <1>1, <2>6, CallKinds DEF ResolvePermissionIds, At
    <3>2. CASE Returns(c)
      BY <1>3, <3>2
    <3>3. CASE ~Returns(c)
      <4>1. call'[c] = x /\ \A p \in k.perms : perms[p] # Missing
        BY <1>1, <2>6, <3>3 DEF ResolvePermissionIds
      <4>2. k.perms \in SUBSET Permissions
        BY <3>1 DEF CreateCalls, ChangeCalls
      <4>3. /\ \A p \in k.perms : \E i \in ids : NamesPermission(i, p)
            /\ \A i \in ids : \E p \in k.perms : NamesPermission(i, p)
        BY <4>1, <4>2, FoundById
      <4> HIDE DEF ids
      <4>4. x.op \in Changes \cup {"create", "delete"} /\ x.ids = ids /\ x.perms = k.perms
        BY <3>1 DEF CreateCalls, ChangeCalls
      <4> HIDE DEF x
      <4>5. Found(x)
        BY <4>3, <4>4 DEF Found, Changes
      <4> QED
        BY <1>2, <4>1, <4>5
    <3> QED
      BY <3>2, <3>3
  <2> QED
    BY <1>3, <1>7, <2>1, <2>2, <2>4, <2>5, <2>6
       DEF EditRole, CreateRole, UpdateRole, AddPermissions, RemovePermissions, DeleteRole
<1>8. CASE EditPermission(c)
  <2>1. CASE BeginPermission(c)
    <3>1. PICK p \in Permissions, op \in {"permit", "forbid"} :
            /\ op = "forbid" => perms[p] # Missing
            /\ Begin(c, [op |-> op, step |-> "find", perm |-> p, id |-> perms[p]])
      BY <2>1 DEF BeginPermission
    <3> DEFINE x == [op |-> op, step |-> "find", perm |-> p, id |-> perms[p]]
    <3>2. call'[c] = x
      BY <1>1, <3>1 DEF Begin
    <3>3. Found(x)
      BY <3>1 DEF Found, NamesInv
    <3> QED
      BY <1>2, <3>2, <3>3
  <2>2. CASE FindPermission(c)
    <3>1. k \in PermissionCalls
      BY <1>1, <2>2, CallKinds DEF FindPermission, At
    <3> DEFINE x == [k EXCEPT !.step = "write"]
    <3>2. call'[c] = x \/ Returns(c)
      BY <1>1, <2>2 DEF FindPermission, Goes
    <3>3. x.op = k.op /\ x.perm = k.perm /\ x.id = k.id /\ k.op \in {"permit", "forbid"}
      BY <3>1 DEF PermissionCalls
    <3> HIDE DEF x
    <3>4. Found(x)
      BY <3>3 DEF Found
    <3> QED
      BY <1>2, <1>3, <3>2, <3>4
  <2> QED
    BY <1>3, <1>8, <2>1, <2>2 DEF EditPermission, CreatePermission, DeletePermission
<1>9. CASE Bootstrapping(c)
  <2>1. CASE Bootstrap(c)
    <3>1. call'[c].op = "bootstrap" /\ call'[c].step = "permissions"
      BY <1>1, <2>1 DEF Bootstrap, Begin
    <3> QED
      BY <1>4, <3>1
  <2>2. CASE SeedPermission(c) \/ SeedRole(c) \/ Wire(c) \/ Join(c)
    BY <1>3, <1>5, <2>2 DEF SeedPermission, SeedRole, Wire, Join, Bootstraps, At
  <2>3. CASE FindToWire(c)
    <3>1. k \in BootstrapCalls /\ k.op = "bootstrap"
      BY <1>1, <2>3, CallKinds DEF FindToWire, Bootstraps, At
    <3>2. CASE Loop(c, "wire")
      BY <1>5, <3>1, <3>2
    <3>3. CASE ~Loop(c, "wire")
      <4> DEFINE id == roles[ToDo(c, "wire")].id
                 ids == PermissionIds(Permissions \cap DefaultRolePermissions(ToDo(c, "wire")))
      <4>1. call'[c] = [k EXCEPT !.step = "wiring", !.id = id, !.ids = ids]
        BY <1>1, <2>3, <3>3 DEF FindToWire
      <4> HIDE DEF id, ids
      <4>2. call'[c].op = "bootstrap" /\ call'[c].step = "wiring"
        BY <3>1, <4>1 DEF BootstrapCalls
      <4> QED
        BY <1>4, <4>2
    <3> QED
      BY <3>2, <3>3
  <2>4. CASE FindMember(c)
    <3>1. k \in BootstrapCalls /\ k.op = "bootstrap" /\ k.step = "member"
      BY <1>1, <2>4, CallKinds DEF FindMember, Bootstraps, At
    <3>2. CASE Loop(c, "member")
      BY <1>5, <3>1, <3>2
    <3>3. CASE ~Loop(c, "member")
      <4> DEFINE n == ToDo(c, "member")[2]
                 id == roles[n].id
                 x == [k EXCEPT !.step = "joining", !.id = id]
      <4>1. call'[c] = x /\ roles[n] # Missing
        BY <1>1, <2>4, <3>3 DEF FindMember
      <4>2. n = Members[k.at][2] /\ n \in RoleNames
        BY <1>1, <3>1, MemberToDo
      <4>3. NamesRole(id, n)
        BY <4>1, <4>2, FoundById
      <4> HIDE DEF n, id
      <4>4. x.op = "bootstrap" /\ x.at = k.at /\ x.id = id
        BY <3>1 DEF BootstrapCalls
      <4> HIDE DEF x
      <4>5. Found(x)
        BY <4>2, <4>3, <4>4 DEF Found
      <4> QED
        BY <1>2, <4>1, <4>5
    <3> QED
      BY <3>2, <3>3
  <2> QED
    BY <1>9, <2>1, <2>2, <2>3, <2>4 DEF Bootstrapping
<1> QED
  BY <1>6, <1>7, <1>8, <1>9 DEF Edits

\* What is there and that no call takes away is there after the step.
Stays ==
  /\ \A a \in assigned : (\A d \in Calls : ~TakesRow(call[d], a)) => a \in assigned'
  /\ \A g \in Granted : (\A d \in Calls : ~TakesGrant(call[d], g)) => g \in Granted'

\* A decision that goes on has kept no more than is there.
LEMMA StaysSafe ==
  ASSUME Watched, Stays, NEW c \in Calls, call'[c].op \in Decisions, call'[c].step # "done",
         call'[c].step # "mine" => Safe(c)
  PROVE  /\ Safe(c)'
         /\ call'[c].step # "mine" =>
              /\ seen'[c].keptRows \subseteq seen[c].keptRows
              /\ seen'[c].keptGrants \subseteq seen[c].keptGrants
<1>1. seen'[c] = Watch(c)
  BY DEF Watched
<1>2. CASE call'[c].step = "mine"
  <2>1. /\ seen'[c].keptRows = KeptRows({a \in assigned' : a.until = "never"})
        /\ seen'[c].keptGrants = KeptGrants(Granted')
    BY <1>1, <1>2 DEF Watch
  <2> QED
    BY <1>2, <2>1 DEF Safe, KeptRows, KeptGrants
<1>3. CASE call'[c].step # "mine"
  <2>1. /\ seen'[c].keptRows = KeptRows(seen[c].keptRows)
        /\ seen'[c].keptGrants = KeptGrants(seen[c].keptGrants)
    BY <1>1, <1>3 DEF Watch
  <2>2. /\ \A a \in seen'[c].keptRows : a \in seen[c].keptRows /\ \A d \in Calls : ~TakesRow(call'[d], a)
        /\ \A g \in seen'[c].keptGrants : g \in seen[c].keptGrants /\ \A d \in Calls : ~TakesGrant(call'[d], g)
    BY <2>1 DEF KeptRows, KeptGrants
  <2>3. /\ \A a \in seen[c].keptRows : a \in assigned' /\ a.until = "never"
        /\ \A g \in seen[c].keptGrants : g \in Granted'
    BY <1>3 DEF Safe, Stays
  <2>4. Safe(c)'
    BY <2>2, <2>3 DEF Safe
  <2> QED
    BY <2>2, <2>4
<1> QED
  BY <1>2, <1>3

\* A decision that is over keeps its history.
LEMMA WatchOver ==
  ASSUME Watched, NEW c \in Calls, call'[c].op \in Decisions, call'[c].step = "done"
  PROVE  seen'[c] = seen[c]
  BY DEF Watched, Watch

\* What other calls do leaves what a decision has read.
LEMMA OthersKept ==
  ASSUME Watched, Stays, NEW c \in Calls, KeptInv(c), call'[c] = call[c]
  PROVE  KeptInv(c)'
<1> SUFFICES ASSUME call[c].op \in Decisions PROVE KeptInv(c)'
  BY DEF KeptInv
<1>1. CASE call[c].step = "done"
  <2>1. seen'[c] = seen[c]
    BY <1>1, WatchOver
  <2> QED
    BY <1>1, <2>1 DEF KeptInv, Entitles
<1>2. CASE call[c].step # "done"
  <2>1. /\ Safe(c)'
        /\ call[c].step # "mine" =>
             /\ seen'[c].keptRows \subseteq seen[c].keptRows
             /\ seen'[c].keptGrants \subseteq seen[c].keptGrants
    BY <1>2, StaysSafe DEF KeptInv
  <2> QED
    BY <1>2, <2>1 DEF KeptInv, Reaches
<1> QED
  BY <1>1, <1>2

\* Whoever may do one thing that a set of permissions has may do it with the set.
LEMMA MorePermits ==
  ASSUME NEW granted, NEW p \in granted, NEW required, HasPermission({p}, required)
  PROVE  HasPermission(granted, required)
  BY DEF HasPermission

\* The roles below one of several, unless they are among them.
LEMMA BelowOne ==
  ASSUME NEW rows, NEW a \in rows, NEW n \in ExpandRoleHierarchy({a.name})
  PROVE  n \in Below(rows) \/ \E b \in rows : b.name = n
<1>1. PICK i \in 1..Len(Hierarchy) :
        Hierarchy[i] = n /\ \E k \in (i + 1)..Len(Hierarchy) : Hierarchy[k] \in {a.name}
  BY DEF ExpandRoleHierarchy
<1>2. \E k \in (i + 1)..Len(Hierarchy) : Hierarchy[k] \in {b.name : b \in rows}
  BY <1>1
<1>3. n \in {Hierarchy[j] : j \in {l \in 1..Len(Hierarchy) :
              \E k \in (l + 1)..Len(Hierarchy) : Hierarchy[k] \in {b.name : b \in rows}}}
  BY <1>1, <1>2
<1> QED
  BY <1>3 DEF Below, ExpandRoleHierarchy

\* A kept grant is among the permissions of the ids, once its role's id is.
LEMMA KeptGrantIsRead ==
  ASSUME NEW c \in Calls, Safe(c), NEW g \in seen[c].keptGrants, NEW ids, g[1] \in ids
  PROVE  g[3] \in GetPermissionsForRoles(ids)
<1>1. g \in Granted
  BY DEF Safe
<1>2. PICK n \in RoleNames, p \in Permissions :
        /\ roles[n] # Missing /\ perms[p] # Missing /\ <<roles[n].id, perms[p]>> \in grants
        /\ g = <<roles[n].id, n, p>>
  BY <1>1, GrantsRead DEF GrantsAreRead
<1>3. g[1] = roles[n].id /\ g[3] = p
  BY <1>2
<1> QED
  BY <1>2, <1>3 DEF GetPermissionsForRoles

\* A row that is there and a kept grant agree on the id of a name.
LEMMA RowMeetsGrant ==
  ASSUME NamesInv, NEW c \in Calls, Safe(c), NEW g \in seen[c].keptGrants,
         NEW b \in assigned, b.name = g[2]
  PROVE  b.role = g[1]
<1>1. PICK n \in RoleNames, p \in Permissions : roles[n] # Missing /\ g = <<roles[n].id, n, p>>
  BY GrantsRead DEF Safe, GrantsAreRead
<1>2. g[1] = roles[n].id /\ g[2] = n
  BY <1>1
<1> QED
  BY <1>2 DEF NamesInv

\* A decision's own steps read what is kept for the user.
LEMMA DecideKept ==
  ASSUME RbacInv, NamesInv, NEW c \in Calls, KeptInv(c), Decide(c), Watched, Stays
  PROVE  KeptInv(c)'
<1> DEFINE k == call[c]
           y == call'[c]
           mine == {a \in seen[c].keptRows : a.user = k.user}
<1>1. /\ call' \in [Calls -> CallRecords] /\ UNCHANGED <<tables, late>> /\ y.op \in Decisions
      /\ call \in [Calls -> CallRecords] /\ RbacTypeOK
  BY DecideType DEF RbacInv, RbacTypeOK, CallRecords
<1>2. k.op \in Decisions => k \in AuthorizeCalls \cup GuardCalls
  BY <1>1, CallKinds DEF Decisions
<1>3. CASE BeginAuthorize(c) \/ BeginGuard(c)
  <2>1. y.step = "mine"
    BY <1>1, <1>3 DEF BeginAuthorize, BeginGuard, Begin
  <2>2. Safe(c)'
    BY <1>1, <2>1, StaysSafe
  <2> QED
    BY <2>1, <2>2 DEF KeptInv
<1>4. ASSUME k.op \in Decisions, k.step # "done" PROVE Safe(c)
  BY <1>4 DEF KeptInv
<1>5. ASSUME k.op \in Decisions, k.step # "done", y.step \notin {"mine", "done"}
      PROVE  /\ Safe(c)'
             /\ seen'[c].keptRows \subseteq seen[c].keptRows
             /\ seen'[c].keptGrants \subseteq seen[c].keptGrants
  BY <1>1, <1>4, <1>5, StaysSafe
<1>6. ASSUME k.op \in Decisions, k.step # "done"
      PROVE  \A a \in seen[c].keptRows : a \in GetUserRoles(a.user, Anywhere)
  BY <1>4, <1>6 DEF Safe, GetUserRoles, Live
<1>7. ASSUME NEW rows, Resolved(c, rows), k.op \in Decisions, k.step # "done", mine \subseteq rows,
             \A b \in rows, g \in seen[c].keptGrants : b.name = g[2] => b.role = g[1]
      PROVE  KeptInv(c)'
  <2> DEFINE ids == {a.role : a \in rows}
             step == IF Below(rows) # {} THEN "ids" ELSE IF ids # {} THEN "perms" ELSE "done"
  <2>1. y = [k EXCEPT !.rows = rows, !.ids = ids, !.step = step,
                      !.answer = IF ids = {} THEN "no" ELSE @]
    BY <1>1, <1>7 DEF Resolved
  <2>2. y.rows = rows /\ y.ids = ids /\ y.user = k.user /\ y.step = step
    BY <1>2, <1>7, <2>1 DEF AuthorizeCalls, GuardCalls
  <2>3. y.step \in {"ids", "perms"} =>
          /\ Safe(c)'
          /\ seen'[c].keptRows \subseteq seen[c].keptRows
          /\ seen'[c].keptGrants \subseteq seen[c].keptGrants
    BY <1>5, <1>7
  <2>4. \A b \in rows : b.role \in ids
    OBVIOUS
  <2>5. ASSUME y.step = "perms", NEW a \in seen[c].keptRows, NEW g \in seen[c].keptGrants,
               a.user = k.user, Reaches(a, g)
        PROVE  g[1] \in ids
    <3>1. a \in rows
      BY <1>7, <2>5
    <3>2. CASE g[1] = a.role
      BY <3>1, <3>2
    <3>3. CASE g[2] \in ExpandRoleHierarchy({a.name})
      <4>1. PICK b \in rows : b.name = g[2]
        BY <2>2, <2>5, <3>1, <3>3, BelowOne
      <4> QED
        BY <1>7, <4>1
    <3> QED
      BY <2>5, <3>2, <3>3 DEF Reaches
  <2>6. y.step = "done" => rows = {}
    BY <2>2
  <2>7. y.step = "done" => ~Entitles(c, seen[c].keptRows, seen[c].keptGrants)'
    <3> SUFFICES ASSUME y.step = "done" PROVE ~Entitles(c, seen[c].keptRows, seen[c].keptGrants)'
      OBVIOUS
    <3>1. seen'[c] = seen[c] /\ mine = {}
      BY <1>1, <1>7, <2>6, WatchOver
    <3> QED
      BY <2>2, <3>1 DEF Entitles
  <2>8. y.step \in {"ids", "perms", "done"}
    BY <2>2
  <2>9. y.step \in {"ids", "perms"} =>
          /\ \A b \in y.rows, g \in seen'[c].keptGrants : b.name = g[2] => b.role = g[1]
          /\ \A a \in seen'[c].keptRows : a.user = y.user => a \in y.rows
          /\ \A b \in y.rows : b.role \in y.ids
    BY <1>7, <2>2, <2>3, <2>4
  <2>10. y.step = "perms" =>
           \A a \in seen'[c].keptRows, g \in seen'[c].keptGrants :
             a.user = y.user /\ Reaches(a, g) => g[1] \in y.ids
    BY <2>2, <2>3, <2>5
  <2> HIDE DEF ids, step
  <2> QED
    BY <2>3, <2>7, <2>8, <2>9, <2>10 DEF KeptInv, Reaches
<1>8. CASE ReadMine(c)
  <2> DEFINE rows == GetUserRoles(k.user, k.scope)
  <2>1. k.op \in Decisions /\ k.step = "mine"
    BY <1>8 DEF ReadMine, At
  <2>2. \A b \in rows : b \in assigned
    BY <1>1, QueryTypes DEF Live
  <2>3. \A b \in rows, g \in seen[c].keptGrants : b.name = g[2] => b.role = g[1]
    BY <1>4, <2>1, <2>2, RowMeetsGrant
  <2>4. CASE k.scope = Anywhere
    <3>1. mine \subseteq rows
      BY <1>6, <2>1, <2>4
    <3>2. Resolved(c, rows)
      BY <1>8, <2>4 DEF ReadMine
    <3> QED
      BY <1>7, <2>1, <2>3, <3>1, <3>2
  <2>5. CASE k.scope # Anywhere
    <3>1. y = [k EXCEPT !.step = "all", !.rows = rows]
      BY <1>1, <1>8, <2>5 DEF ReadMine
    <3> HIDE DEF rows
    <3>2. y.step = "all" /\ y.rows = rows
      BY <1>2, <2>1, <3>1 DEF AuthorizeCalls, GuardCalls
    <3>3. Safe(c)' /\ seen'[c].keptGrants \subseteq seen[c].keptGrants
      BY <1>5, <2>1, <3>2
    <3> QED
      BY <2>3, <3>2, <3>3 DEF KeptInv
  <2> QED
    BY <2>4, <2>5
<1>9. CASE ReadAll(c)
  <2> DEFINE all == GetUserRoles(k.user, Anywhere)
             rows == k.rows \cup all
  <2>1. k.op \in Decisions /\ k.step = "all" /\ Resolved(c, rows)
    BY <1>9 DEF ReadAll, At
  <2>2. \A b \in all : b \in assigned
    BY <1>1, QueryTypes DEF Live
  <2>3. \A b \in all, g \in seen[c].keptGrants : b.name = g[2] => b.role = g[1]
    BY <1>4, <2>1, <2>2, RowMeetsGrant
  <2>4. \A b \in rows, g \in seen[c].keptGrants : b.name = g[2] => b.role = g[1]
    BY <2>1, <2>3 DEF KeptInv
  <2>5. mine \subseteq rows
    BY <1>6, <2>1
  <2> HIDE DEF rows
  <2> QED
    BY <1>7, <2>1, <2>4, <2>5
<1>10. CASE ReadIds(c)
  <2> DEFINE more == {roles[n].id : n \in {m \in Below(k.rows) : roles[m] # Missing}}
  <2>1. k.op \in Decisions /\ k.step = "ids"
    BY <1>10 DEF ReadIds, At
  <2>2. y = [k EXCEPT !.step = "perms", !.ids = @ \cup more]
    BY <1>1, <1>10 DEF ReadIds
  <2>3. ASSUME NEW a \in seen[c].keptRows, NEW g \in seen[c].keptGrants, a.user = k.user, Reaches(a, g)
        PROVE  g[1] \in k.ids \cup more
    <3>1. a \in k.rows
      BY <2>1, <2>3 DEF KeptInv
    <3>2. CASE g[1] = a.role
      BY <2>1, <3>1, <3>2 DEF KeptInv
    <3>3. CASE \E b \in k.rows : b.name = g[2]
      BY <2>1, <3>3 DEF KeptInv
    <3>4. CASE g[2] \in Below(k.rows)
      <4>1. g \in Granted
        BY <1>4, <2>1 DEF Safe
      <4>2. PICK n \in RoleNames, p \in Permissions : roles[n] # Missing /\ g = <<roles[n].id, n, p>>
        BY <4>1, GrantsRead DEF GrantsAreRead
      <4>3. g[1] = roles[n].id /\ g[2] = n
        BY <4>2
      <4> QED
        BY <3>4, <4>2, <4>3
    <3> QED
      BY <2>3, <3>1, <3>2, <3>3, <3>4, BelowOne DEF Reaches
  <2> HIDE DEF more
  <2>4. y.step = "perms" /\ y.rows = k.rows /\ y.user = k.user /\ y.ids = k.ids \cup more
    BY <1>2, <2>1, <2>2 DEF AuthorizeCalls, GuardCalls
  <2>5. /\ Safe(c)'
        /\ seen'[c].keptRows \subseteq seen[c].keptRows
        /\ seen'[c].keptGrants \subseteq seen[c].keptGrants
    BY <1>5, <2>1, <2>4
  <2>6. /\ \A b \in y.rows, g \in seen'[c].keptGrants : b.name = g[2] => b.role = g[1]
        /\ \A a \in seen'[c].keptRows : a.user = y.user => a \in y.rows
        /\ \A b \in y.rows : b.role \in y.ids
    BY <2>1, <2>4, <2>5 DEF KeptInv
  <2>7. \A a \in seen'[c].keptRows, g \in seen'[c].keptGrants :
          a.user = y.user /\ Reaches(a, g) => g[1] \in y.ids
    BY <2>3, <2>4, <2>5
  <2> QED
    BY <2>4, <2>5, <2>6, <2>7 DEF KeptInv, Reaches
<1>11. CASE ReadPermissions(c)
  <2> DEFINE allowed == HasPermission(GetPermissionsForRoles(k.ids), k.need)
  <2>1. k.op \in Decisions /\ k.step = "perms"
    BY <1>11 DEF ReadPermissions, At
  <2>2. y = [k EXCEPT
          !.step = IF allowed /\ k.op = "guard" THEN "role" ELSE "done",
          !.answer = IF ~allowed THEN "no" ELSE IF k.op = "guard" THEN @ ELSE "yes"]
    BY <1>1, <1>11 DEF ReadPermissions
  <2>3. ~allowed => ~Entitles(c, seen[c].keptRows, seen[c].keptGrants)
    <3> SUFFICES ASSUME Entitles(c, seen[c].keptRows, seen[c].keptGrants) PROVE allowed
      OBVIOUS
    <3>1. PICK a \in seen[c].keptRows, g \in seen[c].keptGrants :
            a.user = k.user /\ HasPermission({g[3]}, k.need) /\ Reaches(a, g)
      BY DEF Entitles, Reaches
    <3>2. g[1] \in k.ids
      BY <2>1, <3>1 DEF KeptInv
    <3>3. g[3] \in GetPermissionsForRoles(k.ids)
      BY <1>4, <2>1, <3>2, KeptGrantIsRead
    <3> QED
      BY <3>1, <3>3, MorePermits
  <2> HIDE DEF allowed
  <2>4. /\ y.op = k.op /\ y.user = k.user /\ y.need = k.need /\ (k.op = "guard" => y.role = k.role)
        /\ y.step = IF allowed /\ k.op = "guard" THEN "role" ELSE "done"
        /\ y.step = "done" /\ y.answer = "no" => ~allowed
    BY <1>2, <2>1, <2>2 DEF AuthorizeCalls, GuardCalls
  <2>5. CASE y.step = "role"
    <3>1. Safe(c)'
      BY <1>5, <2>1, <2>5
    <3> QED
      BY <2>5, <3>1 DEF KeptInv
  <2>6. CASE y.step = "done"
    <3>1. seen'[c] = seen[c]
      BY <1>1, <2>6, WatchOver
    <3>2. y.answer = "no" => ~Entitles(c, seen[c].keptRows, seen[c].keptGrants)'
      BY <2>3, <2>4, <2>6, <3>1 DEF Entitles
    <3> QED
      BY <2>6, <3>2 DEF KeptInv
  <2> QED
    BY <2>4, <2>5, <2>6
<1>12. CASE ReadRole(c)
  <2> DEFINE found == \E a \in GetUserRoles(k.user, Anywhere) : a.name = k.role
  <2>1. k.op = "guard" /\ k.op \in Decisions /\ k.step = "role"
    BY <1>12 DEF ReadRole, At, Decisions
  <2>2. y = [k EXCEPT !.step = "done", !.answer = IF found THEN "yes" ELSE "no"]
    BY <1>1, <1>12 DEF ReadRole
  <2>3. ~found => ~Entitles(c, seen[c].keptRows, seen[c].keptGrants)
    BY <1>6, <2>1 DEF Entitles
  <2> HIDE DEF found
  <2>4. /\ y.op = "guard" /\ y.user = k.user /\ y.need = k.need /\ y.role = k.role
        /\ y.step = "done" /\ (y.answer = "no" => ~found)
    BY <1>2, <2>1, <2>2 DEF AuthorizeCalls, GuardCalls
  <2>5. seen'[c] = seen[c]
    BY <1>1, <2>4, WatchOver
  <2>6. y.answer = "no" => ~Entitles(c, seen[c].keptRows, seen[c].keptGrants)'
    BY <2>1, <2>3, <2>4, <2>5 DEF Entitles
  <2> QED
    BY <2>4, <2>6 DEF KeptInv
<1> QED
  BY <1>3, <1>8, <1>9, <1>10, <1>11, <1>12 DEF Decide

\* A new database and one that bootstrap has been through.
LEMMA EntitledInitial == RbacInit => EntitledInv
<1> SUFFICES ASSUME RbacInit PROVE EntitledInv
  OBVIOUS
<1>1. \A c \in Calls : call[c] = Resting
  BY DEF RbacInit
<1>2. \A c \in Calls : Found(call[c]) /\ KeptInv(c)
  BY <1>1 DEF Found, KeptInv, Resting, Decisions
<1>3. NamesInv
  <2>1. CASE perms = [p \in Permissions |-> Missing] /\ assigned = {}
    BY <2>1 DEF NamesInv
  <2>2. CASE ~(perms = [p \in Permissions |-> Missing] /\ assigned = {})
    <3> DEFINE last == Len(DefaultRoles)
               RoleId(n) == CHOOSE i \in 1..last : DefaultRoles[i] = n
               Seeded == {DefaultRoles[i] : i \in 1..last}
    <3>1. /\ roles = [n \in RoleNames |-> IF n \in Seeded
                                            THEN [id |-> RoleId(n), system |-> TRUE]
                                            ELSE Missing]
          /\ perms = [p \in Permissions |-> IF p \in DefaultPermissions
                                              THEN SeededIds[p] ELSE Missing]
          /\ assigned = {[user |-> Members[i][1], role |-> RoleId(Members[i][2]),
                          name |-> Members[i][2], scope |-> Global, until |-> "never"]
                         : i \in {j \in 1..Len(Members) : Members[j][2] \in Seeded}}
          /\ created = last + Cardinality(DefaultPermissions)
      BY <2>2 DEF RbacInit
    <3>2. last \in Nat /\ Seeded \subseteq RoleNames /\ \A n \in Seeded : RoleId(n) \in 1..last
      BY DefaultRolesType
    <3> HIDE DEF RoleId, Seeded, last
    <3>3. \A n \in Seeded : roles[n] # Missing /\ roles[n].id = RoleId(n)
      <4>1. \A n \in Seeded : roles[n] = [id |-> RoleId(n), system |-> TRUE]
        BY <3>1, <3>2
      <4>2. \A n \in Seeded : [id |-> RoleId(n), system |-> TRUE] \in Role
        BY <3>2 DEF Role
      <4>3. \A n \in Seeded : [id |-> RoleId(n), system |-> TRUE] # Missing
        BY <4>2, RbacAssumption
      <4> TAKE n \in Seeded
      <4>4. roles[n] = [id |-> RoleId(n), system |-> TRUE]
        BY <4>1
      <4> QED
        BY <4>3, <4>4
    <3>4. \A a \in assigned : roles[a.name] # Missing /\ roles[a.name].id = a.role
      BY <3>1, <3>3
    <3>5. \A p \in Permissions : perms[p] # Missing => NamesPermission(perms[p], p)
      <4>1. \A p \in DefaultPermissions : /\ SeededIds[p] \in Nat /\ SeededIds[p] <= created
                                          /\ SeededIds[p] # Missing
        BY <3>1, <3>2, SeededIdsType, RbacAssumption DEF last
      <4>2. \A p, q \in DefaultPermissions : SeededIds[p] = SeededIds[q] => p = q
        BY SeededIdsType
      <4> QED
        BY <3>1, <4>1, <4>2, RbacAssumption DEF NamesPermission
    <3> QED
      BY <3>4, <3>5 DEF NamesInv
  <2> QED
    BY <2>1, <2>2
<1> QED
  BY <1>2, <1>3 DEF EntitledInv

\* Every step, of whichever call and of the clock, keeps it.
LEMMA EntitledStep == RbacInv /\ EntitledInv /\ [RbacNext]_rbacVars => EntitledInv'
<1> SUFFICES ASSUME RbacInv, EntitledInv, [RbacNext]_rbacVars PROVE EntitledInv'
  OBVIOUS
<1>1. /\ RbacTypeOK /\ LoopsInv /\ TablesInv /\ NamesInv /\ created \in Nat
      /\ \A c \in Calls : Found(call[c]) /\ KeptInv(c)
  BY DEF RbacInv, RbacTypeOK, EntitledInv
<1>2. ASSUME UNCHANGED <<roles, perms, grants, assigned, created>>
      PROVE  NamesInv' /\ Stays /\ RolesKeepIds /\ PermsKeepIds
  <2>1. NamesInv'
    BY <1>1, <1>2 DEF NamesInv, NamesPermission
  <2>2. Stays
    BY <1>2 DEF Stays, Granted
  <2>3. RolesKeepIds /\ PermsKeepIds
    BY <1>1, <1>2 DEF RolesKeepIds, PermsKeepIds
  <2> QED
    BY <2>1, <2>2, <2>3
<1>3. ASSUME NEW c \in Calls, call'[c] = call[c], RolesKeepIds, PermsKeepIds, created' \in Nat
      PROVE  Found(call[c])'
  BY <1>1, <1>3, NamesLast DEF Found
<1>4. CASE UNCHANGED rbacVars
  <2>1. /\ UNCHANGED <<roles, perms, grants, assigned, created>>
        /\ UNCHANGED <<call, seen>>
    BY <1>4 DEF rbacVars
  <2>2. NamesInv' /\ Granted' = Granted
    BY <1>2, <2>1 DEF Granted
  <2>3. ASSUME NEW c \in Calls PROVE Found(call[c])' /\ KeptInv(c)'
    <3>1. Found(call[c])'
      BY <1>1, <1>2, <1>3, <2>1
    <3>2. Safe(c) => Safe(c)'
      BY <2>1, <2>2 DEF Safe
    <3>3. KeptInv(c)'
      BY <1>1, <2>1, <3>2 DEF KeptInv, Reaches, Entitles
    <3> QED
      BY <3>1, <3>3
  <2> QED
    BY <2>2, <2>3 DEF EntitledInv
<1>5. CASE Expire /\ Watched
  <2>1. UNCHANGED <<roles, perms, grants, assigned, created, call>>
    BY <1>5 DEF Expire, tables
  <2>2. NamesInv' /\ Stays /\ RolesKeepIds /\ PermsKeepIds
    BY <1>2, <2>1
  <2>3. ASSUME NEW c \in Calls PROVE Found(call[c])' /\ KeptInv(c)'
    BY <1>1, <1>3, <1>5, <2>1, <2>2, OthersKept
  <2> QED
    BY <2>2, <2>3 DEF EntitledInv
<1>6. ASSUME NEW c \in Calls, Decide(c), Watched PROVE EntitledInv'
  <2>1. /\ UNCHANGED <<roles, perms, grants, assigned, created>>
        /\ call'[c].op \in Decisions /\ \A d \in Calls \ {c} : call'[d] = call[d]
    BY <1>1, <1>6, DecideType DEF tables
  <2>2. NamesInv' /\ Stays /\ RolesKeepIds /\ PermsKeepIds
    BY <1>2, <2>1
  <2>3. ASSUME NEW d \in Calls PROVE Found(call[d])' /\ KeptInv(d)'
    <3>1. CASE d = c
      <4>1. Found(call[d])'
        BY <2>1, <3>1 DEF Found, Decisions
      <4>2. KeptInv(d)'
        BY <1>1, <1>6, <2>2, <3>1, DecideKept
      <4> QED
        BY <4>1, <4>2
    <3>2. CASE d # c
      BY <1>1, <1>3, <1>6, <2>1, <2>2, <3>2, OthersKept
    <3> QED
      BY <3>1, <3>2
  <2> QED
    BY <2>2, <2>3 DEF EntitledInv
<1>7. ASSUME NEW c \in Calls, Edits(c), Watched PROVE EntitledInv'
  <2>1. /\ call'[c].op \notin Decisions
        /\ \A d \in Calls \ {c} : call'[d] = call[d]
    BY <1>1, <1>7, EditCall
  <2>2. RolesKeepIds /\ created' \in Nat
    BY <1>1, <1>7, EditTables DEF TablesTyped
  <2>3. PermsKeepIds /\ NamesInv'
    BY <1>1, <1>7, PermsStep, RowsStep DEF NamesInv
  <2>4. Stays
    BY <1>1, <1>7, RowStays, GrantStays DEF Stays
  <2>5. ASSUME NEW d \in Calls PROVE Found(call[d])' /\ KeptInv(d)'
    <3>1. CASE d = c
      <4>1. Found(call[d])'
        BY <1>1, <1>7, <2>2, <2>3, <3>1, FoundStep
      <4>2. KeptInv(d)'
        BY <2>1, <3>1 DEF KeptInv
      <4> QED
        BY <4>1, <4>2
    <3>2. CASE d # c
      BY <1>1, <1>3, <1>7, <2>1, <2>2, <2>3, <2>4, <3>2, OthersKept
    <3> QED
      BY <3>1, <3>2
  <2> QED
    BY <2>3, <2>5 DEF EntitledInv
<1> QED
  BY <1>4, <1>5, <1>6, <1>7 DEF RbacNext, Watched, Edits

\* The invariant of what is kept: a decision has read it by the step that asks
\* for it, and nothing under way takes it away.
THEOREM EntitledInvariance == RbacSpec => []EntitledInv
  BY EntitledInitial, EntitledStep, RbacInvariance, PTL DEF RbacSpec

\* A user with an assignment that counts for the scope asked for, and a grant,
\* that no call under way meanwhile is to take away is let through, whatever else
\* is edited.
THEOREM KeptCorrect == RbacSpec => []KeptGrantAllows
<1>1. EntitledInv => KeptGrantAllows
  <2> SUFFICES ASSUME EntitledInv, NEW c \in Calls, Decided(c, "no"),
                      Entitles(c, InScope(c, seen[c].keptRows), seen[c].keptGrants)
               PROVE  FALSE
    BY DEF KeptGrantAllows
  <2>1. ~Entitles(c, seen[c].keptRows, seen[c].keptGrants)
    BY DEF EntitledInv, KeptInv, Decided, At
  <2>2. InScope(c, seen[c].keptRows) \subseteq seen[c].keptRows
    BY DEF InScope
  <2> QED
    BY <2>1, <2>2 DEF Entitles
<1> QED
  BY EntitledInvariance, <1>1, PTL
===============================================================================
