----------------------------- MODULE LicenseClient -----------------------------
(***************************************************************************)
(* LicenseClient and LicenseCache: processes that validate their license   *)
(* with a server and share one cache file.  A process changes the file by  *)
(* reading all of it and writing all of it back, and writeFileSync empties *)
(* a file before it fills it; other processes go on between these steps.   *)
(***************************************************************************)
EXTENDS Naturals

CONSTANTS
  Clients,         (* the processes, with one client each                     *)
  Keys,            (* license keys                                            *)
  KeyOf,           (* the key of each client                                  *)
  None,
  Empty, Garbled,  (* a file that holds no entries, being written or broken   *)
  Duration,        (* cacheDurationMs                                         *)
  Grace,           (* offlineGracePeriodMs                                    *)
  Leases,          (* how far cacheUntil is ahead when the answer comes       *)
  MaxRetries,      (* MAX_RETRIES: 3 in the code                              *)
  MaxTime          (* bound: the last moment of the clock                     *)

\* A validation, as it came from the server, as a file has it, and as it is told.
Results == [came : Nat, until : Nat \cup {None}]
Entries == [result : Results, timestamp : Nat, until : Nat \cup {None}]
Files == [Keys -> Entries \cup {None}]
Tellings == [result : Results, at : Nat]

ASSUME LicenseAssumption ==
  /\ KeyOf \in [Clients -> Keys]
  /\ Duration \in Nat /\ Grace \in Nat /\ MaxTime \in Nat
  /\ MaxRetries \in Nat \ {0}
  /\ Leases \subseteq Nat
  /\ Empty # Garbled /\ {None, Empty, Garbled} \cap Files = {}
  /\ None \notin Nat \cup Entries \cup Tellings

VARIABLES
  now,             (* Date.now()                                              *)
  file,            (* the cache file: an entry or None for each key,          *)
                   (* or Empty or Garbled                                     *)
  client,          (* each client's call, and its lastValidation, with the    *)
                   (* moment it was told (history)                            *)
  latest,          (* history: what was last set for each key, None if cleared*)
  disturbed        (* history: a write failed, was cut short or came between  *)
                   (* another process's read and write                        *)

vars == <<now, file, client, latest, disturbed>>

Idle == [phase |-> "idle", call |-> "none", attempt |-> 0, held |-> None,
         last |-> None]

-----------------------------------------------------------------------------
(***************************************************************************)
(* LicenseCache.                                                           *)
(***************************************************************************)
Nothing == [k \in Keys |-> None]

\* readAllCaches: a file that cannot be parsed is as good as none.
ReadAllCaches == IF file \in {Empty, Garbled} THEN Nothing ELSE file

\* isCacheValid: the server's cacheUntil goes before the configured duration.
IsCacheValid(entry) ==
  IF entry.until # None THEN entry.until > now
                        ELSE now - entry.timestamp < Duration

\* get.
Get(k) ==
  LET entry == ReadAllCaches[k] IN
    IF entry # None /\ IsCacheValid(entry) THEN entry ELSE None

\* Mutant: a validation is served offline however old it is.
GetWithGracePeriod_Ageless(k) == ReadAllCaches[k]

\* getWithGracePeriod.
GetWithGracePeriod(k) ==
  LET entry == ReadAllCaches[k] IN
    IF entry # None /\ now - entry.timestamp < Grace THEN entry ELSE None

\* set and clear of a key, up to what they write.
WithEntry(k, entry) == [ReadAllCaches EXCEPT ![k] = entry]

\* Mutant: the other keys' entries are not written back.
WithoutEntry_Others(k) == Nothing

WithoutEntry(k) == [ReadAllCaches EXCEPT ![k] = None]

\* A client that holds what it has read of the file.
Holds(c) == client[c].held # None

\* The file changes under the clients that hold it.
Disturbs(c) == disturbed' = (disturbed \/ \E d \in Clients \ {c} : Holds(d))

\* writeCaches, which swallows a file it cannot write; once that is done,
\* refresh asks the server, and set is the last of a call.
AfterWrite(c) ==
  IF client[c].phase \in {"clear", "clearing"}
    THEN [client[c] EXCEPT !.phase = "asking", !.held = None, !.last = None]
    ELSE [Idle EXCEPT !.last = client[c].last]

Truncate(c) ==
  /\ client[c].phase \in {"clear", "set"}
  /\ file' = Empty
  /\ client' = [client EXCEPT ![c].phase =
                  IF @ = "clear" THEN "clearing" ELSE "setting"]
  /\ Disturbs(c)
  /\ UNCHANGED <<now, latest>>

\* If another process filled the file since, the longer of both texts may
\* stick out.
Fill(c) ==
  /\ client[c].phase \in {"clearing", "setting"}
  /\ \/ file' = client[c].held
     \/ file # Empty /\ file' = Garbled
  /\ client' = [client EXCEPT ![c] = AfterWrite(c)]
  /\ Disturbs(c)
  /\ UNCHANGED <<now, latest>>

CannotWrite(c) ==
  /\ client[c].phase \in {"clear", "set"}
  /\ client' = [client EXCEPT ![c] = AfterWrite(c)]
  /\ disturbed' = TRUE
  /\ UNCHANGED <<now, file, latest>>

-----------------------------------------------------------------------------
(***************************************************************************)
(* LicenseClient.                                                          *)
(***************************************************************************)
Told(result) == [result |-> result, at |-> now]

\* validate, answered by the cache.
ValidateCached(c) ==
  /\ client[c].phase = "idle"
  /\ LET entry == Get(KeyOf[c]) IN
       /\ entry # None
       /\ client' = [client EXCEPT ![c].last = Told(entry.result)]
  /\ UNCHANGED <<now, file, latest, disturbed>>

\* validate, which has to ask.
Validate(c) ==
  /\ client[c].phase = "idle"
  /\ Get(KeyOf[c]) = None
  /\ client' = [client EXCEPT ![c].phase = "asking", ![c].call = "validate"]
  /\ UNCHANGED <<now, file, latest, disturbed>>

\* refresh: the cache is cleared first.
Refresh(c) ==
  /\ client[c].phase = "idle"
  /\ client' = [client EXCEPT ![c].phase = "clear", ![c].call = "refresh",
                              ![c].held = WithoutEntry(KeyOf[c])]
  /\ latest' = [latest EXCEPT ![KeyOf[c]] = None]
  /\ UNCHANGED <<now, file, disturbed>>

\* The server has validated, however long ago: serverValidate returns, and set
\* begins.
Answer(c) ==
  /\ client[c].phase = "asking"
  /\ \E until \in {None} \cup {now + n : n \in Leases} :
       LET result == [came |-> now, until |-> until]
           entry == [result |-> result, timestamp |-> now, until |-> until]
       IN /\ client' = [client EXCEPT ![c].phase = "set", ![c].last = Told(result),
                                      ![c].held = WithEntry(KeyOf[c], entry)]
          /\ latest' = [latest EXCEPT ![KeyOf[c]] = entry]
  /\ UNCHANGED <<now, file, disturbed>>

\* fetchWithRetry: the request fails or the server does, and there is
\* another attempt.
Retry(c) ==
  /\ client[c].phase = "asking"
  /\ client[c].attempt < MaxRetries - 1
  /\ client' = [client EXCEPT ![c].attempt = @ + 1]
  /\ UNCHANGED <<now, file, latest, disturbed>>

\* validate falls back on the cache, and throws if that has nothing; refresh
\* throws.  lastValidation is by then as given.
FallBack(c, last) ==
  /\ LET entry == IF client[c].call = "validate" THEN GetWithGracePeriod(KeyOf[c])
                                                 ELSE None
     IN client' = [client EXCEPT ![c] =
                     [Idle EXCEPT !.last = IF entry = None THEN last
                                           ELSE Told(entry.result)]]
  /\ UNCHANGED <<now, file, latest, disturbed>>

\* The server refuses with a 4xx, or the last attempt has failed.
GiveUp(c, refused) ==
  /\ client[c].phase = "asking"
  /\ refused \/ client[c].attempt = MaxRetries - 1
  /\ FallBack(c, client[c].last)

\* An answer without a body (204): it is taken for the validation, and set
\* throws as it looks for cacheUntil in it.
NoContent(c) ==
  /\ client[c].phase = "asking"
  /\ FallBack(c, None)

\* The process ends and another starts in its place.
Crash(c) ==
  /\ client[c] # Idle
  /\ client' = [client EXCEPT ![c] = Idle]
  /\ disturbed' = (disturbed \/ Holds(c))
  /\ UNCHANGED <<now, file, latest>>

Tick ==
  /\ now < MaxTime
  /\ now' = now + 1
  /\ UNCHANGED <<file, client, latest, disturbed>>

-----------------------------------------------------------------------------
Init ==
  /\ now = 0
  /\ file = Nothing
  /\ client = [c \in Clients |-> Idle]
  /\ latest = Nothing
  /\ disturbed = FALSE

Client(c) ==
  \/ ValidateCached(c) \/ Validate(c) \/ Refresh(c)
  \/ Answer(c) \/ Retry(c) \/ GiveUp(c, TRUE) \/ GiveUp(c, FALSE) \/ NoContent(c)
  \/ Truncate(c) \/ Fill(c) \/ CannotWrite(c)
  \/ Crash(c)

Next == Tick \/ \E c \in Clients : Client(c)

Spec == Init /\ [][Next]_vars

-----------------------------------------------------------------------------
Phases == {"idle", "asking", "clear", "clearing", "set", "setting"}

TypeOK ==
  /\ now \in 0..MaxTime
  /\ file \in Files \cup {Empty, Garbled}
  /\ client \in [Clients -> [phase : Phases, call : {"none", "validate", "refresh"},
                             attempt : 0..(MaxRetries - 1), held : Files \cup {None},
                             last : Tellings \cup {None}]]
  /\ latest \in Files
  /\ disturbed \in BOOLEAN

\* What validate returns came from the server within the longer of the two
\* periods, or the server said it might be kept until then: a license that the
\* server has stopped validating runs out, through whichever of three retries,
\* crashes and other processes' writes the cache came by it.
ServedInTime ==
  \A c \in Clients : client[c].last # None =>
    LET told == client[c].last
        age == told.at - told.result.came
    IN \/ told.result.until # None /\ told.result.until > told.at
       \/ age < Grace \/ age < Duration
       \/ age = 0

\* As long as no process writes between another's read and write, no write
\* fails and none is cut short, the file has for every key what was last set
\* or cleared for it, whatever the other keys' clients do (set and clear
\* rewrite the whole file).
FileIsLatest ==
  ~disturbed /\ (\A c \in Clients : ~Holds(c)) => ReadAllCaches = latest
=============================================================================
