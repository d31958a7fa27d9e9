------------------------ MODULE RegistryCredentials ------------------------
(***************************************************************************)
(* GetRegistryCredentials (iot.go): the per-Service cache of registry      *)
(* credentials, filled on demand over HTTP and shared by every goroutine   *)
(* that uses the Service.                                                  *)
(*                                                                         *)
(* The map is first read WITHOUT the lock.  A hit takes the read lock and  *)
(* reads the map again; a miss takes the write lock, asks the credential   *)
(* server while holding it, stores the answer and unlocks.  The miss path  *)
(* does not look at the map again once it has the lock.                    *)
(***************************************************************************)
EXTENDS Naturals, Sequences

CONSTANTS Goroutines,  \* the goroutines that use the Service
          Regions,     \* region names, as sequences of the words between "-"
          Registries,  \* registry names, likewise
          NoOne,       \* no goroutine
          Nil,         \* a nil *RegistryUserCredentials
          Blank,       \* RegistryUserCredentials that lack a property
          Failed,      \* (nil, err)
          MaxEpoch     \* bound: how often a registry's credential is renewed

Target == [region : Regions, registry : Registries]
Issued == [target : Target, epoch : Nat]
Credentials == Issued \cup {Blank}

ASSUME ConstantsAssumption ==
    /\ Regions # {} /\ Registries # {}
    /\ NoOne \notin Goroutines
    /\ Nil \notin Credentials
    /\ Failed \notin Credentials
    /\ Blank \notin Issued
    /\ Nil # Failed
    /\ MaxEpoch \in Nat

(* Mutant: the key forgets the registry.                                   *)
CacheKeyRegionOnly(t) == t.region

(* fmt.Sprintf("%s-%s", region, registry)                                  *)
CacheKey(t) == t.region \o <<"-">> \o t.registry
CacheKeys == {CacheKey(t) : t \in Target}

VARIABLES pc,        \* pc[g]: where g is in GetRegistryCredentials
          arg,       \* arg[g]: the region and registry g asked for
          reply,     \* reply[g]: what the server answered g: a credential,
                     \* Blank (200, not the JSON expected), Failed or Nil
          result,    \* result[g]: what g's last call returned, Nil before
          cache,     \* s.RegistryUserCache; Nil for a key it does not hold
          writer,    \* RWMutex: the writer that holds it or waits for readers
          readers,   \* RWMutex: the goroutines that hold the read lock
          parked,    \* RWMutex: the readers waiting for the writer to unlock
          crashed,   \* the Go runtime stopped the process (map race)
          epoch,     \* server: how often it renewed a registry's credential
          since      \* ghost: epoch of arg[g] when g's call began

rwmutex == <<writer, readers, parked>>
server == <<epoch>>
vars == <<pc, arg, reply, result, cache, rwmutex, crashed, server, since>>

(* pc values, in program order.  "lock" waits for the turn among writers,  *)
(* "draining" for the readers to leave; "storing" is inside the map        *)
(* assignment, "stored" is after it and before the deferred Unlock.        *)
FetchStates == {"locked", "fetching", "replied", "storing", "stored"}
WriterStates == FetchStates \cup {"draining"}
HitStates == {"rlock", "parked", "rlocked"}
RestStates == {"idle", "returned"}
States == RestStates \cup {"check", "lock"} \cup HitStates \cup WriterStates

Goto(g, s) == pc' = [pc EXCEPT ![g] = s]

Init ==
    /\ pc = [g \in Goroutines |-> "idle"]
    /\ arg = [g \in Goroutines |-> CHOOSE t \in Target : TRUE]
    /\ reply = [g \in Goroutines |-> Nil]
    /\ result = [g \in Goroutines |-> Nil]
    /\ cache = [k \in CacheKeys |-> Nil]
    /\ writer = NoOne
    /\ readers = {}
    /\ parked = {}
    /\ crashed = FALSE
    /\ epoch = [t \in Target |-> 0]
    /\ since = [g \in Goroutines |-> 0]

(***************************************************************************)
(* The call and its unsynchronised look at the map.                        *)
(***************************************************************************)
Call(g, t) ==
    /\ pc[g] \in RestStates
    /\ Goto(g, "check")
    /\ arg' = [arg EXCEPT ![g] = t]
    /\ since' = [since EXCEPT ![g] = epoch[t]]
    /\ reply' = [reply EXCEPT ![g] = Nil]
    /\ result' = [result EXCEPT ![g] = Nil]
    /\ UNCHANGED <<cache, rwmutex, crashed, server>>

Key(g) == CacheKey(arg[g])

(* A map assignment is under way: a concurrent read is a data race.  The   *)
(* runtime may notice and stop the process, and otherwise the read may     *)
(* find the entry being stored, or miss any entry while the map grows.     *)
StoreInProgress == \E w \in Goroutines : pc[w] = "storing"

MaySee(k) == cache[k] # Nil \/ \E w \in Goroutines : pc[w] = "storing" /\ Key(w) = k

CheckHit(g) ==
    /\ pc[g] = "check"
    /\ MaySee(Key(g))
    /\ Goto(g, "rlock")
    /\ UNCHANGED <<arg, reply, result, cache, rwmutex, crashed, server, since>>

CheckMiss(g) ==
    /\ pc[g] = "check"
    /\ cache[Key(g)] = Nil \/ StoreInProgress
    /\ Goto(g, "lock")
    /\ UNCHANGED <<arg, reply, result, cache, rwmutex, crashed, server, since>>

CheckFatal(g) ==
    /\ pc[g] = "check"
    /\ StoreInProgress
    /\ crashed' = TRUE
    /\ UNCHANGED <<pc, arg, reply, result, cache, rwmutex, server, since>>

(***************************************************************************)
(* Hit: RLock, read again, RUnlock.  A reader that finds a writer, even    *)
(* one that still waits for readers, parks until that writer unlocks.      *)
(***************************************************************************)
RLock(g) ==
    /\ pc[g] = "rlock"
    /\ \/ /\ writer = NoOne
          /\ Goto(g, "rlocked")
          /\ readers' = readers \cup {g}
          /\ UNCHANGED parked
       \/ /\ writer # NoOne
          /\ Goto(g, "parked")
          /\ parked' = parked \cup {g}
          /\ UNCHANGED readers
    /\ UNCHANGED <<arg, reply, result, cache, writer, crashed, server, since>>

(* Mutant: the hit path forgets RUnlock.                                   *)
ReturnCachedLocked(g) ==
    /\ pc[g] = "rlocked"
    /\ Goto(g, "returned")
    /\ result' = [result EXCEPT ![g] = cache[Key(g)]]
    /\ UNCHANGED <<arg, reply, cache, rwmutex, crashed, server, since>>

ReturnCached(g) ==
    /\ pc[g] = "rlocked"
    /\ Goto(g, "returned")
    /\ result' = [result EXCEPT ![g] = cache[Key(g)]]
    /\ readers' = readers \ {g}
    /\ UNCHANGED <<arg, reply, cache, writer, parked, crashed, server, since>>

(***************************************************************************)
(* Miss: Lock, fetch, store, Unlock.                                       *)
(***************************************************************************)
AnnounceWriter(g) ==
    /\ pc[g] = "lock"
    /\ writer = NoOne
    /\ writer' = g
    /\ Goto(g, "draining")
    /\ UNCHANGED <<arg, reply, result, cache, readers, parked, crashed, server, since>>

AcquireLock(g) ==
    /\ pc[g] = "draining"
    /\ readers = {}
    /\ Goto(g, "locked")
    /\ UNCHANGED <<arg, reply, result, cache, rwmutex, crashed, server, since>>

(* The deferred Unlock: every parked reader gets the read lock at once,    *)
(* ahead of any writer.  g returns r.                                      *)
UnlockAndReturn(g, r) ==
    /\ writer' = NoOne
    /\ readers' = readers \cup parked
    /\ parked' = {}
    /\ pc' = [h \in Goroutines |-> IF h = g THEN "returned"
                                   ELSE IF h \in parked THEN "rlocked"
                                   ELSE pc[h]]
    /\ result' = [result EXCEPT ![g] = r]

(* Mutant: the lock is given up for the time of the exchange.              *)
SendUnlocked(g) ==
    /\ pc[g] = "locked"
    /\ writer' = NoOne
    /\ readers' = readers \cup parked
    /\ parked' = {}
    /\ pc' = [h \in Goroutines |-> IF h = g THEN "fetching"
                                   ELSE IF h \in parked THEN "rlocked"
                                   ELSE pc[h]]
    /\ UNCHANGED <<arg, reply, result, cache, crashed, server, since>>

Send(g) ==
    /\ pc[g] = "locked"
    /\ Goto(g, "fetching")
    /\ UNCHANGED <<arg, reply, result, cache, rwmutex, crashed, server, since>>

(* The credential server answers, or the request fails on the way: no      *)
(* request could be built, no connection, a broken body, a status that is  *)
(* not 200.  All of these return (nil, err).                               *)
Respond(g) ==
    /\ pc[g] = "fetching"
    /\ \E r \in {[target |-> arg[g], epoch |-> epoch[arg[g]]], Blank, Failed} :
          reply' = [reply EXCEPT ![g] = r]
    /\ Goto(g, "replied")
    /\ UNCHANGED <<arg, result, cache, rwmutex, crashed, server, since>>

(* Mutants: an error is retried for ever, or evicts the entry.             *)
RetryError(g) ==
    /\ pc[g] = "replied"
    /\ reply[g] = Failed
    /\ Goto(g, "locked")
    /\ UNCHANGED <<arg, reply, result, cache, rwmutex, crashed, server, since>>

ReturnErrorEvicting(g) ==
    /\ pc[g] = "replied"
    /\ reply[g] = Failed
    /\ cache' = [cache EXCEPT ![Key(g)] = Nil]
    /\ UnlockAndReturn(g, Failed)
    /\ UNCHANGED <<arg, reply, crashed, server, since>>

ReturnError(g) ==
    /\ pc[g] = "replied"
    /\ reply[g] = Failed
    /\ UnlockAndReturn(g, Failed)
    /\ UNCHANGED <<arg, reply, cache, crashed, server, since>>

(* Mutants: the status code is not checked; an entry that is there stays.  *)
BeginStoreUnchecked(g) ==
    /\ pc[g] = "replied"
    /\ Goto(g, "storing")
    /\ UNCHANGED <<arg, reply, result, cache, rwmutex, crashed, server, since>>

EndStoreIfAbsent(g) ==
    /\ pc[g] = "storing"
    /\ cache' = [cache EXCEPT ![Key(g)] = IF @ = Nil THEN reply[g] ELSE @]
    /\ Goto(g, "stored")
    /\ UNCHANGED <<arg, reply, result, rwmutex, crashed, server, since>>

(* json.Unmarshal's error is ignored, so Blank is stored like any other.   *)
BeginStore(g) ==
    /\ pc[g] = "replied"
    /\ reply[g] # Failed
    /\ Goto(g, "storing")
    /\ UNCHANGED <<arg, reply, result, cache, rwmutex, crashed, server, since>>

EndStore(g) ==
    /\ pc[g] = "storing"
    /\ cache' = [cache EXCEPT ![Key(g)] = reply[g]]
    /\ Goto(g, "stored")
    /\ UNCHANGED <<arg, reply, result, rwmutex, crashed, server, since>>

ReturnFetched(g) ==
    /\ pc[g] = "stored"
    /\ UnlockAndReturn(g, reply[g])
    /\ UNCHANGED <<arg, reply, cache, crashed, server, since>>

(* The server side renews a registry's credential, e.g. after the registry *)
(* was deleted and created again.                                          *)
Renew(t) ==
    /\ epoch[t] < MaxEpoch
    /\ epoch' = [epoch EXCEPT ![t] = @ + 1]
    /\ UNCHANGED <<pc, arg, reply, result, cache, rwmutex, crashed, since>>

(***************************************************************************)
(* The specification.                                                      *)
(***************************************************************************)
(* Steps of g's own code, taken without waiting for anyone else.           *)
Step(g) ==
    \/ CheckHit(g) \/ CheckMiss(g) \/ CheckFatal(g)
    \/ RLock(g) \/ ReturnCached(g)
    \/ AcquireLock(g) \/ Send(g)
    \/ ReturnError(g) \/ BeginStore(g) \/ EndStore(g) \/ ReturnFetched(g)

Running ==
    \/ \E g \in Goroutines :
          \/ \E t \in Target : Call(g, t)
          \/ Step(g)
          \/ AnnounceWriter(g)
          \/ Respond(g)
    \/ \E t \in Target : Renew(t)

Stopped == crashed /\ UNCHANGED vars

Next == (~crashed /\ Running) \/ Stopped

Spec == Init /\ [][Next]_vars

(* The Go scheduler runs every runnable goroutine (weak fairness), its     *)
(* Mutex hands over to the longest waiter once one has starved (strong     *)
(* fairness of taking the turn among writers), and the server or the       *)
(* transport answers in the end: the request carries no timeout of its own.*)
Fairness ==
    \A g \in Goroutines :
        /\ WF_vars(~crashed /\ Step(g))
        /\ SF_vars(~crashed /\ AnnounceWriter(g))
        /\ WF_vars(~crashed /\ Respond(g))

LiveSpec == Spec /\ Fairness
-----------------------------------------------------------------------------
(***************************************************************************)
(* Properties.                                                             *)
(***************************************************************************)
(* Every variable has its type.                                            *)
TypeOK ==
    /\ pc \in [Goroutines -> States]
    /\ arg \in [Goroutines -> Target]
    /\ reply \in [Goroutines -> Credentials \cup {Failed, Nil}]
    /\ result \in [Goroutines -> Credentials \cup {Failed, Nil}]
    /\ cache \in [CacheKeys -> Credentials \cup {Nil}]
    /\ writer \in Goroutines \cup {NoOne}
    /\ readers \subseteq Goroutines
    /\ parked \subseteq Goroutines
    /\ crashed \in BOOLEAN
    /\ epoch \in [Target -> 0..MaxEpoch]
    /\ since \in [Goroutines -> 0..MaxEpoch]

(* The lock is held exactly where the code believes it is: by one writer   *)
(* from Lock to the deferred Unlock, by a reader only around its second    *)
(* read of the map, never both at once, and no reader is left parked with  *)
(* no writer to wake it.                                                   *)
LockDiscipline ==
    /\ readers = {g \in Goroutines : pc[g] = "rlocked"}
    /\ parked = {g \in Goroutines : pc[g] = "parked"}
    /\ \A g \in Goroutines : pc[g] \in WriterStates <=> writer = g
    /\ \A g \in Goroutines : pc[g] \in FetchStates => readers = {}
    /\ parked # {} => writer # NoOne

(* No deadlock: however readers park behind a writer that waits for other  *)
(* readers, some goroutine that is in a call can take its next step, or    *)
(* waits for the credential server alone.                                  *)
CanGoOn(g) ==
    \/ pc[g] \in FetchStates \cup {"check", "rlock", "rlocked"}
    \/ pc[g] = "lock" /\ writer = NoOne
    \/ pc[g] = "draining" /\ readers = {}

NeverAllBlocked ==
    (\E g \in Goroutines : pc[g] \notin RestStates) => \E g \in Goroutines : CanGoOn(g)

(* A hit seen without the lock is still a hit under the lock, however the  *)
(* goroutines interleave: no caller gets (nil, nil) and dereferences a nil *)
(* *RegistryUserCredentials in its doRequest.                              *)
HitNeverNil ==
    \A g \in Goroutines :
        /\ pc[g] = "rlocked" => cache[Key(g)] # Nil
        /\ pc[g] = "returned" => result[g] # Nil

(* The credential a call returns was issued for the region and registry    *)
(* the call asked for.                                                     *)
ReturnsRequestedRegistry ==
    \A g \in Goroutines :
        pc[g] = "returned" /\ result[g] \in Issued => result[g].target = arg[g]

(* Racing misses fetch the same key more than once; because each holds the *)
(* write lock from request to store, a later store never puts back a       *)
(* credential older than the one it replaces.                              *)
CacheNeverOlder ==
    [][\A k \in CacheKeys :
          /\ cache[k] \in Issued
          /\ cache'[k] \in Issued
          /\ cache[k].target = cache'[k].target
          => cache[k].epoch <= cache'[k].epoch]_vars

(* Unless the process dies, every call returns once the server answers:    *)
(* no path through the function, error or not, keeps the lock.             *)
EveryCallReturns ==
    \A g \in Goroutines : pc[g] = "check" ~> pc[g] = "returned" \/ crashed

(* The lock next to the map in Service guards every access to the map: no  *)
(* read runs into an assignment, so the runtime never stops the process.   *)
MapAccessGuarded == ~crashed

(* Where each call stands for a reader of CredentialStore.                 *)
CallStatus ==
    [g \in Goroutines |-> IF pc[g] = "idle" THEN "idle"
                          ELSE IF pc[g] \in {"stored", "returned"} THEN "returned"
                          ELSE "pending"]

CallOutcome ==
    [g \in Goroutines |-> IF pc[g] = "stored" THEN reply[g] ELSE result[g]]

Store ==
    INSTANCE CredentialStore WITH
        Callers <- Goroutines, Targets <- Target, Keys <- CacheKeys,
        KeyOf <- CacheKey, stored <- cache, status <- CallStatus,
        asked <- arg, outcome <- CallOutcome

(* The cache behaves as the abstract store: each call takes effect in one  *)
(* step between its invocation and its return.                             *)
ImplementsStore == Store!Spec
=============================================================================
