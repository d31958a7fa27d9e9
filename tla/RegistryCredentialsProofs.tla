--------------------- MODULE RegistryCredentialsProofs ---------------------
(***************************************************************************)
(* Proofs, for every set of goroutines, regions and registries, of the     *)
(* safety properties of RegistryCredentials.                               *)
(*                                                                         *)
(* TypeOK and LockDiscipline are inductive one after the other.  The other *)
(* properties need what holds between a goroutine's look at the map and    *)
(* its use of it (HitsStayCached) and between the server's answer and its  *)
(* storing (RepliesFresh, CacheFresh); together they are IInv.             *)
(***************************************************************************)
EXTENDS RegistryCredentials, TLAPS

(* Every target has a key of the map.                                      *)
LEMMA KeyInKeys == \A t \in Target : CacheKey(t) \in CacheKeys
  BY DEF CacheKeys

(* Some target exists, so the unused CHOOSE of Init picks one.             *)
LEMMA ChosenTarget == (CHOOSE t \in Target : TRUE) \in Target
<1>1. PICK r \in Regions, q \in Registries : TRUE
  BY ConstantsAssumption
<1>2. [region |-> r, registry |-> q] \in Target
  BY DEF Target
<1> QED
  BY <1>2

-----------------------------------------------------------------------------
(* Type correctness.  That the map only ever holds credentials depends on  *)
(* what the writer has in hand between the answer and its Unlock.          *)

ReplyInHand ==
    \A g \in Goroutines :
        /\ pc[g] = "replied" => reply[g] # Nil
        /\ pc[g] \in {"storing", "stored"} => reply[g] \in Credentials

LEMMA TypeInit == Init => TypeOK /\ ReplyInHand
<1> SUFFICES ASSUME Init
             PROVE  TypeOK /\ ReplyInHand
  OBVIOUS
<1>1. pc \in [Goroutines -> States]
  BY DEF Init, States, RestStates
<1>2. arg \in [Goroutines -> Target]
  BY ChosenTarget, Zenon DEF Init
<1>3. /\ epoch \in [Target -> 0..MaxEpoch]
      /\ since \in [Goroutines -> 0..MaxEpoch]
  <2>1. 0 \in 0..MaxEpoch
    BY ConstantsAssumption
  <2> QED
    BY <2>1 DEF Init
<1>4. /\ reply \in [Goroutines -> Credentials \cup {Failed, Nil}]
      /\ result \in [Goroutines -> Credentials \cup {Failed, Nil}]
      /\ cache \in [CacheKeys -> Credentials \cup {Nil}]
  BY DEF Init
<1>5. ReplyInHand
  BY DEF Init, ReplyInHand
<1> QED
  BY <1>1, <1>2, <1>3, <1>4, <1>5 DEF Init, TypeOK

LEMMA TypeNext == TypeOK /\ ReplyInHand /\ [Next]_vars => TypeOK'
<1> SUFFICES ASSUME TypeOK, ReplyInHand, [Next]_vars
             PROVE  TypeOK'
  OBVIOUS
<1> USE ConstantsAssumption DEF TypeOK
<1>1. ASSUME NEW g \in Goroutines, NEW t \in Target, Call(g, t)
      PROVE  TypeOK'
  BY <1>1 DEF Call, Goto, States, RestStates, rwmutex, server
<1>2. ASSUME NEW g \in Goroutines,
             CheckHit(g) \/ CheckMiss(g) \/ CheckFatal(g)
      PROVE  TypeOK'
  BY <1>2 DEF CheckHit, CheckMiss, CheckFatal, Goto, States, HitStates,
              rwmutex, server
<1>3. ASSUME NEW g \in Goroutines, RLock(g)
      PROVE  TypeOK'
  BY <1>3 DEF RLock, Goto, States, HitStates, server
<1>4. ASSUME NEW g \in Goroutines, ReturnCached(g)
      PROVE  TypeOK'
  BY <1>4, KeyInKeys DEF ReturnCached, Goto, Key, States, RestStates, server
<1>5. ASSUME NEW g \in Goroutines,
             AnnounceWriter(g) \/ AcquireLock(g) \/ Send(g)
      PROVE  TypeOK'
  BY <1>5 DEF AnnounceWriter, AcquireLock, Send, Goto, States, WriterStates,
              FetchStates, rwmutex, server
<1>6. ASSUME NEW g \in Goroutines, Respond(g)
      PROVE  TypeOK'
  <2>1. PICK r \in {[target |-> arg[g], epoch |-> epoch[arg[g]]], Blank, Failed} :
               reply' = [reply EXCEPT ![g] = r]
    BY <1>6 DEF Respond
  <2>2. [target |-> arg[g], epoch |-> epoch[arg[g]]] \in Issued
    BY DEF Issued
  <2>3. r \in Credentials \cup {Failed, Nil}
    BY <2>2 DEF Credentials
  <2> QED
    BY <1>6, <2>1, <2>3
       DEF Respond, Goto, States, WriterStates, FetchStates, rwmutex, server
<1>7. ASSUME NEW g \in Goroutines, ReturnError(g) \/ ReturnFetched(g)
      PROVE  TypeOK'
  BY <1>7 DEF ReturnError, ReturnFetched, UnlockAndReturn, States, RestStates,
              HitStates, server
<1>8. ASSUME NEW g \in Goroutines, BeginStore(g)
      PROVE  TypeOK'
  BY <1>8 DEF BeginStore, Goto, States, WriterStates, FetchStates, rwmutex, server
<1>9. ASSUME NEW g \in Goroutines, EndStore(g)
      PROVE  TypeOK'
  BY <1>9, KeyInKeys
     DEF EndStore, ReplyInHand, Goto, Key, States, WriterStates, FetchStates,
         rwmutex, server
<1>10. ASSUME NEW t \in Target, Renew(t)
       PROVE  TypeOK'
  BY <1>10 DEF Renew, rwmutex
<1>11. CASE UNCHANGED vars
  BY <1>11 DEF vars, rwmutex, server
<1> QED
  BY <1>1, <1>2, <1>3, <1>4, <1>5, <1>6, <1>7, <1>8, <1>9, <1>10, <1>11
     DEF Next, Running, Stopped, Step

LEMMA ReplyNext == TypeOK /\ ReplyInHand /\ [Next]_vars => ReplyInHand'
<1> SUFFICES ASSUME TypeOK, ReplyInHand, [Next]_vars,
                    NEW h \in Goroutines
             PROVE  /\ pc'[h] = "replied" => reply'[h] # Nil
                    /\ pc'[h] \in {"storing", "stored"} => reply'[h] \in Credentials
  BY DEF ReplyInHand
<1> DEFINE Ready == /\ pc'[h] = "replied" => reply'[h] # Nil
                    /\ pc'[h] \in {"storing", "stored"} => reply'[h] \in Credentials
<1> USE ConstantsAssumption DEF TypeOK, ReplyInHand, Goto
<1>1. ASSUME NEW g \in Goroutines, NEW t \in Target, Call(g, t)
      PROVE  Ready
  BY <1>1 DEF Call
<1>2. ASSUME NEW g \in Goroutines,
             \/ CheckHit(g) \/ CheckMiss(g) \/ CheckFatal(g) \/ RLock(g)
             \/ ReturnCached(g) \/ AnnounceWriter(g) \/ AcquireLock(g) \/ Send(g)
      PROVE  Ready
  BY <1>2 DEF CheckHit, CheckMiss, CheckFatal, RLock, ReturnCached,
              AnnounceWriter, AcquireLock, Send
<1>3. ASSUME NEW g \in Goroutines, Respond(g)
      PROVE  Ready
  <2>1. [target |-> arg[g], epoch |-> epoch[arg[g]]] \in Issued
    BY DEF Issued
  <2>2. /\ reply' = [reply EXCEPT ![g] = reply'[g]]
        /\ reply'[g] \in {[target |-> arg[g], epoch |-> epoch[arg[g]]], Blank, Failed}
    BY <1>3 DEF Respond
  <2>3. reply'[g] # Nil
    BY <2>1, <2>2 DEF Credentials
  <2> QED
    BY <1>3, <2>2, <2>3 DEF Respond
<1>4. ASSUME NEW g \in Goroutines, ReturnError(g) \/ ReturnFetched(g)
      PROVE  Ready
  BY <1>4 DEF ReturnError, ReturnFetched, UnlockAndReturn
<1>5. ASSUME NEW g \in Goroutines, BeginStore(g) \/ EndStore(g)
      PROVE  Ready
  BY <1>5 DEF BeginStore, EndStore
<1>6. CASE (\E t \in Target : Renew(t)) \/ UNCHANGED vars
  BY <1>6 DEF Renew, vars
<1> QED
  BY <1>1, <1>2, <1>3, <1>4, <1>5, <1>6 DEF Next, Running, Stopped, Step

(* Every variable keeps its type.                                          *)
THEOREM TypeCorrect == Spec => []TypeOK
<1>1. Init => TypeOK /\ ReplyInHand
  BY TypeInit
<1>2. TypeOK /\ ReplyInHand /\ [Next]_vars => (TypeOK /\ ReplyInHand)'
  BY TypeNext, ReplyNext
<1> QED
  BY <1>1, <1>2, PTL DEF Spec
-----------------------------------------------------------------------------
(* The lock.                                                               *)

LEMMA LockInit == Init => LockDiscipline
  BY ConstantsAssumption
     DEF Init, LockDiscipline, WriterStates, FetchStates

LEMMA LockNext == TypeOK /\ LockDiscipline /\ [Next]_vars => LockDiscipline'
<1> SUFFICES ASSUME TypeOK, LockDiscipline, [Next]_vars
             PROVE  LockDiscipline'
  OBVIOUS
<1> USE ConstantsAssumption
    DEF TypeOK, LockDiscipline, WriterStates, FetchStates, Goto
(* Steps that take or leave no lock.                                       *)
<1>1. ASSUME NEW g \in Goroutines, NEW t \in Target, Call(g, t)
      PROVE  LockDiscipline'
  BY <1>1 DEF Call, RestStates, rwmutex
<1>2. ASSUME NEW g \in Goroutines,
             CheckHit(g) \/ CheckMiss(g) \/ CheckFatal(g)
      PROVE  LockDiscipline'
  BY <1>2 DEF CheckHit, CheckMiss, CheckFatal, rwmutex
<1>3. ASSUME NEW g \in Goroutines,
             Send(g) \/ Respond(g) \/ BeginStore(g) \/ EndStore(g)
      PROVE  LockDiscipline'
  BY <1>3 DEF Send, Respond, BeginStore, EndStore, rwmutex
(* Readers.                                                                *)
<1>4. ASSUME NEW g \in Goroutines, RLock(g)
      PROVE  LockDiscipline'
  BY <1>4 DEF RLock
<1>5. ASSUME NEW g \in Goroutines, ReturnCached(g)
      PROVE  LockDiscipline'
  BY <1>5 DEF ReturnCached
(* Writers.                                                                *)
<1>6. ASSUME NEW g \in Goroutines, AnnounceWriter(g)
      PROVE  LockDiscipline'
  BY <1>6 DEF AnnounceWriter
<1>7. ASSUME NEW g \in Goroutines, AcquireLock(g)
      PROVE  LockDiscipline'
  BY <1>7 DEF AcquireLock, rwmutex
<1>8. ASSUME NEW g \in Goroutines, ReturnError(g) \/ ReturnFetched(g)
      PROVE  LockDiscipline'
  BY <1>8 DEF ReturnError, ReturnFetched, UnlockAndReturn
<1>9. CASE (\E t \in Target : Renew(t)) \/ UNCHANGED vars
  BY <1>9 DEF Renew, rwmutex, vars
<1> QED
  BY <1>1, <1>2, <1>3, <1>4, <1>5, <1>6, <1>7, <1>8, <1>9
     DEF Next, Running, Stopped, Step

(* The read lock and the write lock are held exactly where the code of     *)
(* GetRegistryCredentials believes they are, and never together.           *)
THEOREM LockHeldWhereAssumed == Spec => []LockDiscipline
  BY TypeCorrect, LockInit, LockNext, PTL DEF Spec

(* However many goroutines call at once and whatever they ask for, readers *)
(* that wait for a writer that waits for readers never block them all.     *)
THEOREM DeadlockFree == Spec => []NeverAllBlocked
<1>1. ASSUME TypeOK, LockDiscipline, NEW g \in Goroutines, pc[g] \notin RestStates
      PROVE  \E h \in Goroutines : CanGoOn(h)
  (* A writer that is not at work waits for a reader, which is.            *)
  <2>1. CASE writer \in Goroutines
    <3>1. CASE pc[writer] \in FetchStates \/ readers = {}
      BY <1>1, <2>1, <3>1 DEF LockDiscipline, WriterStates, CanGoOn
    <3>2. CASE readers # {}
      BY <1>1, <3>2 DEF LockDiscipline, CanGoOn
    <3> QED
      BY <3>1, <3>2
  (* With no writer nobody is parked, and g can go on.                     *)
  <2>2. CASE writer = NoOne
    <3>1. pc[g] \notin WriterStates /\ pc[g] # "parked"
      BY <1>1, <2>2, ConstantsAssumption DEF LockDiscipline
    <3>2. pc[g] \in {"check", "lock", "rlock", "rlocked"}
      BY <1>1, <3>1 DEF TypeOK, States, HitStates
    <3> QED
      BY <2>2, <3>2 DEF CanGoOn
  <2> QED
    BY <1>1, <2>1, <2>2 DEF TypeOK
<1>2. TypeOK /\ LockDiscipline => NeverAllBlocked
  BY <1>1 DEF NeverAllBlocked
<1> QED
  BY <1>2, TypeCorrect, LockHeldWhereAssumed, PTL

-----------------------------------------------------------------------------
(* A hit.  Between the unlocked look at the map and the second, locked one *)
(* the entry is there, or is just being stored by a goroutine that holds   *)
(* the write lock: nothing ever removes an entry.                          *)

Storing(k) == \E w \in Goroutines : pc[w] = "storing" /\ Key(w) = k

HitsStayCached ==
    \A g \in Goroutines :
        /\ pc[g] \in HitStates => cache[Key(g)] # Nil \/ Storing(Key(g))
        /\ pc[g] = "returned" => result[g] # Nil

HitInv == TypeOK /\ ReplyInHand /\ LockDiscipline /\ HitsStayCached

LEMMA HitNext == HitInv /\ [Next]_vars => HitsStayCached'
<1> SUFFICES ASSUME HitInv, [Next]_vars
             PROVE  HitsStayCached'
  OBVIOUS
<1> USE ConstantsAssumption
    DEF HitInv, TypeOK, HitsStayCached, HitStates, Storing, Key, Goto
<1>1. ASSUME NEW g \in Goroutines, NEW t \in Target, Call(g, t)
      PROVE  HitsStayCached'
  BY <1>1 DEF Call, RestStates
<1>2. ASSUME NEW g \in Goroutines, CheckHit(g)
      PROVE  HitsStayCached'
  BY <1>2 DEF CheckHit, MaySee
<1>3. ASSUME NEW g \in Goroutines,
             \/ CheckMiss(g) \/ CheckFatal(g) \/ RLock(g) \/ AnnounceWriter(g)
             \/ AcquireLock(g) \/ Send(g) \/ Respond(g) \/ BeginStore(g)
      PROVE  HitsStayCached'
  BY <1>3 DEF CheckMiss, CheckFatal, RLock, AnnounceWriter, AcquireLock, Send,
              Respond, BeginStore
(* Nobody stores while g holds the read lock, so the entry is complete.    *)
<1>4. ASSUME NEW g \in Goroutines, ReturnCached(g)
      PROVE  HitsStayCached'
  <2>1. ~Storing(Key(g))
    BY <1>4 DEF ReturnCached, LockDiscipline, FetchStates
  <2>2. cache[Key(g)] # Nil
    BY <1>4, <2>1 DEF ReturnCached
  <2> QED
    BY <1>4, <2>2 DEF ReturnCached
<1>5. ASSUME NEW g \in Goroutines, EndStore(g)
      PROVE  HitsStayCached'
  <2>1. reply[g] # Nil
    BY <1>5 DEF EndStore, ReplyInHand
  <2>2. /\ Key(g) \in CacheKeys
        /\ cache' = [cache EXCEPT ![Key(g)] = reply[g]]
    BY <1>5, KeyInKeys DEF EndStore
  <2>3. \A k \in CacheKeys : cache[k] # Nil \/ k = Key(g) => cache'[k] # Nil
    BY <2>1, <2>2
  <2>4. \A h \in Goroutines : Key(h)' = Key(h) /\ Key(h) \in CacheKeys
    BY <1>5, KeyInKeys DEF EndStore
  <2> QED
    BY <1>5, <2>3, <2>4 DEF EndStore
<1>6. ASSUME NEW g \in Goroutines, ReturnError(g)
      PROVE  HitsStayCached'
  BY <1>6 DEF ReturnError, UnlockAndReturn, LockDiscipline
<1>7. ASSUME NEW g \in Goroutines, ReturnFetched(g)
      PROVE  HitsStayCached'
  BY <1>7 DEF ReturnFetched, UnlockAndReturn, LockDiscipline, ReplyInHand
<1>8. CASE (\E t \in Target : Renew(t)) \/ UNCHANGED vars
  BY <1>8 DEF Renew, vars
<1> QED
  BY <1>1, <1>2, <1>3, <1>4, <1>5, <1>6, <1>7, <1>8
     DEF Next, Running, Stopped, Step

LEMMA HitInductive == Spec => []HitInv
<1>1. Init => HitInv
  BY TypeInit, LockInit DEF Init, HitInv, HitsStayCached, HitStates
<1>2. HitInv /\ [Next]_vars => HitInv'
  BY TypeNext, ReplyNext, LockNext, HitNext DEF HitInv
<1> QED
  BY <1>1, <1>2, PTL DEF Spec

(* No caller is handed (nil, nil), however the goroutines interleave.      *)
THEOREM HitReturnsCredential == Spec => []HitNeverNil
<1>1. HitInv => HitNeverNil
  BY DEF HitInv, HitsStayCached, HitStates, Storing, HitNeverNil,
         LockDiscipline, FetchStates
<1> QED
  BY <1>1, HitInductive, PTL
-----------------------------------------------------------------------------
(* Freshness.  An answer is current when it arrives; as its holder keeps   *)
(* the write lock, nothing newer can be stored before it is.               *)

Answered == {"replied", "storing", "stored"}

RepliesFresh ==
    \A g \in Goroutines :
        /\ since[g] <= epoch[arg[g]]
        /\ pc[g] \in Answered /\ reply[g] \in Issued =>
              /\ reply[g].target = arg[g]
              /\ since[g] <= reply[g].epoch
              /\ reply[g].epoch <= epoch[arg[g]]

CacheFresh ==
    \A k \in CacheKeys : cache[k] \in Issued =>
        /\ CacheKey(cache[k].target) = k
        /\ cache[k].epoch <= epoch[cache[k].target]

AnswerNotOlder ==
    \A g \in Goroutines, k \in CacheKeys :
        /\ pc[g] \in Answered
        /\ reply[g] \in Issued
        /\ cache[k] \in Issued
        /\ cache[k].target = reply[g].target
        => cache[k].epoch <= reply[g].epoch

FreshInv == RepliesFresh /\ CacheFresh /\ AnswerNotOlder

(* Every result was found under, or fetched for, the key that was asked.   *)
ResultOfKey ==
    \A g \in Goroutines :
        pc[g] = "returned" /\ result[g] \in Issued => CacheKey(result[g].target) = Key(g)

IInv == HitInv /\ FreshInv /\ ResultOfKey

LEMMA IssuedFields ==
    \A c \in Issued : c.target \in Target /\ c.epoch \in Nat
  BY DEF Issued

LEMMA FreshInit == Init => FreshInv /\ ResultOfKey
<1> SUFFICES ASSUME Init
             PROVE  FreshInv /\ ResultOfKey
  OBVIOUS
<1>1. Nil \notin Issued
  BY ConstantsAssumption DEF Credentials
<1>2. RepliesFresh
  <2>1. \A g \in Goroutines : arg[g] \in Target
    BY ChosenTarget, Zenon DEF Init
  <2>2. \A g \in Goroutines : since[g] = 0 /\ epoch[arg[g]] = 0
    BY <2>1 DEF Init
  <2>3. \A g \in Goroutines : pc[g] \notin Answered
    BY DEF Init, Answered
  <2>4. \A g \in Goroutines : since[g] <= epoch[arg[g]]
    <3>1. 0 <= 0
      OBVIOUS
    <3> QED
      BY <2>2, <3>1, Zenon
  <2> QED
    BY <2>3, <2>4, Zenon DEF RepliesFresh
<1>3. CacheFresh /\ AnswerNotOlder /\ ResultOfKey
  BY <1>1 DEF Init, CacheFresh, AnswerNotOlder, Answered, ResultOfKey
<1> QED
  BY <1>2, <1>3 DEF FreshInv

(* What a step leaves alone for h: its call, its answer and the cache.     *)
LEMMA FreshNext == IInv /\ [Next]_vars => FreshInv'
<1> SUFFICES ASSUME IInv, [Next]_vars
             PROVE  FreshInv'
  OBVIOUS
<1> USE ConstantsAssumption, IssuedFields
    DEF IInv, HitInv, TypeOK, FreshInv, RepliesFresh, CacheFresh,
        AnswerNotOlder, Answered, Goto
<1>1. ASSUME NEW g \in Goroutines, NEW t \in Target, Call(g, t)
      PROVE  FreshInv'
  BY <1>1 DEF Call, RestStates, server
<1>2. ASSUME NEW g \in Goroutines,
             \/ CheckHit(g) \/ CheckMiss(g) \/ CheckFatal(g) \/ RLock(g)
             \/ ReturnCached(g) \/ AnnounceWriter(g) \/ AcquireLock(g)
             \/ Send(g) \/ BeginStore(g)
      PROVE  FreshInv'
  BY <1>2 DEF CheckHit, CheckMiss, CheckFatal, RLock, ReturnCached,
              AnnounceWriter, AcquireLock, Send, BeginStore, server
(* The answer carries the current epoch, which no cached one exceeds.      *)
<1>3. ASSUME NEW g \in Goroutines, Respond(g)
      PROVE  FreshInv'
  <2>1. /\ UNCHANGED <<arg, cache, epoch, since>>
        /\ \A h \in Goroutines : h # g => pc'[h] = pc[h] /\ reply'[h] = reply[h]
        /\ reply'[g] \in {[target |-> arg[g], epoch |-> epoch[arg[g]]], Blank, Failed}
    BY <1>3 DEF Respond, server
  <2>2. Failed \notin Issued /\ Blank \notin Issued
    BY DEF Credentials
  <2>3. reply'[g] \in Issued =>
          reply'[g].target = arg[g] /\ reply'[g].epoch = epoch[arg[g]]
    BY <2>1, <2>2
  <2> QED
    BY <2>1, <2>3
<1>4. ASSUME NEW g \in Goroutines, ReturnError(g) \/ ReturnFetched(g)
      PROVE  FreshInv'
  BY <1>4 DEF ReturnError, ReturnFetched, UnlockAndReturn, server
(* Only g holds an answer, so only g's own answer is compared.             *)
<1>5. ASSUME NEW g \in Goroutines, EndStore(g)
      PROVE  FreshInv'
  <2>1. /\ UNCHANGED <<arg, reply, epoch, since>>
        /\ pc[g] \in Answered
        /\ \A h \in Goroutines : pc'[h] \in Answered => pc[h] \in Answered
    BY <1>5 DEF EndStore, server
  <2>2. \A h \in Goroutines : pc[h] \in Answered => h = g
    BY <2>1 DEF LockDiscipline, WriterStates, FetchStates
  <2>3. /\ Key(g) \in CacheKeys
        /\ cache'[Key(g)] = reply[g]
        /\ \A k \in CacheKeys : k # Key(g) => cache'[k] = cache[k]
    BY <1>5, KeyInKeys DEF EndStore, Key
  <2>4. RepliesFresh'
    BY <2>1
  <2>5. CacheFresh'
    BY <2>1, <2>3 DEF Key
  <2>6. AnswerNotOlder'
    BY <2>1, <2>2, <2>3
  <2> QED
    BY <2>4, <2>5, <2>6
<1>6. ASSUME NEW t \in Target, Renew(t)
      PROVE  FreshInv'
  BY <1>6 DEF Renew
<1>7. CASE UNCHANGED vars
  BY <1>7 DEF vars, server
<1> QED
  BY <1>1, <1>2, <1>3, <1>4, <1>5, <1>6, <1>7
     DEF Next, Running, Stopped, Step

LEMMA ResultNext == IInv /\ [Next]_vars => ResultOfKey'
<1> SUFFICES ASSUME IInv, [Next]_vars
             PROVE  ResultOfKey'
  OBVIOUS
<1> USE ConstantsAssumption
    DEF IInv, HitInv, TypeOK, ResultOfKey, Key, Goto
<1>1. ASSUME NEW g \in Goroutines, NEW t \in Target, Call(g, t)
      PROVE  ResultOfKey'
  BY <1>1 DEF Call
<1>2. ASSUME NEW g \in Goroutines,
             \/ CheckHit(g) \/ CheckMiss(g) \/ CheckFatal(g) \/ RLock(g)
             \/ AnnounceWriter(g) \/ AcquireLock(g) \/ Send(g) \/ Respond(g)
             \/ BeginStore(g) \/ EndStore(g)
      PROVE  ResultOfKey'
  BY <1>2 DEF CheckHit, CheckMiss, CheckFatal, RLock, AnnounceWriter,
              AcquireLock, Send, Respond, BeginStore, EndStore
<1>3. ASSUME NEW g \in Goroutines, ReturnCached(g)
      PROVE  ResultOfKey'
  BY <1>3, KeyInKeys DEF ReturnCached, FreshInv, CacheFresh
<1>4. ASSUME NEW g \in Goroutines, ReturnError(g)
      PROVE  ResultOfKey'
  BY <1>4 DEF ReturnError, UnlockAndReturn, LockDiscipline, Credentials
<1>5. ASSUME NEW g \in Goroutines, ReturnFetched(g)
      PROVE  ResultOfKey'
  BY <1>5 DEF ReturnFetched, UnlockAndReturn, LockDiscipline, FreshInv,
              RepliesFresh, Answered
<1>6. CASE (\E t \in Target : Renew(t)) \/ UNCHANGED vars
  BY <1>6 DEF Renew, vars
<1> QED
  BY <1>1, <1>2, <1>3, <1>4, <1>5, <1>6
     DEF Next, Running, Stopped, Step

LEMMA Inductive == Spec => []IInv
<1>1. Init => IInv
  BY TypeInit, LockInit, FreshInit
     DEF Init, IInv, HitInv, HitsStayCached, HitStates
<1>2. IInv /\ [Next]_vars => IInv'
  BY TypeNext, ReplyNext, LockNext, HitNext, FreshNext, ResultNext
     DEF IInv, HitInv
<1> QED
  BY <1>1, <1>2, PTL DEF Spec

(* Where no two registries share a cache key, every call returns the       *)
(* credential of the registry it asked for.                                *)
THEOREM DistinctKeysNeverMixRegistries ==
    ASSUME \A t, u \in Target : CacheKey(t) = CacheKey(u) => t = u
    PROVE  Spec => []ReturnsRequestedRegistry
<1>1. IInv => ReturnsRequestedRegistry
  BY IssuedFields
     DEF IInv, HitInv, TypeOK, ResultOfKey, Key, ReturnsRequestedRegistry
<1> QED
  BY <1>1, Inductive, PTL

(* Names whose keys can be taken apart again: no region goes on, after a   *)
(* "-", where another one ends.  Regions of Google Cloud are of this kind. *)
SeparableRegions ==
    \A r, s \in Regions :
        Len(r) < Len(s) => \E i \in 1 .. Len(r) + 1 : s[i] # (r \o <<"-">>)[i]

(* Sequences that agree at every place are the same.                      *)
LEMMA SameSequence ==
    ASSUME NEW S, NEW p \in Seq(S), NEW q \in Seq(S),
           Len(p) = Len(q), \A i \in 1 .. Len(p) : p[i] = q[i]
    PROVE  p = q
  OBVIOUS

LEMMA KeysDiffer ==
    ASSUME NEW Word, Regions \subseteq Seq(Word), Registries \subseteq Seq(Word),
           "-" \in Word, SeparableRegions,
           NEW t \in Target, NEW u \in Target, CacheKey(t) = CacheKey(u)
    PROVE  t = u
<1>1. /\ t.region \in Seq(Word) /\ t.registry \in Seq(Word) /\ t.region \in Regions
      /\ u.region \in Seq(Word) /\ u.registry \in Seq(Word) /\ u.region \in Regions
      /\ t = [region |-> t.region, registry |-> t.registry]
      /\ u = [region |-> u.region, registry |-> u.registry]
  BY DEF Target
(* A key begins with the region and the separator, and goes on with the    *)
(* registry.                                                               *)
<1>2. ASSUME NEW r \in Seq(Word), NEW q \in Seq(Word)
      PROVE  /\ Len(r \o <<"-">> \o q) = Len(r) + 1 + Len(q)
             /\ \A i \in 1 .. Len(r) + 1 : (r \o <<"-">> \o q)[i] = (r \o <<"-">>)[i]
             /\ \A i \in 1 .. Len(r) : (r \o <<"-">> \o q)[i] = r[i]
             /\ \A i \in 1 .. Len(q) : (r \o <<"-">> \o q)[Len(r) + 1 + i] = q[i]
  OBVIOUS
<1>3. ASSUME NEW r \in Regions, NEW s \in Regions, NEW q \in Seq(Word), NEW p \in Seq(Word),
             r \o <<"-">> \o q = s \o <<"-">> \o p
      PROVE  ~(Len(r) < Len(s))
  <2> SUFFICES ASSUME Len(r) < Len(s)
               PROVE  FALSE
    OBVIOUS
  <2>1. r \in Seq(Word) /\ s \in Seq(Word) /\ Len(r) \in Nat /\ Len(s) \in Nat
    OBVIOUS
  <2>2. PICK i \in 1 .. Len(r) + 1 : s[i] # (r \o <<"-">>)[i]
    BY DEF SeparableRegions
  <2>3. i \in 1 .. Len(s)
    BY <2>1
  <2>4. (r \o <<"-">> \o q)[i] = (r \o <<"-">>)[i] /\ (s \o <<"-">> \o p)[i] = s[i]
    BY <1>2, <2>1, <2>3
  <2> QED
    BY <1>3, <2>2, <2>4
<1>4. t.region \o <<"-">> \o t.registry = u.region \o <<"-">> \o u.registry
  BY DEF CacheKey
<1>5. Len(t.region) = Len(u.region)
  <2>1. ~(Len(t.region) < Len(u.region))
    BY <1>1, <1>3, <1>4
  <2>2. ~(Len(u.region) < Len(t.region))
    BY <1>1, <1>3, <1>4
  <2>3. Len(t.region) \in Nat /\ Len(u.region) \in Nat
    BY <1>1
  <2> QED
    BY <2>1, <2>2, <2>3
<1>6. t.region = u.region
  <2>1. ASSUME NEW i \in 1 .. Len(t.region)
        PROVE  t.region[i] = u.region[i]
    <3>1. (t.region \o <<"-">> \o t.registry)[i] = t.region[i]
      BY <1>1, <1>2
    <3>2. (u.region \o <<"-">> \o u.registry)[i] = u.region[i]
      BY <1>1, <1>2, <1>5
    <3> QED
      BY <1>4, <3>1, <3>2
  <2> QED
    BY <1>1, <1>5, <2>1, SameSequence
<1>7. t.registry = u.registry
  <2>1. Len(t.registry) = Len(u.registry)
    BY <1>1, <1>2, <1>4, <1>5
  <2>2. ASSUME NEW i \in 1 .. Len(t.registry)
        PROVE  t.registry[i] = u.registry[i]
    <3>1. (t.region \o <<"-">> \o t.registry)[Len(t.region) + 1 + i] = t.registry[i]
      BY <1>1, <1>2
    <3>2. (u.region \o <<"-">> \o u.registry)[Len(u.region) + 1 + i] = u.registry[i]
      BY <1>1, <1>2, <2>1
    <3>3. Len(t.region) + 1 + i = Len(u.region) + 1 + i
      BY <1>5
    <3> QED
      BY <1>4, <3>1, <3>2, <3>3, Zenon
  <2> QED
    BY <1>1, <2>1, <2>2, SameSequence
<1> QED
  BY <1>1, <1>6, <1>7

(* So every call returns the credential of the registry it asked for, for  *)
(* any registry names at all, where the regions are separable.  Without    *)
(* that, iot.go 99 lets two registries share a key.                        *)
THEOREM SeparableRegionsNeverMixRegistries ==
    ASSUME NEW Word, Regions \subseteq Seq(Word), Registries \subseteq Seq(Word),
           "-" \in Word, SeparableRegions
    PROVE  Spec => []ReturnsRequestedRegistry
<1>1. \A t, u \in Target : CacheKey(t) = CacheKey(u) => t = u
  BY KeysDiffer
<1> QED
  BY <1>1, DistinctKeysNeverMixRegistries

(* A later store never puts back an older credential of a registry.        *)
THEOREM StoresNeverOlder == Spec => CacheNeverOlder
<1> DEFINE NoOlder ==
        \A k \in CacheKeys :
          /\ cache[k] \in Issued
          /\ cache'[k] \in Issued
          /\ cache[k].target = cache'[k].target
          => cache[k].epoch <= cache'[k].epoch
<1>1. IInv /\ [Next]_vars => [NoOlder]_vars
  <2> SUFFICES ASSUME IInv, [Next]_vars, NEW k \in CacheKeys,
                      cache[k] \in Issued, cache'[k] \in Issued,
                      cache[k].target = cache'[k].target
               PROVE  cache[k].epoch <= cache'[k].epoch
    OBVIOUS
  <2>1. CASE UNCHANGED cache
    BY <2>1, IssuedFields
  <2>2. ASSUME NEW g \in Goroutines, EndStore(g)
        PROVE  cache[k].epoch <= cache'[k].epoch
    <3>1. CASE k = Key(g)
      BY <2>2, <3>1
         DEF EndStore, IInv, HitInv, TypeOK, FreshInv, AnswerNotOlder, Answered
    <3>2. CASE k # Key(g)
      BY <2>2, <3>2, IssuedFields DEF EndStore, IInv, HitInv, TypeOK
    <3> QED
      BY <3>1, <3>2
  <2> QED
    BY <2>1, <2>2
       DEF Next, Running, Stopped, Step, vars, Call, CheckHit, CheckMiss,
           CheckFatal, RLock, ReturnCached, AnnounceWriter, AcquireLock, Send,
           Respond, ReturnError, BeginStore, ReturnFetched, Renew
<1>2. Spec => [][NoOlder]_vars
  BY <1>1, Inductive, PTL DEF Spec
<1> QED
  BY <1>2 DEF CacheNeverOlder
=============================================================================
