------------------- MODULE RegistryCredentialsRefinement -------------------
(***************************************************************************)
(* Proof that the locked, cached GetRegistryCredentials implements the     *)
(* abstract CredentialStore.  A call takes effect where the store or its   *)
(* caller first sees its outcome: a hit when it returns, a fetch when the  *)
(* map assignment ends, a failure when it returns.  Every other step of    *)
(* the code is invisible there.                                            *)
(***************************************************************************)
EXTENDS RegistryCredentialsProofs

LEMMA StoreInit == Init => Store!Init
  BY DEF Init, Store!Init, CallStatus, CallOutcome, CacheKeys

LEMMA InvisibleSteps ==
    ASSUME IInv, NEW g \in Goroutines,
           \/ CheckHit(g) \/ CheckMiss(g) \/ CheckFatal(g) \/ RLock(g)
           \/ AnnounceWriter(g) \/ AcquireLock(g) \/ Send(g) \/ Respond(g)
           \/ BeginStore(g) \/ ReturnFetched(g)
    PROVE  UNCHANGED Store!vars
<1> USE DEF IInv, HitInv, TypeOK, LockDiscipline, Store!vars, CallStatus,
            CallOutcome, Goto, rwmutex, server
<1>1. CASE CheckHit(g) \/ CheckMiss(g) \/ CheckFatal(g) \/ RLock(g)
  BY <1>1 DEF CheckHit, CheckMiss, CheckFatal, RLock
<1>2. CASE AnnounceWriter(g) \/ AcquireLock(g) \/ Send(g) \/ BeginStore(g)
  BY <1>2 DEF AnnounceWriter, AcquireLock, Send, BeginStore
<1>3. CASE Respond(g)
  BY <1>3 DEF Respond
<1>4. CASE ReturnFetched(g)
  BY <1>4 DEF ReturnFetched, UnlockAndReturn
<1> QED
  BY <1>1, <1>2, <1>3, <1>4

LEMMA CallInvokes ==
    ASSUME IInv, NEW g \in Goroutines, NEW t \in Target, Call(g, t)
    PROVE  Store!Invoke(g, t)
  BY DEF IInv, HitInv, TypeOK, Call, RestStates, Goto, server, Store!Invoke,
         CallStatus, CallOutcome

LEMMA CachedReturnHits ==
    ASSUME IInv, NEW g \in Goroutines, ReturnCached(g)
    PROVE  Store!Hit(g)
<1> USE DEF IInv, HitInv, TypeOK
<1>1. cache[Key(g)] # Nil
  BY DEF ReturnCached, HitsStayCached, HitStates, Storing, LockDiscipline,
         FetchStates
<1>2. Store!Return(g, cache[Key(g)])
  BY DEF ReturnCached, Goto, server, Store!Return, CallStatus, CallOutcome
<1> QED
  BY <1>1, <1>2 DEF ReturnCached, Store!Hit, Key

LEMMA ErrorFails ==
    ASSUME IInv, NEW g \in Goroutines, ReturnError(g)
    PROVE  Store!Fail(g)
  BY DEF IInv, HitInv, TypeOK, LockDiscipline, ReturnError, UnlockAndReturn,
         server, Store!Fail, Store!Return, CallStatus, CallOutcome

LEMMA StoringRefreshes ==
    ASSUME IInv, NEW g \in Goroutines, EndStore(g)
    PROVE  Store!Refresh(g) \/ Store!RefreshBlank(g)
<1> USE ConstantsAssumption DEF IInv, HitInv, TypeOK
<1>1. reply[g] \in Issued \cup {Blank}
  BY DEF EndStore, ReplyInHand, Credentials
<1>2. Store!Return(g, reply[g])
  BY DEF EndStore, Goto, server, Store!Return, CallStatus, CallOutcome
<1>3. cache' = [cache EXCEPT ![CacheKey(arg[g])] = reply[g]]
  BY DEF EndStore, Key
<1>4. CASE reply[g] = Blank
  BY <1>2, <1>3, <1>4 DEF Store!RefreshBlank
<1>5. CASE reply[g] \in Issued
  <2>1. reply[g] = [target |-> arg[g], epoch |-> reply[g].epoch]
    BY <1>5 DEF EndStore, Issued, FreshInv, RepliesFresh, Answered
  <2>2. reply[g].epoch \in since[g]..epoch[arg[g]]
    BY <1>5, IssuedFields DEF EndStore, FreshInv, RepliesFresh, Answered
  <2>3. Store!MayReplace(cache[CacheKey(arg[g])], arg[g], reply[g].epoch)
    <3>1. /\ CacheKey(arg[g]) \in CacheKeys
          /\ reply[g].target = arg[g]
      BY <1>5, KeyInKeys DEF EndStore, FreshInv, RepliesFresh, Answered
    <3> QED
      BY <1>5, <3>1
         DEF Store!MayReplace, EndStore, FreshInv, AnswerNotOlder, Answered,
             Credentials
  <2> QED
    BY <1>2, <1>3, <2>1, <2>2, <2>3 DEF Store!Refresh
<1> QED
  BY <1>1, <1>4, <1>5

LEMMA RenewRenews ==
    ASSUME NEW t \in Target, Renew(t)
    PROVE  Store!Renew(t)
  BY DEF Renew, Store!Renew, CallStatus, CallOutcome

(* The cache and its lock behave as the abstract store: each call takes    *)
(* effect in one step between its invocation and its return.               *)
THEOREM CacheImplementsStore == Spec => ImplementsStore
<1>1. IInv /\ [Next]_vars => [Store!Next]_(Store!vars)
  <2> SUFFICES ASSUME IInv, [Next]_vars
               PROVE  [Store!Next]_(Store!vars)
    OBVIOUS
  <2>1. ASSUME NEW g \in Goroutines, NEW t \in Target, Call(g, t)
        PROVE  Store!Next
    BY <2>1, CallInvokes DEF Store!Next
  <2>2. ASSUME NEW g \in Goroutines,
               \/ CheckHit(g) \/ CheckMiss(g) \/ CheckFatal(g) \/ RLock(g)
               \/ AnnounceWriter(g) \/ AcquireLock(g) \/ Send(g) \/ Respond(g)
               \/ BeginStore(g) \/ ReturnFetched(g)
        PROVE  UNCHANGED Store!vars
    BY <2>2, InvisibleSteps
  <2>3. ASSUME NEW g \in Goroutines,
               ReturnCached(g) \/ ReturnError(g) \/ EndStore(g)
        PROVE  Store!Next
    BY <2>3, CachedReturnHits, ErrorFails, StoringRefreshes DEF Store!Next
  <2>4. ASSUME NEW t \in Target, Renew(t)
        PROVE  Store!Next
    BY <2>4, RenewRenews DEF Store!Next
  <2>5. CASE UNCHANGED vars
    BY <2>5 DEF vars, server, Store!vars, CallStatus, CallOutcome
  <2> QED
    BY <2>1, <2>2, <2>3, <2>4, <2>5 DEF Next, Running, Stopped, Step
<1> QED
  BY <1>1, StoreInit, Inductive, PTL DEF Spec, ImplementsStore, Store!Spec
=============================================================================
