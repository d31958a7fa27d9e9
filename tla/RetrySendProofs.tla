-------------------------- MODULE RetrySendProofs --------------------------
(***************************************************************************)
(* Proofs about RetrySend, for every set of statuses and errors, every     *)
(* ShouldRetry and every bound on the attempts that are counted.           *)
(***************************************************************************)
EXTENDS RetrySend, TLAPS

(* What the loop keeps between the properties' points: a request that has  *)
(* not begun, and a context that was done stays done.                      *)
LoopInv ==
    /\ pc = "start" => unread /\ resp = NoResponse /\ err = NoError
    /\ doneIn # "never" => Done

IInv ==
    /\ TypeOK
    /\ LoopInv
    /\ EachAttemptWhole
    /\ ResponsesClosed
    /\ DoneStopsRetries
    /\ TransientTriedAgain

(* A response is a record with a status and an open body, and is not nil.  *)
LEMMA ResponseParts ==
    ASSUME NEW r \in [status : Statuses, open : BOOLEAN]
    PROVE  /\ r # NoResponse
           /\ r.status \in 100..599
           /\ r.open \in BOOLEAN
<1>1. Statuses \subseteq 100..599 /\ NoResponse \notin [status : Statuses, open : BOOLEAN]
  BY RetryAssumption DEF RetryAssumption
<1>2. r.status \in Statuses /\ r.open \in BOOLEAN
  OBVIOUS
<1>3. r.status \in 100..599
  BY <1>1, <1>2
<1>4. r # NoResponse
  BY <1>1, Zenon
<1> QED BY <1>2, <1>3, <1>4, Zenon

(* What is given up without ShouldRetry wanting it again is not transient. *)
LEMMA TransientIsRetried ==
    ASSUME TypeOK, Transient
    PROVE  ShouldRetry(Status, err)
<1>1. CASE err \in TransientErrors
  BY <1>1 DEF ShouldRetry, RetryableError
<1>2. CASE resp # NoResponse /\ (resp.status \div 100 = 5 \/ resp.status \in {408, 429})
  <2>1. resp.status \in 100..599
    BY <1>2, ResponseParts DEF TypeOK
  <2>2. resp.status \in 500..599 \cup {429, 408}
    BY <1>2, <2>1
  <2> QED BY <1>2, <2>2 DEF ShouldRetry, Status
<1> QED BY <1>1, <1>2 DEF Transient

LEMMA InvInit == Init => IInv
<1> SUFFICES ASSUME Init PROVE IInv
  OBVIOUS
<1>1. TypeOK
  <2>1. 1 \in 1..MaxAttempts
    BY RetryAssumption DEF RetryAssumption
  <2>2. ret \in [resp : [status : Statuses, open : BOOLEAN] \cup {NoResponse},
                errors : SUBSET (Errors \cup {BadHeader})]
    BY DEF Init
  <2> QED BY <2>1, <2>2 DEF Init, TypeOK
<1>2. LoopInv /\ EachAttemptWhole /\ ResponsesClosed /\ DoneStopsRetries
      /\ TransientTriedAgain
  BY DEF Init, LoopInv, EachAttemptWhole, ResponsesClosed, DoneStopsRetries,
     TransientTriedAgain
<1> QED BY <1>1, <1>2 DEF IInv

(* Each disjunct of Next keeps the strengthened invariant.                 *)
LEMMA InvNext == IInv /\ [Next]_vars => IInv'
<1> SUFFICES ASSUME IInv, [Next]_vars PROVE IInv'
  OBVIOUS
<1> USE DEF IInv, TypeOK, LoopInv, EachAttemptWhole, ResponsesClosed, DoneStopsRetries,
    Done, request, ghosts, Goto
<1>1. CASE RejectHeader
  BY <1>1, RetryAssumption DEF RetryAssumption, RejectHeader, Return, CtxErrors, Errors,
     TransientTriedAgain, Transient
<1>2. CASE Start
  BY <1>2 DEF Start, TransientTriedAgain
<1>3. CASE ReturnDone /\ pc \in {"wait", "check"} /\ Done
  BY <1>3, RetryAssumption DEF RetryAssumption, ReturnDone, Return, CtxErrors, Errors,
     TransientTriedAgain
<1>4. CASE TimerFires
  BY <1>4 DEF TimerFires, TransientTriedAgain
<1>5. CASE Do
  <2>1. UNCHANGED <<request, ctx, attempts, resp, err, ret, doneIn, unmade>>
        /\ pc = "check" /\ ~Done /\ pc' = "flight" /\ unread' = FALSE
    BY <1>5 DEF Do
  <2>2. leaked' = FALSE
    <3>1. ~leaked /\ ~(resp # NoResponse /\ resp.open)
      BY <2>1
    <3> QED BY <1>5, <3>1 DEF Do
  <2>3. doneIn = "never"
    BY <2>1
  <2>4. TypeOK'
    BY <2>1, <2>2
  <2>5. LoopInv' /\ EachAttemptWhole'
    BY <2>1
  <2>6. ResponsesClosed' /\ DoneStopsRetries' /\ TransientTriedAgain'
    BY <2>1, <2>2, <2>3 DEF TransientTriedAgain
  <2> QED BY <2>4, <2>5, <2>6, Zenon
<1>6. CASE Answer
  <2>1. PICK s \in Statuses : resp' = [status |-> s, open |-> TRUE]
    BY <1>6 DEF Answer
  <2>2. resp' \in [status : Statuses, open : BOOLEAN] /\ resp'.open
    BY <2>1
  <2>3. resp' # NoResponse
    BY <2>2, ResponseParts
  <2> QED BY <1>6, <2>2, <2>3, RetryAssumption
          DEF RetryAssumption, Answer, TransientTriedAgain
<1>7. CASE Fail \/ Abort
  BY <1>7, RetryAssumption DEF RetryAssumption, Fail, Abort, Errors, CtxErrors,
     TransientTriedAgain
<1>8. CASE RefuseRedirect
  <2>1. PICK s \in Statuses : resp' = [status |-> s, open |-> FALSE]
    BY <1>8 DEF RefuseRedirect
  <2>2. resp' \in [status : Statuses, open : BOOLEAN] /\ ~resp'.open
    BY <2>1
  <2> QED BY <1>8, <2>2, RetryAssumption
          DEF RetryAssumption, RefuseRedirect, Errors, TransientTriedAgain
<1>9. CASE GiveUp
  <2>1. TransientTriedAgain'
    BY <1>9, TransientIsRetried
    DEF GiveUp, WantsRetry, ErrorFunc, Return, Result, TransientTriedAgain, Transient,
        HasGetBody
  <2> QED BY <1>9, <2>1, RetryAssumption
          DEF RetryAssumption, GiveUp, Return, Result, Errors, CtxErrors
<1>10. CASE GetBodyFails
  BY <1>10, RetryAssumption DEF RetryAssumption, GetBodyFails, Count, Return, Result,
     Errors, CtxErrors, TransientTriedAgain
<1>11. CASE Retry
  <2>1. resp' \in [status : Statuses, open : BOOLEAN] \cup {NoResponse}
    BY <1>11 DEF Retry
  <2>2. resp' # NoResponse => ~resp'.open
    BY <1>11, ResponseParts DEF Retry
  <2>3. attempts' \in 1..MaxAttempts
    BY <1>11, RetryAssumption DEF RetryAssumption, Retry, Count
  <2> QED BY <1>11, <2>1, <2>2, <2>3 DEF Retry, TransientTriedAgain
<1>12. CASE End
  BY <1>12 DEF End, CtxErrors, TransientTriedAgain
<1>13. CASE UNCHANGED vars
  BY <1>13 DEF vars, TransientTriedAgain, Transient, HasGetBody
<1> QED
  BY <1>1, <1>2, <1>3, <1>4, <1>5, <1>6, <1>7, <1>8, <1>9, <1>10, <1>11, <1>12,
     <1>13 DEF Next, OwnStep, WaitDone, CheckDone, Returned

LEMMA Inductive == Spec => []IInv
BY InvInit, InvNext, PTL DEF Spec

(* Every variable has its type, and client.Do leaves a response with an    *)
(* open body or an error, never both and never neither.                    *)
THEOREM RetryTypeCorrect == Spec => []TypeOK
BY Inductive, PTL DEF IInv

(* No attempt of sendAndRetry sends a body that the one before has read.   *)
THEOREM AttemptsWhole == Spec => []EachAttemptWhole
BY Inductive, PTL DEF IInv

(* However many attempts, only the response that is returned stays open.   *)
THEOREM RetriesCloseResponses == Spec => []ResponsesClosed
BY Inductive, PTL DEF IInv

(* Once the context is done while sendAndRetry waits, no further request   *)
(* is sent, whichever branch its select takes.                             *)
THEOREM NoRetryOnceDone == Spec => []DoneStopsRetries
BY Inductive, PTL DEF IInv

(* A transient outcome is returned only where a retry was not possible.    *)
THEOREM TransientNotGivenUp == Spec => []TransientTriedAgain
BY Inductive, PTL DEF IInv
=============================================================================
