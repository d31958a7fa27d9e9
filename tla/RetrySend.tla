----------------------------- MODULE RetrySend -----------------------------
(***************************************************************************)
(* SendRequestWithRetry and sendAndRetry (gensupport/send.go), with        *)
(* shouldRetry and errorFunc (gensupport/retry.go): one request, sent      *)
(* again after a pause as long as its outcome may be transient, its body   *)
(* can be made again, and its context is not done.                         *)
(*                                                                         *)
(* The context may be done at any time.  An error is named by the cause at *)
(* the end of its chain of Unwrap; an error that is returned is the set of *)
(* the causes that errors.Is finds in it, {} for nil.                      *)
(***************************************************************************)
EXTENDS Naturals

CONSTANTS Statuses,        \* the statuses the server answers with
          TransientErrors, \* connection reset, unexpected EOF, closed, temporary
          OtherErrors,     \* any other transport error
          CustomStatuses,  \* what a ShouldRetry of the RetryConfig accepts
          CustomErrors,
          NoError,         \* nil
          NoResponse,      \* nil
          BadHeader,       \* "custom Accept-Encoding headers not allowed"
          MaxAttempts      \* bound: attempts are counted up to it

CtxErrors == {"canceled", "deadline"}
Errors == TransientErrors \cup OtherErrors \cup CtxErrors
Redirects == {301, 302, 303, 307, 308}

ASSUME RetryAssumption ==
    /\ Statuses \subseteq 100..599
    /\ NoError \notin Errors \cup {BadHeader}
    /\ BadHeader \notin Errors
    /\ TransientErrors \cap (OtherErrors \cup CtxErrors) = {}
    /\ OtherErrors \cap CtxErrors = {}
    /\ NoResponse \notin [status : Statuses, open : BOOLEAN]
    /\ MaxAttempts \in Nat \ {0}

VARIABLES pc,        \* where sendAndRetry is
          config,    \* ShouldRetry of the RetryConfig: "default" or "custom"
          header,    \* the request has an Accept-Encoding header
          reqBody,   \* the request's body: "absent", "buffered", "unbuffered"
          unread,    \* that body has not been sent yet
          ctx,       \* "nil", "live", "canceled" or "deadline"
          attempts,  \* attempts
          resp, err, \* what client.Do returned last
          ret,       \* what is returned
          leaked,    \* ghost: a response was dropped with its body open
          doneIn,    \* ghost: where sendAndRetry was when the context was done
          unmade     \* ghost: GetBody has failed

request == <<config, header, reqBody>>
ghosts == <<leaked, doneIn, unmade>>
vars == <<pc, request, unread, ctx, attempts, resp, err, ret, ghosts>>

Done == ctx \in CtxErrors

Init ==
    /\ pc = "start"
    /\ config \in {"default", "custom"}
    /\ header \in BOOLEAN
    /\ reqBody \in {"absent", "buffered", "unbuffered"}
    /\ unread = TRUE
    /\ ctx \in {"nil", "live"}
    /\ attempts = 1
    /\ resp = NoResponse
    /\ err = NoError
    /\ ret = [resp |-> NoResponse, errors |-> {}]
    /\ leaked = FALSE
    /\ doneIn = "never"
    /\ unmade = FALSE

Goto(p) == pc' = p

Return(errors) ==
    /\ Goto("returned")
    /\ ret' = [resp |-> resp, errors |-> errors]
    /\ UNCHANGED <<request, unread, ctx, resp, err, leaked, doneIn>>

(***************************************************************************)
(* Which outcomes are tried again.                                         *)
(***************************************************************************)
(* url.Error passes on Temporary of what it wraps, and the error of an     *)
(* expired context says that it is temporary; that of a cancelled one does *)
(* not.                                                                    *)
RetryableError(e) == e \in TransientErrors \cup {"deadline"}

(* Mutant: the range of server errors starts one too late.                 *)
ShouldRetryAbove500(status, e) ==
    status \in 501..599 \cup {429, 408} \/ RetryableError(e)

ShouldRetry(status, e) ==
    status \in 500..599 \cup {429, 408} \/ RetryableError(e)

(* The ShouldRetry of a RetryConfig is asked about nil after a success.    *)
ErrorFunc(status, e) ==
    IF config = "default" THEN ShouldRetry(status, e)
    ELSE IF status >= 400 THEN status \in CustomStatuses
    ELSE e \in CustomErrors

Status == IF resp = NoResponse THEN 0 ELSE resp.status

(* http.NewRequest sets GetBody for a body it can copy, not for none.      *)
HasGetBody == reqBody = "buffered"

WantsRetry == HasGetBody /\ ErrorFunc(Status, err)

(***************************************************************************)
(* SendRequestWithRetry.                                                   *)
(***************************************************************************)
RejectHeader ==
    /\ pc = "start"
    /\ header
    /\ Return({BadHeader})
    /\ UNCHANGED <<attempts, unmade>>

Start ==
    /\ pc = "start"
    /\ ~header
    /\ Goto(IF ctx = "nil" THEN "check" ELSE "wait")
    /\ UNCHANGED <<request, unread, ctx, attempts, resp, err, ret, ghosts>>

(***************************************************************************)
(* The loop of sendAndRetry.                                               *)
(***************************************************************************)
(* Mutant: the context's error is joined with the attempt's even if that   *)
(* is nil.                                                                 *)
ReturnDoneWrapping == Return({ctx, err}) /\ UNCHANGED <<attempts, unmade>>

(* Both errors are acknowledged, the context's and the last attempt's.     *)
ReturnDone == Return({ctx} \cup ({err} \ {NoError})) /\ UNCHANGED <<attempts, unmade>>

WaitDone ==
    /\ pc = "wait"
    /\ Done
    /\ ReturnDone

TimerFires ==
    /\ pc = "wait"
    /\ Goto("check")
    /\ UNCHANGED <<request, unread, ctx, attempts, resp, err, ret, ghosts>>

CheckDone ==
    /\ pc = "check"
    /\ Done
    /\ ReturnDone

(* Mutant: the context is not checked once more after the timer.           *)
DoUnchecked ==
    /\ pc = "check"
    /\ Goto("flight")
    /\ unread' = FALSE
    /\ leaked' = (leaked \/ (resp # NoResponse /\ resp.open))
    /\ UNCHANGED <<request, ctx, attempts, resp, err, ret, doneIn, unmade>>

Do ==
    /\ pc = "check"
    /\ ~Done
    /\ Goto("flight")
    /\ unread' = FALSE
    /\ leaked' = (leaked \/ (resp # NoResponse /\ resp.open))
    /\ UNCHANGED <<request, ctx, attempts, resp, err, ret, doneIn, unmade>>

Answer ==
    /\ pc = "flight"
    /\ \E s \in Statuses : resp' = [status |-> s, open |-> TRUE]
    /\ err' = NoError
    /\ Goto("judge")
    /\ UNCHANGED <<request, unread, ctx, attempts, ret, ghosts>>

Fail ==
    /\ pc = "flight"
    /\ resp' = NoResponse
    /\ err' \in TransientErrors \cup OtherErrors
    /\ Goto("judge")
    /\ UNCHANGED <<request, unread, ctx, attempts, ret, ghosts>>

(* CheckRedirect refuses to follow a redirect, after ten at the latest:    *)
(* client.Do returns the response it was sent, its body closed, and the    *)
(* error.                                                                  *)
RefuseRedirect ==
    /\ pc = "flight"
    /\ \E s \in Statuses \cap Redirects : resp' = [status |-> s, open |-> FALSE]
    /\ err' \in TransientErrors \cup OtherErrors
    /\ Goto("judge")
    /\ UNCHANGED <<request, unread, ctx, attempts, ret, ghosts>>

(* The transport gives up a request whose context is done.                 *)
Abort ==
    /\ pc = "flight"
    /\ Done
    /\ resp' = NoResponse
    /\ err' = ctx
    /\ Goto("judge")
    /\ UNCHANGED <<request, unread, ctx, attempts, ret, ghosts>>

Result == {err} \ {NoError}

GiveUp ==
    /\ pc = "judge"
    /\ ctx = "nil" \/ ~WantsRetry
    /\ Return(Result)
    /\ UNCHANGED <<attempts, unmade>>

Count == attempts' = IF attempts < MaxAttempts THEN attempts + 1 ELSE attempts

GetBodyFails ==
    /\ pc = "judge"
    /\ ctx # "nil" /\ WantsRetry
    /\ Count
    /\ unmade' = TRUE
    /\ Return(Result)

(* Mutants: the response stays open; the body is not made again.           *)
RetryLeaving ==
    /\ pc = "judge"
    /\ ctx # "nil" /\ WantsRetry
    /\ Count
    /\ unread' = TRUE
    /\ Goto("wait")
    /\ UNCHANGED <<request, ctx, resp, err, ret, ghosts>>

RetrySameBody ==
    /\ pc = "judge"
    /\ ctx # "nil" /\ WantsRetry
    /\ Count
    /\ resp' = IF resp = NoResponse THEN resp ELSE [resp EXCEPT !.open = FALSE]
    /\ Goto("wait")
    /\ UNCHANGED <<request, unread, ctx, err, ret, ghosts>>

Retry ==
    /\ pc = "judge"
    /\ ctx # "nil" /\ WantsRetry
    /\ Count
    /\ unread' = TRUE
    /\ resp' = IF resp = NoResponse THEN resp ELSE [resp EXCEPT !.open = FALSE]
    /\ Goto("wait")
    /\ UNCHANGED <<request, ctx, err, ret, ghosts>>

(***************************************************************************)
(* The context.                                                            *)
(***************************************************************************)
End ==
    /\ ctx = "live"
    /\ ctx' \in CtxErrors
    /\ doneIn' = pc
    /\ UNCHANGED <<pc, request, unread, attempts, resp, err, ret, leaked, unmade>>

Returned == pc = "returned" /\ UNCHANGED vars

(***************************************************************************)
(* The specification.                                                      *)
(***************************************************************************)
OwnStep ==
    \/ RejectHeader \/ Start \/ WaitDone \/ TimerFires \/ CheckDone \/ Do
    \/ GiveUp \/ GetBodyFails \/ Retry

Next == OwnStep \/ Answer \/ Fail \/ RefuseRedirect \/ Abort \/ End \/ Returned

Spec == Init /\ [][Next]_vars

(* The goroutine runs, timers fire, and the transport notices that a       *)
(* context is done; the server need not answer.                            *)
LiveSpec == Spec /\ WF_vars(OwnStep) /\ WF_vars(Abort)
-----------------------------------------------------------------------------
(***************************************************************************)
(* Properties.                                                             *)
(***************************************************************************)
(* Every variable has its type, and client.Do leaves a response to be read *)
(* or an error.                                                            *)
TypeOK ==
    /\ pc \in {"start", "wait", "check", "flight", "judge", "returned"}
    /\ config \in {"default", "custom"}
    /\ header \in BOOLEAN
    /\ reqBody \in {"absent", "buffered", "unbuffered"}
    /\ unread \in BOOLEAN
    /\ ctx \in {"nil", "live"} \cup CtxErrors
    /\ attempts \in 1..MaxAttempts
    /\ resp \in [status : Statuses, open : BOOLEAN] \cup {NoResponse}
    /\ err \in Errors \cup {NoError}
    /\ ret \in [resp : [status : Statuses, open : BOOLEAN] \cup {NoResponse},
                errors : SUBSET (Errors \cup {BadHeader})]
    /\ leaked \in BOOLEAN
    /\ doneIn \in {"never", "start", "wait", "check", "flight", "judge", "returned"}
    /\ unmade \in BOOLEAN
    /\ pc = "judge" => (err = NoError <=> resp # NoResponse /\ resp.open)

(* Each attempt sends a whole request: its body has not been read by the   *)
(* attempt before.                                                         *)
EachAttemptWhole == pc \in {"wait", "check"} => unread

(* Of all responses only the last one is kept open, and it is the caller's *)
(* to close: a response returned without an error can be read, and no      *)
(* other is left open, whichever way the loop ends.                        *)
ResponsesClosed ==
    /\ ~leaked
    /\ pc \in {"wait", "check"} /\ resp # NoResponse => ~resp.open
    /\ pc = "returned" /\ ret.errors = {} =>
          ret.resp # NoResponse /\ ret.resp.open

(* A context that is done while the loop waits stops it: no operation goes *)
(* through afterwards, whichever branch select takes, and the error that   *)
(* is returned acknowledges both the context and the last attempt's error. *)
DoneStopsRetries ==
    doneIn = "wait" =>
        /\ pc \in {"wait", "check", "returned"}
        /\ pc = "returned" => ret.errors = {ctx} \cup ({err} \ {NoError})

(* Without a ShouldRetry of its own, however many attempts it took, the    *)
(* call comes back with a server error, 408, 429 or a transient error only *)
(* where it has to: with no context to bound the retries, with a body that *)
(* cannot be made again, or with its context done.                         *)
Transient ==
    \/ err \in TransientErrors
    \/ resp # NoResponse /\ (resp.status \div 100 = 5 \/ resp.status \in {408, 429})

TransientTriedAgain ==
    pc = "returned" /\ Transient /\ config = "default" =>
        Done \/ ctx = "nil" \/ ~HasGetBody \/ unmade

(* Once the context is done, the call returns, though the server may not   *)
(* answer and every outcome may be retryable.                              *)
DoneEndsCall == Done ~> pc = "returned"
=============================================================================
