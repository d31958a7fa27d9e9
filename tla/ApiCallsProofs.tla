--------------------------- MODULE ApiCallsProofs ---------------------------
(***************************************************************************)
(* Proofs, for any number of goroutines, projects, registries and devices  *)
(* and any choice of the calls, of what Do leaves behind (types, closed    *)
(* bodies), of what becomes of a cancelled call, and of what is sent: a    *)
(* request that means one call on one resource, save the project where no  *)
(* name is sent.                                                           *)
(*                                                                         *)
(* Inv says how far a call has got with its request, reply and body in     *)
(* each phase, and that the store returns some outcome.  Fits says that    *)
(* the store keeps each registry's credentials apart and that a call's     *)
(* request carries the credentials it goes with.  What tells two calls     *)
(* apart is then read off the table.  HistoryInv relates the moment of the *)
(* cancellation to the phase the call has reached since.                   *)
(***************************************************************************)
EXTENDS ApiCallsHistory, TLAPS

SetupTyped ==
    /\ setup \in {"none", "applying", "ready", "failed"}
    /\ todo \in Seq(Option)
    /\ serviceAccount \in {Nil, ServiceAccount, Blank}
    /\ setup = "ready" => serviceAccount # Nil

StoreTyped ==
    /\ stored \in [Target -> Credentials \cup {Nil}]
    /\ epoch \in [Target -> 0 .. MaxEpoch]
    /\ status \in [Goroutines -> {"idle", "pending", "returned"}]
    /\ asked \in [Goroutines -> Target]
    /\ since \in [Goroutines -> 0 .. MaxEpoch]
    /\ outcome \in [Goroutines -> Credentials \cup {Nil, Failed}]
    /\ \A g \in Goroutines : status[g] = "returned" => outcome[g] # Nil

CallsTyped ==
    /\ phase \in [Goroutines -> {"idle", "building", "credentials", "ready",
                                 "sent", "failed", "erred", "answered", "returned"}]
    /\ job \in [Goroutines -> [id : Calls, name : Names,
                               setter : Setters \cup {NoSetter}]]
    /\ ctx \in [Goroutines -> {"none", "live", "cancelled"}]
    /\ DOMAIN wire = Goroutines
    /\ reply \in [Goroutines -> Replies \cup {NoReply}]
    /\ body \in [Goroutines -> {"none", "open", "closed"}]
    /\ out \in [Goroutines -> {"none", "value", "nothing", "rejected", "sendError",
                               "contextError", "decodeError", "notModified", "httpError"}]

(* How far g's call has got.                                               *)
Progress(g) ==
    /\ phase[g] # "idle" => setup = "ready"
    /\ phase[g] = "ready" => Kind(g).account = "service" \/ outcome[g] # Nil
    /\ phase[g] \in {"idle", "building", "credentials", "ready", "returned"} =>
          wire[g] = NoRequest
    /\ phase[g] # "answered" => reply[g] = NoReply
    /\ phase[g] \notin {"answered", "returned"} => body[g] = "none"
    /\ phase[g] = "answered" => reply[g] \in Replies
    /\ phase[g] \notin {"erred", "returned"} => out[g] = "none"
    /\ phase[g] = "returned" => body[g] # "open"

Inv ==
    /\ SetupTyped
    /\ StoreTyped
    /\ CallsTyped
    /\ \A g \in Goroutines : Progress(g)
-----------------------------------------------------------------------------
(***************************************************************************)
(* The Service and the store.                                              *)
(***************************************************************************)
LEMMA SetUpStep ==
    ASSUME Inv, SetUp
    PROVE  SetupTyped' /\ setup # "ready"
<1>1. /\ setup \in {"none", "applying", "ready", "failed"} /\ todo \in Seq(Option)
      /\ serviceAccount \in {Nil, ServiceAccount, Blank}
  BY DEF Inv, SetupTyped
<1>2. Nil # ServiceAccount /\ Nil # Blank
  BY CredentialsAssumption DEF Credentials, Issued
<1>3. \A text \in Texts : Decode(text) \in {ServiceAccount, Blank}
  BY DEF Decode
<1>4. todo # <<>> => Tail(todo) \in Seq(Option) /\ Head(todo) \in Option
  BY <1>1
<1>5. CASE NewService
  <2>1. PICK n \in 0 .. MaxOptions : todo' \in [1 .. n -> Option]
    BY <1>5 DEF NewService
  <2>2. todo' \in Seq(Option)
    BY <2>1
  <2> QED
    BY <1>5, <2>2 DEF NewService, SetupTyped
<1>6. CASE WithServiceAccountCredentials
  BY <1>1, <1>2, <1>3, <1>4, <1>6
     DEF WithServiceAccountCredentials, Applying, Fail, SetupTyped, Texts, Decodable
<1>7. CASE WithHTTPClient
  BY <1>1, <1>4, <1>7 DEF WithHTTPClient, Applying, Fail, SetupTyped
<1>8. ASSUME loadServiceAccountCredentials, setup = "applying"
      PROVE  /\ setup' \in {"applying", "failed"}
             /\ serviceAccount' \in {Nil, ServiceAccount, Blank}
  BY <1>3, <1>8 DEF loadServiceAccountCredentials, Fail, Texts
<1>9. CASE WithFileCredentials
  BY <1>1, <1>4, <1>8, <1>9 DEF WithFileCredentials, Applying, SetupTyped
<1>10. CASE LoadByDefault
  BY <1>1, <1>8, <1>10 DEF LoadByDefault, SetupTyped
<1>11. CASE ReturnService
  BY <1>1, <1>11 DEF ReturnService, SetupTyped
<1> QED
  BY <1>5, <1>6, <1>7, <1>9, <1>10, <1>11 DEF SetUp

(* A step of the store for g.                                              *)
LEMMA StoreStep ==
    ASSUME StoreTyped, NEW g \in Goroutines,
           \/ \E t \in Target : Store!Invoke(g, t)
           \/ Store!Hit(g) \/ Store!Refresh(g) \/ Store!RefreshBlank(g) \/ Store!Fail(g)
    PROVE  /\ StoreTyped'
           /\ \A h \in Goroutines : h # g => outcome'[h] = outcome[h]
<1>1. Blank \in Credentials /\ Nil \notin Credentials /\ Nil # Failed
  BY CredentialsAssumption DEF Credentials, Issued
<1>2. ASSUME NEW t \in Target, Store!Invoke(g, t)
      PROVE  StoreTyped' /\ \A h \in Goroutines : h # g => outcome'[h] = outcome[h]
  <2>1. epoch[t] \in 0 .. MaxEpoch
    BY <1>2 DEF StoreTyped
  <2> QED
    BY <1>2, <2>1 DEF StoreTyped, Store!Invoke
<1>3. ASSUME NEW c \in Credentials \cup {Failed}, Store!Return(g, c),
             stored' \in [Target -> Credentials \cup {Nil}]
      PROVE  StoreTyped' /\ \A h \in Goroutines : h # g => outcome'[h] = outcome[h]
  BY <1>1, <1>3 DEF StoreTyped, Store!Return
<1>4. CASE Store!Hit(g)
  <2>1. /\ stored[asked[g]] \in Credentials /\ Store!Return(g, stored[asked[g]])
        /\ stored' = stored
    BY <1>4 DEF Store!Hit, Itself, StoreTyped
  <2> QED
    BY <1>3, <2>1 DEF StoreTyped
<1>5. CASE Store!Refresh(g)
  <2>1. /\ asked[g] \in Target /\ since[g] \in Nat /\ epoch[asked[g]] \in 0 .. MaxEpoch
        /\ MaxEpoch \in Nat
    BY CredentialsAssumption DEF StoreTyped
  <2>2. PICK e \in since[g] .. epoch[asked[g]] :
            /\ stored' = [stored EXCEPT ![asked[g]] = [target |-> asked[g], epoch |-> e]]
            /\ Store!Return(g, [target |-> asked[g], epoch |-> e])
    BY <1>5 DEF Store!Refresh, Itself
  <2>3. e \in 0 .. MaxEpoch
    BY <2>1
  <2>4. [target |-> asked[g], epoch |-> e] \in Credentials
    BY <2>1, <2>3 DEF Credentials, Issued
  <2>5. stored' \in [Target -> Credentials \cup {Nil}]
    BY <2>2, <2>4 DEF StoreTyped
  <2> QED
    BY <1>3, <2>2, <2>4, <2>5
<1>6. CASE Store!RefreshBlank(g)
  <2>1. stored' \in [Target -> Credentials \cup {Nil}] /\ Store!Return(g, Blank)
    BY <1>1, <1>6 DEF Store!RefreshBlank, Itself, StoreTyped
  <2> QED
    BY <1>1, <1>3, <2>1
<1>7. CASE Store!Fail(g)
  BY <1>3, <1>7 DEF Store!Fail, StoreTyped
<1> QED
  BY <1>2, <1>4, <1>5, <1>6, <1>7

LEMMA StoreQuiet ==
    ASSUME StoreTyped, UNCHANGED storeVars
    PROVE  StoreTyped' /\ outcome' = outcome
  BY DEF StoreTyped, storeVars
-----------------------------------------------------------------------------
(***************************************************************************)
(* The calls.                                                              *)
(***************************************************************************)
(* A call that takes no step stays where it is.                            *)
LEMMA ProgressKept ==
    ASSUME NEW h \in Goroutines, Progress(h), setup' = setup,
           phase'[h] = phase[h], job'[h] = job[h], ctx'[h] = ctx[h], wire'[h] = wire[h],
           reply'[h] = reply[h], body'[h] = body[h], out'[h] = out[h], outcome'[h] = outcome[h]
    PROVE  Progress(h)'
  BY DEF Progress, Kind

(* What a step of g's call has to show.                                    *)
LEMMA OneCall ==
    ASSUME Inv, NEW g \in Goroutines, UNCHANGED setupVars, StoreTyped', CallsTyped',
           \A h \in Goroutines : h # g =>
              /\ phase'[h] = phase[h] /\ job'[h] = job[h] /\ ctx'[h] = ctx[h]
              /\ wire'[h] = wire[h] /\ reply'[h] = reply[h] /\ body'[h] = body[h]
              /\ out'[h] = out[h] /\ outcome'[h] = outcome[h],
           Progress(g)'
    PROVE  Inv'
<1>1. setup' = setup /\ SetupTyped'
  BY DEF Inv, SetupTyped, setupVars
<1>2. ASSUME NEW h \in Goroutines, h # g PROVE Progress(h)'
  BY <1>1, <1>2, ProgressKept DEF Inv
<1> QED
  BY <1>1, <1>2 DEF Inv

(* The caller begins a call, or cancels its context.                       *)
LEMMA CallerStep ==
    ASSUME Inv, NEW g \in Goroutines,
           \/ Cancel(g)
           \/ \E id \in Calls, n \in Names, x \in {"none", "live"} :
                 \E setter \in SettersOf(id) : Begin(g, id, n, setter, x)
    PROVE  Inv'
<1>1. StoreTyped /\ CallsTyped /\ Progress(g) /\ NoReply \notin Replies
  BY DEF Inv, NoReply, Replies
<1>2. CASE Cancel(g)
  <2>1. UNCHANGED <<storeVars, setupVars, phase, job, wire, reply, body, out>>
        /\ ctx' = [ctx EXCEPT ![g] = "cancelled"]
    BY <1>2 DEF Cancel
  <2>2. StoreTyped' /\ outcome' = outcome
    BY <1>1, <2>1, StoreQuiet
  <2>3. CallsTyped'
    BY <1>1, <2>1 DEF CallsTyped
  <2>4. Progress(g)'
    BY <1>1, <2>1, <2>2 DEF Progress, Kind, setupVars
  <2> QED
    BY <1>1, <2>1, <2>2, <2>3, <2>4, OneCall DEF CallsTyped
<1>3. ASSUME NEW id \in Calls, NEW n \in Names, NEW x \in {"none", "live"},
             NEW setter \in SettersOf(id), Begin(g, id, n, setter, x)
      PROVE  Inv'
  <2>1. setter \in Setters \cup {NoSetter}
    BY DEF SettersOf
  <2>2. StoreTyped' /\ outcome' = outcome
    BY <1>1, <1>3, StoreQuiet DEF Begin
  <2>3. CallsTyped'
    BY <1>1, <1>3, <2>1 DEF Begin, Goto, CallsTyped
  <2>4. Progress(g)'
    BY <1>1, <1>3 DEF Begin, Resting, Goto, Progress, CallsTyped, setupVars
  <2> QED
    BY <1>1, <1>3, <2>2, <2>3, <2>4, OneCall DEF Begin, Goto, CallsTyped
<1> QED
  BY <1>2, <1>3

(* doRequest, up to the request.                                           *)
LEMMA DoRequestStep ==
    ASSUME Inv, NEW g \in Goroutines,
           \/ NotImplemented(g) \/ Reject(g) \/ UseServiceAccount(g) \/ AskCredentials(g)
           \/ GetCredentials(g) \/ NoCredentials(g) \/ TakeCredentials(g)
    PROVE  Inv'
<1>1. StoreTyped /\ CallsTyped /\ Progress(g) /\ NoReply \notin Replies
  BY DEF Inv, NoReply, Replies
<1>2. CASE NotImplemented(g) \/ Reject(g) \/ NoCredentials(g)
  <2>1. /\ UNCHANGED <<storeVars, setupVars, job, ctx, body>>
        /\ phase[g] \in {"building", "credentials"}
        /\ phase' = [phase EXCEPT ![g] = "returned"] /\ out' = [out EXCEPT ![g] = "rejected"]
        /\ wire' = [wire EXCEPT ![g] = NoRequest] /\ reply' = [reply EXCEPT ![g] = NoReply]
    BY <1>2 DEF NotImplemented, Reject, NoCredentials, Return, Goto
  <2>2. StoreTyped' /\ outcome' = outcome
    BY <1>1, <2>1, StoreQuiet
  <2>3. CallsTyped'
    BY <1>1, <2>1 DEF CallsTyped
  <2>4. Progress(g)'
    BY <1>1, <2>1 DEF Progress, CallsTyped, setupVars
  <2> QED
    BY <1>1, <2>1, <2>2, <2>3, <2>4, OneCall DEF CallsTyped
<1>3. CASE UseServiceAccount(g) \/ TakeCredentials(g)
  <2>1. /\ UNCHANGED <<storeVars, setupVars, job, ctx, wire, reply, body, out>>
        /\ phase[g] \in {"building", "credentials"}
        /\ phase' = [phase EXCEPT ![g] = "ready"]
        /\ Kind(g).account = "service" \/ status[g] = "returned"
    BY <1>3 DEF UseServiceAccount, TakeCredentials, Goto
  <2>2. StoreTyped' /\ outcome' = outcome
    BY <1>1, <2>1, StoreQuiet
  <2>3. CallsTyped'
    BY <1>1, <2>1 DEF CallsTyped
  <2>4. Kind(g)' = Kind(g)
    BY <2>1 DEF Kind
  <2>5. Progress(g)'
    BY <1>1, <2>1, <2>2, <2>4 DEF Progress, CallsTyped, StoreTyped, setupVars
  <2> QED
    BY <1>1, <2>1, <2>2, <2>3, <2>5, OneCall DEF CallsTyped
<1>4. CASE AskCredentials(g) \/ GetCredentials(g)
  <2>1. /\ UNCHANGED <<setupVars, job, ctx, wire, reply, body, out>>
        /\ phase[g] \in {"building", "credentials"}
        /\ phase' = [phase EXCEPT ![g] = "credentials"]
    BY <1>1, <1>4 DEF AskCredentials, GetCredentials, Goto, CallsTyped
  <2>2. \/ \E t \in Target : Store!Invoke(g, t)
        \/ Store!Hit(g) \/ Store!Refresh(g) \/ Store!RefreshBlank(g) \/ Store!Fail(g)
    <3>1. CASE AskCredentials(g)
      <4>1. job[g].name \in Names
        BY <1>1 DEF CallsTyped
      <4>2. TargetOf(job[g].name) \in Target
        BY <4>1 DEF TargetOf, Target, Names
      <4> QED
        BY <3>1, <4>2 DEF AskCredentials
    <3>2. CASE GetCredentials(g)
      BY <3>2 DEF GetCredentials
    <3> QED
      BY <1>4, <3>1, <3>2
  <2>3. StoreTyped' /\ \A h \in Goroutines : h # g => outcome'[h] = outcome[h]
    BY <1>1, <2>2, StoreStep
  <2>4. CallsTyped'
    BY <1>1, <2>1 DEF CallsTyped
  <2>5. Progress(g)'
    BY <1>1, <2>1 DEF Progress, CallsTyped, setupVars
  <2> QED
    BY <1>1, <2>1, <2>3, <2>4, <2>5, OneCall DEF CallsTyped
<1> QED
  BY <1>2, <1>3, <1>4

(* SendRequest and the connection.                                         *)
LEMMA SendStep ==
    ASSUME Inv, NEW g \in Goroutines,
           \/ Send(g) \/ SendNothing(g) \/ Answer(g) \/ LoseConnection(g)
           \/ ReportError(g) \/ ReturnError(g)
    PROVE  Inv'
<1>1. StoreTyped /\ CallsTyped /\ Progress(g) /\ NoReply \notin Replies
  BY DEF Inv, NoReply, Replies
<1>2. UNCHANGED <<storeVars, setupVars, job, ctx>>
  BY DEF Send, SendNothing, Answer, LoseConnection, ReportError, Report, ReturnError, Return
<1>3. StoreTyped' /\ outcome' = outcome
  BY <1>1, <1>2, StoreQuiet
<1>4. CASE Send(g)
  <2>1. CallsTyped'
    BY <1>1, <1>4 DEF Send, Goto, CallsTyped
  <2>2. Progress(g)'
    BY <1>1, <1>4 DEF Send, Goto, Progress, CallsTyped, setupVars
  <2> QED
    BY <1>1, <1>2, <1>3, <1>4, <2>1, <2>2, OneCall DEF Send, Goto, CallsTyped
<1>5. CASE SendNothing(g) \/ LoseConnection(g)
  <2>1. /\ phase[g] \in {"ready", "sent"} /\ phase' = [phase EXCEPT ![g] = "failed"]
        /\ UNCHANGED <<wire, reply, body, out>>
    BY <1>5 DEF SendNothing, LoseConnection, Goto
  <2>2. CallsTyped'
    BY <1>1, <1>2, <2>1 DEF CallsTyped
  <2>3. Progress(g)'
    BY <1>1, <1>2, <2>1 DEF Progress, CallsTyped, setupVars
  <2> QED
    BY <1>1, <1>2, <1>3, <2>1, <2>2, <2>3, OneCall DEF CallsTyped
<1>6. CASE Answer(g)
  <2>1. PICK r \in Replies : reply' = [reply EXCEPT ![g] = r]
    BY <1>6 DEF Answer
  <2>2. CallsTyped'
    BY <1>1, <1>6, <2>1 DEF Answer, Goto, CallsTyped
  <2>3. Progress(g)'
    BY <1>1, <1>6, <2>1 DEF Answer, Goto, Progress, CallsTyped, setupVars
  <2> QED
    BY <1>1, <1>2, <1>3, <1>6, <2>1, <2>2, <2>3, OneCall DEF Answer, Goto, CallsTyped
<1>7. CASE ReportError(g)
  <2>1. PICK error \in {"contextError", "sendError"} : Report(g, error)
    BY <1>7 DEF ReportError
  <2>2. CallsTyped'
    BY <1>1, <2>1 DEF Report, Goto, CallsTyped
  <2>3. Progress(g)'
    BY <1>1, <2>1 DEF Report, Goto, Progress, CallsTyped, setupVars
  <2> QED
    BY <1>1, <1>2, <1>3, <2>1, <2>2, <2>3, OneCall DEF Report, Goto, CallsTyped
<1>8. CASE ReturnError(g)
  <2>1. CallsTyped'
    BY <1>1, <1>8 DEF ReturnError, Return, Goto, CallsTyped
  <2>2. Progress(g)'
    BY <1>1, <1>8 DEF ReturnError, Return, Goto, Progress, CallsTyped, setupVars
  <2> QED
    BY <1>1, <1>2, <1>3, <1>8, <2>1, <2>2, OneCall DEF ReturnError, Return, Goto, CallsTyped
<1> QED
  BY <1>4, <1>5, <1>6, <1>7, <1>8

(* The rest of Do.                                                         *)
LEMMA ResponseStep ==
    ASSUME Inv, NEW g \in Goroutines,
           NotModified(g) \/ HttpError(g) \/ ReturnEmpty(g) \/ DecodeResponse(g)
    PROVE  Inv'
<1>1. StoreTyped /\ CallsTyped /\ Progress(g) /\ NoReply \notin Replies
  BY DEF Inv, NoReply, Replies
<1>2. /\ phase[g] = "answered" /\ body' = [body EXCEPT ![g] = "closed"]
      /\ UNCHANGED <<storeVars, setupVars, job, ctx>>
      /\ phase' = [phase EXCEPT ![g] = "returned"]
      /\ wire' = [wire EXCEPT ![g] = NoRequest] /\ reply' = [reply EXCEPT ![g] = NoReply]
  BY DEF NotModified, HttpError, ReturnEmpty, DecodeResponse, CloseBody, Return, Goto
<1>3. \E o \in {"value", "nothing", "decodeError", "notModified", "httpError"} :
          out' = [out EXCEPT ![g] = o]
  <2>1. CASE NotModified(g) \/ HttpError(g) \/ ReturnEmpty(g)
    BY <2>1 DEF NotModified, HttpError, ReturnEmpty, Return
  <2>2. CASE DecodeResponse(g)
    <3>1. reply[g] \in Replies /\ reply[g].status = "ok"
      BY <1>1, <2>2 DEF DecodeResponse, Progress
    <3>2. reply[g].content \in {"json", "null", "broken"}
      BY <3>1 DEF Replies
    <3>3. [json |-> "value", null |-> "nothing", broken |-> "decodeError"][reply[g].content]
            \in {"value", "nothing", "decodeError"}
      BY <3>2
    <3> QED
      BY <2>2, <3>3 DEF DecodeResponse, Return
  <2> QED
    BY <2>1, <2>2
<1>4. StoreTyped' /\ outcome' = outcome
  BY <1>1, <1>2, StoreQuiet
<1>5. CallsTyped'
  BY <1>1, <1>2, <1>3 DEF CallsTyped
<1>6. Progress(g)'
  BY <1>1, <1>2 DEF Progress, CallsTyped, setupVars
<1> QED
  BY <1>1, <1>2, <1>3, <1>4, <1>5, <1>6, OneCall DEF CallsTyped
-----------------------------------------------------------------------------
(***************************************************************************)
(* What goes over the wire.                                                *)
(***************************************************************************)
(* Where a credential is stored or returned, it is of that registry.       *)
StoreFits ==
    /\ \A t \in Target : stored[t] \in Issued => stored[t].target = t
    /\ \A g \in Goroutines : outcome[g] \in Issued => outcome[g].target = asked[g]

(* The call k on the name n, which is built, goes with the account a.      *)
GoesWith(k, n, a) ==
    /\ k.built
    /\ \/ k.account = "service" /\ a = ServiceAccount
       \/ k.account = "registry" /\ a \in Issued /\ a.target = TargetOf(n)

(* The credentials that g asks for are those its job needs.                *)
JobFits(g) ==
    /\ phase[g] = "credentials" =>
          /\ Kind(g).built /\ Kind(g).account = "registry"
          /\ asked[g] = TargetOf(job[g].name)
    /\ phase[g] = "ready" =>
          Account(g) = Blank \/ GoesWith(Kind(g), job[g].name, Account(g))
    /\ phase[g] = "sent" =>
          \E a : /\ a = Blank \/ GoesWith(Kind(g), job[g].name, a)
                 /\ wire[g] = Request(Kind(g), job[g].name, job[g].setter, a)

Fits == StoreFits /\ \A g \in Goroutines : JobFits(g)

(* A call that takes no step keeps what it has asked for.                  *)
LEMMA JobKept ==
    ASSUME NEW h \in Goroutines, JobFits(h), phase'[h] = phase[h], job'[h] = job[h],
           wire'[h] = wire[h],
           asked'[h] = asked[h], outcome'[h] = outcome[h],
           phase[h] = "ready" => serviceAccount' = serviceAccount
    PROVE  JobFits(h)'
<1>1. Kind(h)' = Kind(h)
  BY DEF Kind
<1>2. phase[h] = "ready" => Account(h)' = Account(h)
  BY <1>1 DEF Account
<1>3. \A k, n, a : GoesWith(k, n, a)' = GoesWith(k, n, a)
  BY DEF GoesWith
<1>4. \A k, n, x, a : Request(k, n, x, a)' = Request(k, n, x, a)
  BY DEF Request
<1> QED
  BY <1>1, <1>2, <1>3, <1>4 DEF JobFits

LEMMA StoreKept ==
    ASSUME StoreFits, UNCHANGED storeVars
    PROVE  StoreFits' /\ asked' = asked /\ outcome' = outcome
  BY DEF StoreFits, storeVars

(* A step of g that leaves the store and the Service alone.                *)
LEMMA OneJob ==
    ASSUME Inv, Fits, NEW g \in Goroutines, UNCHANGED <<storeVars, setupVars>>,
           \A h \in Goroutines : h # g =>
              phase'[h] = phase[h] /\ job'[h] = job[h] /\ wire'[h] = wire[h],
           JobFits(g)'
    PROVE  Fits'
<1>1. StoreFits' /\ asked' = asked /\ outcome' = outcome /\ serviceAccount' = serviceAccount
  BY StoreKept DEF Fits, setupVars
<1>2. ASSUME NEW h \in Goroutines, h # g PROVE JobFits(h)'
  BY <1>1, <1>2, JobKept DEF Fits
<1> QED
  BY <1>1, <1>2 DEF Fits

(* The store stays in order, whoever uses it.                              *)
LEMMA StoreFitsStep ==
    ASSUME Inv, StoreFits, NEW g \in Goroutines,
           \/ \E t \in Target : Store!Invoke(g, t)
           \/ Store!Hit(g) \/ Store!Refresh(g) \/ Store!RefreshBlank(g) \/ Store!Fail(g)
    PROVE  /\ StoreFits'
           /\ \A h \in Goroutines : h # g => outcome'[h] = outcome[h] /\ asked'[h] = asked[h]
<1>1. StoreTyped /\ Nil \notin Issued /\ Blank \notin Issued /\ Failed \notin Issued
  BY CredentialsAssumption DEF Inv, Credentials
<1>2. ASSUME NEW t \in Target, Store!Invoke(g, t)
      PROVE  /\ StoreFits'
             /\ \A h \in Goroutines : h # g => outcome'[h] = outcome[h] /\ asked'[h] = asked[h]
  BY <1>1, <1>2 DEF Store!Invoke, StoreFits, StoreTyped
<1>3. ASSUME NEW c, Store!Return(g, c), c \in Issued => c.target = asked[g],
             \A t \in Target : stored'[t] \in Issued => stored'[t].target = t
      PROVE  /\ StoreFits'
             /\ \A h \in Goroutines : h # g => outcome'[h] = outcome[h] /\ asked'[h] = asked[h]
  BY <1>1, <1>3 DEF Store!Return, StoreFits, StoreTyped
<1>4. CASE Store!Hit(g)
  <2>1. /\ Store!Return(g, stored[asked[g]]) /\ stored' = stored /\ asked[g] \in Target
    BY <1>1, <1>4 DEF Store!Hit, Itself, StoreTyped
  <2> QED
    BY <1>3, <2>1 DEF StoreFits
<1>5. CASE Store!Refresh(g)
  <2>1. PICK e \in since[g] .. epoch[asked[g]] :
            /\ stored' = [stored EXCEPT ![asked[g]] = [target |-> asked[g], epoch |-> e]]
            /\ Store!Return(g, [target |-> asked[g], epoch |-> e])
    BY <1>5 DEF Store!Refresh, Itself
  <2> QED
    BY <1>1, <1>3, <2>1 DEF StoreFits, StoreTyped
<1>6. CASE Store!RefreshBlank(g)
  <2>1. /\ stored' = [stored EXCEPT ![asked[g]] = Blank] /\ Store!Return(g, Blank)
    BY <1>6 DEF Store!RefreshBlank, Itself
  <2> QED
    BY <1>1, <1>3, <2>1 DEF StoreFits, StoreTyped
<1>7. CASE Store!Fail(g)
  <2>1. stored' = stored /\ Store!Return(g, Failed)
    BY <1>7 DEF Store!Fail
  <2> QED
    BY <1>1, <1>3, <2>1 DEF StoreFits
<1> QED
  BY <1>2, <1>4, <1>5, <1>6, <1>7

(* Up to the credentials, and the request itself.                          *)
LEMMA FitsStep ==
    ASSUME Inv, Fits, NEW g \in Goroutines,
           UNCHANGED setupVars,
           \/ AskCredentials(g) \/ GetCredentials(g)
           \/ UseServiceAccount(g) \/ TakeCredentials(g) \/ Send(g)
    PROVE  Fits'
<1>1. /\ StoreTyped /\ CallsTyped /\ Progress(g) /\ JobFits(g) /\ StoreFits
      /\ SetupTyped
  BY DEF Inv, Fits
<1>2. CASE AskCredentials(g) \/ GetCredentials(g)
  <2>1. /\ UNCHANGED <<setupVars, job, wire>>
        /\ phase[g] \in {"building", "credentials"}
        /\ phase' = [phase EXCEPT ![g] = "credentials"]
    BY <1>1, <1>2 DEF AskCredentials, GetCredentials, Goto, CallsTyped
  <2>2. \/ \E t \in Target : Store!Invoke(g, t)
        \/ Store!Hit(g) \/ Store!Refresh(g) \/ Store!RefreshBlank(g) \/ Store!Fail(g)
    <3>1. CASE AskCredentials(g)
      <4>1. job[g].name \in Names
        BY <1>1 DEF CallsTyped
      <4>2. TargetOf(job[g].name) \in Target
        BY <4>1 DEF TargetOf, Target, Names
      <4> QED
        BY <3>1, <4>2 DEF AskCredentials
    <3>2. CASE GetCredentials(g)
      BY <3>2 DEF GetCredentials
    <3> QED
      BY <1>2, <3>1, <3>2
  <2>3. StoreFits' /\ \A h \in Goroutines : h # g => outcome'[h] = outcome[h] /\ asked'[h] = asked[h]
    BY <1>1, <2>2, StoreFitsStep
  <2>4. Kind(g).built /\ Kind(g).account = "registry" /\ asked'[g] = TargetOf(job[g].name)
    <3>1. CASE AskCredentials(g)
      BY <1>1, <3>1 DEF AskCredentials, Store!Invoke, StoreTyped
    <3>2. CASE GetCredentials(g)
      <4>1. asked' = asked /\ phase[g] = "credentials"
        BY <3>2 DEF GetCredentials, Store!Hit, Store!Refresh, Store!RefreshBlank, Store!Fail,
                    Store!Return
      <4> QED
        BY <1>1, <4>1 DEF JobFits
    <3> QED
      BY <1>2, <3>1, <3>2
  <2>5. phase'[g] = "credentials" /\ Kind(g)' = Kind(g)
    BY <1>1, <2>1 DEF CallsTyped, Kind
  <2>6. JobFits(g)'
    BY <2>1, <2>4, <2>5 DEF JobFits, TargetOf
  <2>7. ASSUME NEW h \in Goroutines, h # g PROVE JobFits(h)'
    <3>1. JobFits(h) /\ phase'[h] = phase[h] /\ serviceAccount' = serviceAccount
      BY <1>1, <2>1, <2>7 DEF Fits, CallsTyped, setupVars
    <3> QED
      BY <2>1, <2>3, <2>7, <3>1, JobKept
  <2> QED
    BY <2>3, <2>6, <2>7 DEF Fits
<1>3. CASE UseServiceAccount(g) \/ TakeCredentials(g)
  <2>1. /\ UNCHANGED <<storeVars, setupVars, job, wire>>
        /\ phase' = [phase EXCEPT ![g] = "ready"]
    BY <1>3 DEF UseServiceAccount, TakeCredentials, Goto
  <2>2. Account(g) = Blank \/ GoesWith(Kind(g), job[g].name, Account(g))
    <3>1. CASE UseServiceAccount(g)
      <4>1. Kind(g).built /\ Kind(g).account = "service" /\ phase[g] = "building"
        BY <3>1 DEF UseServiceAccount
      <4>2. serviceAccount \in {ServiceAccount, Blank}
        BY <1>1, <4>1 DEF Progress, SetupTyped
      <4> QED
        BY <4>1, <4>2 DEF Account, GoesWith
    <3>2. CASE TakeCredentials(g)
      <4>1. /\ phase[g] = "credentials" /\ status[g] = "returned" /\ outcome[g] # Failed
        BY <3>2 DEF TakeCredentials
      <4>2. /\ Kind(g).built /\ Kind(g).account = "registry"
            /\ asked[g] = TargetOf(job[g].name)
        BY <1>1, <4>1 DEF JobFits
      <4>3. outcome[g] \in Issued \cup {Blank}
        BY <1>1, <4>1 DEF StoreTyped, Credentials
      <4>4. outcome[g] \in Issued => outcome[g].target = asked[g]
        BY <1>1 DEF StoreFits
      <4> QED
        BY <4>2, <4>3, <4>4 DEF Account, GoesWith
    <3> QED
      BY <1>3, <3>1, <3>2
  <2>3. Account(g)' = Account(g) /\ Kind(g)' = Kind(g)
    BY <2>1 DEF Account, Kind, storeVars, setupVars
  <2>4. phase'[g] = "ready" /\ \A h \in Goroutines : h # g => phase'[h] = phase[h]
    BY <1>1, <2>1 DEF CallsTyped
  <2>5. JobFits(g)'
    BY <2>1, <2>2, <2>3, <2>4 DEF JobFits, GoesWith, TargetOf
  <2> QED
    BY <2>1, <2>4, <2>5, OneJob
<1>4. CASE Send(g)
  <2>1. /\ UNCHANGED <<storeVars, setupVars, job>> /\ phase[g] = "ready"
        /\ phase' = [phase EXCEPT ![g] = "sent"]
        /\ wire' = [wire EXCEPT ![g] = Request(Kind(g), job[g].name, job[g].setter, Account(g))]
    BY <1>4 DEF Send, Goto
  <2>2. Account(g) = Blank \/ GoesWith(Kind(g), job[g].name, Account(g))
    BY <1>1, <2>1 DEF JobFits
  <2>3. /\ phase'[g] = "sent" /\ \A h \in Goroutines : h # g => phase'[h] = phase[h] /\ wire'[h] = wire[h]
        /\ wire'[g] = Request(Kind(g), job[g].name, job[g].setter, Account(g))
        /\ Kind(g)' = Kind(g)
    BY <1>1, <2>1 DEF CallsTyped, Kind
  <2>4. /\ UNCHANGED <<storeVars, setupVars>> /\ job' = job
        /\ \A k, n, a : GoesWith(k, n, a)' = GoesWith(k, n, a)
        /\ \A k, n, x, a : Request(k, n, x, a)' = Request(k, n, x, a)
    BY <2>1 DEF GoesWith, Request
  <2>5. (\E a : /\ a = Blank \/ GoesWith(Kind(g), job[g].name, a)
               /\ wire[g] = Request(Kind(g), job[g].name, job[g].setter, a))'
    BY <2>2, <2>3, <2>4
  <2>6. JobFits(g)'
    BY <2>3, <2>5 DEF JobFits
  <2>7. \A h \in Goroutines : h # g =>
           phase'[h] = phase[h] /\ job'[h] = job[h] /\ wire'[h] = wire[h]
    BY <2>3, <2>4
  <2> QED
    BY <1>1, <2>4, <2>6, <2>7, OneJob, Zenon
<1> QED
  BY <1>2, <1>3, <1>4

LEMMA InitFits == Init => Fits
<1> SUFFICES ASSUME Init PROVE Fits
  OBVIOUS
<1>1. \A t \in Target : stored[t] = Nil
  BY DEF Init, Store!Init
<1>2. \A g \in Goroutines : outcome[g] = Nil /\ phase[g] = "idle"
  BY DEF Init, Store!Init
<1>3. Nil \notin Issued
  BY CredentialsAssumption DEF Credentials
<1> QED
  BY <1>1, <1>2, <1>3 DEF Fits, StoreFits, JobFits

LEMMA NextFits == Inv /\ Fits /\ [Next]_vars => Fits'
<1> SUFFICES ASSUME Inv, Fits, [Next]_vars PROVE Fits'
  OBVIOUS
<1>1. CallsTyped /\ StoreTyped /\ StoreFits
  BY DEF Inv, Fits
(* Steps after which g has nothing to show.                                *)
<1>2. ASSUME NEW g \in Goroutines, UNCHANGED <<storeVars, setupVars>>,
             \A h \in Goroutines : h # g =>
                phase'[h] = phase[h] /\ job'[h] = job[h] /\ wire'[h] = wire[h],
             phase'[g] \notin {"credentials", "ready", "sent"}
      PROVE  Fits'
  <2>1. JobFits(g)'
    BY <1>2 DEF JobFits
  <2> QED
    BY <1>2, <2>1, OneJob
(* Steps that change nothing an account or a request depends on.           *)
<1>3. ASSUME UNCHANGED <<phase, job, wire, asked, outcome, stored>>,
             \A g \in Goroutines : phase[g] = "ready" => serviceAccount' = serviceAccount
      PROVE  Fits'
  <2>1. StoreFits'
    BY <1>1, <1>3 DEF StoreFits
  <2>2. ASSUME NEW g \in Goroutines PROVE JobFits(g)'
    BY <1>3, <2>2, JobKept DEF Fits
  <2> QED
    BY <2>1, <2>2 DEF Fits
<1>4. CASE \E t \in Target : Renew(t)
  BY <1>3, <1>4 DEF Renew, Store!Renew, setupVars
<1>5. CASE SetUp /\ UNCHANGED <<storeVars, phase, job, ctx, wire, reply, body, out>>
  <2>1. setup # "ready"
    BY <1>5, SetUpStep
  <2>2. \A g \in Goroutines : phase[g] # "ready"
    BY <2>1 DEF Inv, Progress
  <2> QED
    BY <1>3, <1>5, <2>2 DEF storeVars
<1>6. CASE UNCHANGED vars
  BY <1>3, <1>6 DEF vars, storeVars, setupVars
<1>7. ASSUME NEW g \in Goroutines,
             \/ \E id \in Calls, n \in Names, x \in {"none", "live"} :
                   \E setter \in SettersOf(id) : Begin(g, id, n, setter, x)
             \/ Cancel(g) \/ OwnStep(g) \/ GetCredentials(g) \/ Answer(g) \/ LoseConnection(g)
      PROVE  Fits'
  <2>1. CASE \E id \in Calls, n \in Names, x \in {"none", "live"} :
                 \E setter \in SettersOf(id) : Begin(g, id, n, setter, x)
    <3>1. PICK id \in Calls, n \in Names, x \in {"none", "live"} :
                 \E setter \in SettersOf(id) : Begin(g, id, n, setter, x)
      BY <2>1
    <3>2. PICK setter \in SettersOf(id) : Begin(g, id, n, setter, x)
      BY <3>1
    <3> QED
      BY <1>1, <1>2, <3>2 DEF Begin, Goto, CallsTyped
  <2>2. CASE Cancel(g)
    BY <1>3, <2>2 DEF Cancel, storeVars, setupVars
  <2>3. CASE \/ AskCredentials(g) \/ GetCredentials(g) \/ UseServiceAccount(g)
             \/ TakeCredentials(g) \/ Send(g)
    <3>1. UNCHANGED setupVars
      BY <2>3 DEF AskCredentials, GetCredentials, UseServiceAccount, TakeCredentials, Send
    <3> QED
      BY <2>3, <3>1, FitsStep
  <2>4. CASE \/ NotImplemented(g) \/ Reject(g) \/ NoCredentials(g) \/ ReturnError(g)
             \/ NotModified(g) \/ HttpError(g) \/ ReturnEmpty(g) \/ DecodeResponse(g)
    <3>1. /\ UNCHANGED <<storeVars, setupVars, job>>
          /\ phase' = [phase EXCEPT ![g] = "returned"]
          /\ wire' = [wire EXCEPT ![g] = NoRequest]
      BY <2>4 DEF NotImplemented, Reject, NoCredentials, ReturnError, NotModified, HttpError,
                  ReturnEmpty, DecodeResponse, Return, Goto
    <3> QED
      BY <1>1, <1>2, <3>1 DEF CallsTyped
  <2>5. CASE SendNothing(g) \/ Answer(g) \/ LoseConnection(g) \/ ReportError(g)
    <3>1. /\ UNCHANGED <<storeVars, setupVars, job, wire>>
          /\ \/ phase' = [phase EXCEPT ![g] = "failed"]
             \/ phase' = [phase EXCEPT ![g] = "answered"]
             \/ phase' = [phase EXCEPT ![g] = "erred"]
      BY <2>5 DEF SendNothing, Answer, LoseConnection, ReportError, Report, Goto
    <3> QED
      BY <1>1, <1>2, <3>1 DEF CallsTyped
  <2> QED
    BY <1>7, <2>1, <2>2, <2>3, <2>4, <2>5 DEF OwnStep
<1> QED
  BY <1>4, <1>5, <1>6, <1>7 DEF Next
-----------------------------------------------------------------------------
(***************************************************************************)
(* The table of the calls.                                                 *)
(***************************************************************************)
(* All of a request but the name and the credentials themselves.           *)
Looks(id, verb, endpoint, account, nameParam, method) ==
    /\ CallTable[id].verb = verb
    /\ CallTable[id].endpoint = endpoint
    /\ CallTable[id].account = account
    /\ CallTable[id].nameParam = nameParam
    /\ CallTable[id].method = method

BuiltIds ==
    {"bindDeviceToGateway", "create", "delete", "get", "list", "patch",
     "unbindDeviceFromGateway", "devicesCreate", "devicesDelete", "devicesGet",
     "devicesList", "devicesModifyCloudToDeviceConfig", "devicesPatch",
     "devicesSendCommandToDevice", "devicesConfigVersionsList", "devicesStatesList"}

LEMMA BuiltCalls ==
    ASSUME NEW id \in CallIds, CallTable[id].built
    PROVE  id \in BuiltIds
<1>1. id \in BuiltIds \cup {"getIamPolicy", "setIamPolicy", "testIamPermissions",
                            "groupsGetIamPolicy", "groupsSetIamPolicy",
                            "groupsTestIamPermissions", "groupsDevicesList"}
  BY DEF CallIds, CallTable, BuiltIds
<1>2. /\ ~CallTable["getIamPolicy"].built
      /\ ~CallTable["setIamPolicy"].built
      /\ ~CallTable["testIamPermissions"].built
      /\ ~CallTable["groupsGetIamPolicy"].built
      /\ ~CallTable["groupsSetIamPolicy"].built
      /\ ~CallTable["groupsTestIamPermissions"].built
      /\ ~CallTable["groupsDevicesList"].built
  BY DEF CallTable, RegistriesGetIamPolicy, RegistriesSetIamPolicy,
         RegistriesTestIamPermissions, GroupsGetIamPolicy, GroupsSetIamPolicy,
         GroupsTestIamPermissions, GroupsDevicesList, Unbuilt, OverRegistry
<1> QED
  BY <1>1, <1>2

LEMMA RegistrySignatures ==
    /\ Looks("bindDeviceToGateway", "POST", "cloudiot", "registry", "", "bindDeviceToGateway")
    /\ Looks("create", "POST", "cloudiot", "service", "parent", "")
    /\ Looks("delete", "DELETE", "cloudiot", "service", "name", "")
    /\ Looks("get", "GET", "cloudiot", "registry", "", "")
    /\ Looks("list", "GET", "cloudiot", "service", "parent", "")
    /\ Looks("patch", "PATCH", "cloudiot", "registry", "name", "")
    /\ Looks("unbindDeviceFromGateway", "POST", "cloudiot", "registry", "", "unbindDeviceFromGateway")
  BY DEF Looks, CallTable, RegistriesBindDeviceToGateway, RegistriesCreate,
         RegistriesDelete, RegistriesGet, RegistriesList, RegistriesPatch,
         RegistriesUnbindDeviceFromGateway, OverLocation, OverRegistry

LEMMA DeviceSignatures ==
    /\ Looks("devicesCreate", "POST", "cloudiot_devices", "registry", "", "")
    /\ Looks("devicesDelete", "DELETE", "cloudiot_devices", "registry", "name", "")
    /\ Looks("devicesGet", "GET", "cloudiot_devices", "registry", "name", "")
    /\ Looks("devicesList", "GET", "cloudiot_devices", "registry", "parent", "")
    /\ Looks("devicesModifyCloudToDeviceConfig", "POST", "cloudiot_devices", "registry", "name", "modifyCloudToDeviceConfig")
    /\ Looks("devicesPatch", "PATCH", "cloudiot_devices", "registry", "name", "")
    /\ Looks("devicesSendCommandToDevice", "POST", "cloudiot_devices", "registry", "name", "sendCommandToDevice")
    /\ Looks("devicesConfigVersionsList", "GET", "cloudiot_devices_configVersions", "registry", "name", "")
    /\ Looks("devicesStatesList", "GET", "cloudiot_devices_states", "registry", "name", "")
  BY DEF Looks, CallTable, DevicesCreate, DevicesDelete, DevicesGet, DevicesList,
         DevicesModifyCloudToDeviceConfig, DevicesPatch, DevicesSendCommandToDevice,
         DevicesConfigVersionsList, DevicesStatesList, OverDevice, OverRegistry

(* The calls by their verbs.                                               *)
Gets == {"get", "list", "devicesGet", "devicesList", "devicesConfigVersionsList",
         "devicesStatesList"}
Posts == {"bindDeviceToGateway", "create", "unbindDeviceFromGateway", "devicesCreate",
          "devicesModifyCloudToDeviceConfig", "devicesSendCommandToDevice"}
Patches == {"patch", "devicesPatch"}
Deletes == {"delete", "devicesDelete"}

LEMMA Verbs ==
    ASSUME NEW id \in BuiltIds
    PROVE  \/ id \in Gets /\ CallTable[id].verb = "GET"
           \/ id \in Posts /\ CallTable[id].verb = "POST"
           \/ id \in Patches /\ CallTable[id].verb = "PATCH"
           \/ id \in Deletes /\ CallTable[id].verb = "DELETE"
<1>1. id \in Gets \cup Posts \cup Patches \cup Deletes
  BY DEF BuiltIds, Gets, Posts, Patches, Deletes
<1>2. CASE id \in Gets
  <2>1. \A i \in Gets : CallTable[i].verb = "GET"
    <3>1. /\ CallTable["get"].verb = "GET" /\ CallTable["list"].verb = "GET"
          /\ CallTable["devicesGet"].verb = "GET" /\ CallTable["devicesList"].verb = "GET"
          /\ CallTable["devicesConfigVersionsList"].verb = "GET"
          /\ CallTable["devicesStatesList"].verb = "GET"
      BY RegistrySignatures, DeviceSignatures DEF Looks
    <3> QED
      BY <3>1, Zenon DEF Gets
  <2> QED
    BY <1>2, <2>1
<1>3. CASE id \in Posts
  <2>1. /\ CallTable["bindDeviceToGateway"].verb = "POST"
        /\ CallTable["create"].verb = "POST"
        /\ CallTable["unbindDeviceFromGateway"].verb = "POST"
        /\ CallTable["devicesCreate"].verb = "POST"
        /\ CallTable["devicesModifyCloudToDeviceConfig"].verb = "POST"
        /\ CallTable["devicesSendCommandToDevice"].verb = "POST"
    BY RegistrySignatures, DeviceSignatures DEF Looks
  <2> QED
    BY <1>3, <2>1, Zenon DEF Posts
<1>4. CASE id \in Patches \cup Deletes
  <2>1. /\ CallTable["patch"].verb = "PATCH" /\ CallTable["devicesPatch"].verb = "PATCH"
        /\ CallTable["delete"].verb = "DELETE" /\ CallTable["devicesDelete"].verb = "DELETE"
    BY RegistrySignatures, DeviceSignatures DEF Looks
  <2> QED
    BY <1>4, <2>1, Zenon DEF Patches, Deletes
<1> QED
  BY <1>1, <1>2, <1>3, <1>4

(* No two calls that are built look the same.                              *)
LooksLike(i, j) ==
    /\ CallTable[i].verb = CallTable[j].verb
    /\ CallTable[i].endpoint = CallTable[j].endpoint
    /\ CallTable[i].account = CallTable[j].account
    /\ CallTable[i].nameParam = CallTable[j].nameParam
    /\ CallTable[i].method = CallTable[j].method

LEMMA SignaturesDiffer ==
    ASSUME NEW i \in BuiltIds, NEW j \in BuiltIds, LooksLike(i, j)
    PROVE  i = j
<1>1. CallTable[i].verb = CallTable[j].verb
  BY DEF LooksLike
<1>2. CASE i \in Deletes /\ j \in Deletes
  <2>1. CallTable["delete"].account = "service" /\ CallTable["devicesDelete"].account = "registry"
    BY RegistrySignatures, DeviceSignatures DEF Looks
  <2>2. CallTable[i].account = CallTable[j].account
    BY DEF LooksLike
  <2> QED
    BY <1>2, <2>1, <2>2 DEF Deletes
<1>3. CASE i \in Patches /\ j \in Patches
  <2>1. /\ CallTable["patch"].endpoint = "cloudiot"
        /\ CallTable["devicesPatch"].endpoint = "cloudiot_devices"
    BY RegistrySignatures, DeviceSignatures DEF Looks
  <2>2. CallTable[i].endpoint = CallTable[j].endpoint
    BY DEF LooksLike
  <2> QED
    BY <1>3, <2>1, <2>2 DEF Patches
<1>4. CASE i \in Gets /\ j \in Gets
  <2>1. /\ CallTable["get"].endpoint = "cloudiot"
        /\ CallTable["list"].endpoint = "cloudiot"
        /\ CallTable["devicesGet"].endpoint = "cloudiot_devices"
        /\ CallTable["devicesList"].endpoint = "cloudiot_devices"
        /\ CallTable["devicesConfigVersionsList"].endpoint = "cloudiot_devices_configVersions"
        /\ CallTable["devicesStatesList"].endpoint = "cloudiot_devices_states"
    BY RegistrySignatures, DeviceSignatures DEF Looks
  <2>2. /\ CallTable["get"].nameParam = "" /\ CallTable["list"].nameParam = "parent"
        /\ CallTable["devicesGet"].nameParam = "name"
        /\ CallTable["devicesList"].nameParam = "parent"
    BY RegistrySignatures, DeviceSignatures DEF Looks
  <2>3. CallTable[i].endpoint = CallTable[j].endpoint
    BY DEF LooksLike
  <2>4. CallTable[i].nameParam = CallTable[j].nameParam
    BY DEF LooksLike
  <2>5. i = j \/ {i, j} = {"get", "list"} \/ {i, j} = {"devicesGet", "devicesList"}
    BY <1>4, <2>1, <2>3, Zenon DEF Gets
  <2> QED
    BY <2>2, <2>4, <2>5, Zenon
<1>5. CASE i \in Posts /\ j \in Posts
  <2>1. /\ CallTable["bindDeviceToGateway"].method = "bindDeviceToGateway"
        /\ CallTable["create"].method = ""
        /\ CallTable["unbindDeviceFromGateway"].method = "unbindDeviceFromGateway"
        /\ CallTable["devicesCreate"].method = ""
        /\ CallTable["devicesModifyCloudToDeviceConfig"].method = "modifyCloudToDeviceConfig"
        /\ CallTable["devicesSendCommandToDevice"].method = "sendCommandToDevice"
    BY RegistrySignatures, DeviceSignatures DEF Looks
  <2>2. /\ CallTable["create"].endpoint = "cloudiot"
        /\ CallTable["devicesCreate"].endpoint = "cloudiot_devices"
    BY RegistrySignatures, DeviceSignatures DEF Looks
  <2>3. CallTable[i].endpoint = CallTable[j].endpoint
    BY DEF LooksLike
  <2>4. CallTable[i].method = CallTable[j].method
    BY DEF LooksLike
  <2>5. i = j \/ {i, j} = {"create", "devicesCreate"}
    BY <1>5, <2>1, <2>4, Zenon DEF Posts
  <2> QED
    BY <2>2, <2>3, <2>5, Zenon
<1> QED
  BY <1>1, <1>2, <1>3, <1>4, <1>5, Verbs

(* Three calls use the service account, the others a registry's.           *)
LEMMA Accounts ==
    ASSUME NEW id \in BuiltIds
    PROVE  \/ CallTable[id].account = "registry"
           \/ CallTable[id].account = "service" /\ id \in {"create", "delete", "list"}
<1>1. /\ CallTable["create"].account = "service"
      /\ CallTable["delete"].account = "service"
      /\ CallTable["list"].account = "service"
  BY RegistrySignatures DEF Looks
<1>2. /\ CallTable["bindDeviceToGateway"].account = "registry"
      /\ CallTable["get"].account = "registry"
      /\ CallTable["patch"].account = "registry"
      /\ CallTable["unbindDeviceFromGateway"].account = "registry"
      /\ CallTable["devicesCreate"].account = "registry"
      /\ CallTable["devicesDelete"].account = "registry"
      /\ CallTable["devicesGet"].account = "registry"
      /\ CallTable["devicesList"].account = "registry"
      /\ CallTable["devicesModifyCloudToDeviceConfig"].account = "registry"
      /\ CallTable["devicesPatch"].account = "registry"
      /\ CallTable["devicesSendCommandToDevice"].account = "registry"
      /\ CallTable["devicesConfigVersionsList"].account = "registry"
      /\ CallTable["devicesStatesList"].account = "registry"
  BY RegistrySignatures, DeviceSignatures DEF Looks
<1> QED
  BY <1>1, <1>2, Zenon DEF BuiltIds

(* A call that sends no name is on a registry, whose credentials tell it.  *)
LEMMA NamelessCalls ==
    ASSUME NEW id \in BuiltIds, CallTable[id].nameParam = ""
    PROVE  CallTable[id].resource = "registry" /\ CallTable[id].account = "registry"
<1>1. id \in {"bindDeviceToGateway", "get", "unbindDeviceFromGateway", "devicesCreate"}
  <2>1. /\ CallTable["create"].nameParam = "parent"
        /\ CallTable["delete"].nameParam = "name"
        /\ CallTable["list"].nameParam = "parent"
        /\ CallTable["patch"].nameParam = "name"
    BY RegistrySignatures DEF Looks
  <2>2. /\ CallTable["devicesDelete"].nameParam = "name"
        /\ CallTable["devicesGet"].nameParam = "name"
        /\ CallTable["devicesList"].nameParam = "parent"
        /\ CallTable["devicesModifyCloudToDeviceConfig"].nameParam = "name"
        /\ CallTable["devicesPatch"].nameParam = "name"
        /\ CallTable["devicesSendCommandToDevice"].nameParam = "name"
        /\ CallTable["devicesConfigVersionsList"].nameParam = "name"
        /\ CallTable["devicesStatesList"].nameParam = "name"
    BY DeviceSignatures DEF Looks
  <2>3. "parent" # "" /\ "name" # ""
    OBVIOUS
  <2> QED
    BY <2>1, <2>2, <2>3, Zenon DEF BuiltIds
<1>2. /\ CallTable["bindDeviceToGateway"].resource = "registry"
      /\ CallTable["get"].resource = "registry"
      /\ CallTable["unbindDeviceFromGateway"].resource = "registry"
      /\ CallTable["devicesCreate"].resource = "registry"
  BY DEF CallTable, RegistriesBindDeviceToGateway, RegistriesGet,
         RegistriesUnbindDeviceFromGateway, DevicesCreate, OverRegistry
<1>3. id \notin {"create", "delete", "list"}
  BY <1>1
<1> QED
  BY <1>1, <1>2, <1>3, Accounts, Zenon

(* A request shows its parts, and differs from one with other options in   *)
(* them only.                                                              *)
LEMMA RequestParts ==
    ASSUME NEW k, NEW n, NEW x, NEW y, NEW a
    PROVE  /\ Request(k, n, x, a).account = a
           /\ Request(k, n, x, a)
                = [Request(k, n, y, a) EXCEPT !.options = Request(k, n, x, a).options]
<1> DEFINE named == IF k.nameParam = "" THEN <<>> ELSE <<k.nameParam, ResourceName(k, n)>>
           R(o) == [verb |-> k.verb, endpoint |-> k.endpoint, account |-> a,
                    method |-> k.method, named |-> named, options |-> o]
<1>1. /\ Request(k, n, x, a) = R({x} \cap k.reach)
      /\ Request(k, n, y, a) = R({y} \cap k.reach)
  BY DEF Request
<1> HIDE DEF named
<1>2. ASSUME NEW o, NEW u
      PROVE  R(o).account = a /\ R(o).options = o /\ [R(u) EXCEPT !.options = o] = R(o)
  OBVIOUS
<1> HIDE DEF R
<1>3. /\ R({x} \cap k.reach).account = a
      /\ R({x} \cap k.reach).options = {x} \cap k.reach
      /\ [R({y} \cap k.reach) EXCEPT !.options = {x} \cap k.reach] = R({x} \cap k.reach)
  BY <1>2
<1> QED
  BY <1>1, <1>3, Zenon

(* The same call on the same resource, save the project if no name is sent.*)
SameButProject(i, n, j, m) ==
    /\ i = j
    /\ CallTable[i].nameParam = "" => TargetOf(n) = TargetOf(m)
    /\ CallTable[i].nameParam # "" =>
          ResourceName(CallTable[i], n) = ResourceName(CallTable[j], m)

(* The request of one call can be no other's: the accounts are told apart  *)
(* by what they are, the calls by their signatures, the resources by the   *)
(* name that is sent or else, but for the project, by the registry that    *)
(* the credentials are for.                                                *)
LEMMA RequestsDiffer ==
    ASSUME NEW i \in CallIds, NEW j \in CallIds, NEW n \in Names, NEW m \in Names,
           NEW a, NEW x, NEW y,
           GoesWith(CallTable[i], n, a), GoesWith(CallTable[j], m, a),
           Request(CallTable[i], n, x, a)
             = [Request(CallTable[j], m, y, a) EXCEPT !.options = Request(CallTable[i], n, x, a).options]
    PROVE  SameButProject(i, n, j, m)
<1> DEFINE k == CallTable[i]
           l == CallTable[j]
           N(c, nm) == IF c.nameParam = "" THEN <<>> ELSE <<c.nameParam, ResourceName(c, nm)>>
<1>1. /\ k.verb = l.verb /\ k.endpoint = l.endpoint /\ k.method = l.method
      /\ N(k, n) = N(l, m)
  <2> DEFINE p == Request(k, n, x, a)
             q == [Request(l, m, y, a) EXCEPT !.options = p.options]
  <2>1. p.verb = k.verb /\ p.endpoint = k.endpoint /\ p.method = k.method /\ p.named = N(k, n)
    BY DEF Request
  <2>2. q.verb = l.verb /\ q.endpoint = l.endpoint /\ q.method = l.method /\ q.named = N(l, m)
    BY DEF Request
  <2>3. p = q
    OBVIOUS
  <2> HIDE DEF p, q
  <2> QED
    BY <2>1, <2>2, <2>3
<1>2. k.account = l.account
  BY CredentialsAssumption DEF GoesWith, Credentials
<1>3. k.nameParam = l.nameParam /\ (k.nameParam # "" => ResourceName(k, n) = ResourceName(l, m))
  <2>1. k.nameParam = "" <=> l.nameParam = ""
    BY <1>1
  <2> QED
    BY <1>1, <2>1
<1>4. i \in BuiltIds /\ j \in BuiltIds
  BY BuiltCalls DEF GoesWith
<1>5. i = j
  <2>1. LooksLike(i, j)
    BY <1>1, <1>2, <1>3 DEF LooksLike
  <2> QED
    BY <1>4, <2>1, SignaturesDiffer
<1>6. CASE k.nameParam = ""
  <2>1. k.resource = "registry" /\ k.account = "registry"
    BY <1>4, <1>6, NamelessCalls
  <2>2. TargetOf(n) = TargetOf(m)
    BY <1>2, <2>1 DEF GoesWith
  <2> QED
    BY <1>5, <1>6, <2>2 DEF SameButProject
<1> QED
  BY <1>3, <1>5, <1>6 DEF SameButProject

-----------------------------------------------------------------------------
(***************************************************************************)
(* The theorems.                                                           *)
(***************************************************************************)
LEMMA Chosen ==
    /\ (CHOOSE i \in Calls : TRUE) \in Calls
    /\ (CHOOSE n \in Names : TRUE) \in Names
    /\ (CHOOSE t \in Target : TRUE) \in Target
<1>1. PICK p \in Projects, r \in Regions, q \in Registries, d \in Devices : TRUE
  BY NamesAssumption
<1>2. /\ [project |-> p, region |-> r, registry |-> q, device |-> d] \in Names
      /\ [region |-> r, registry |-> q] \in Target
  BY DEF Names, Target
<1>3. \E i \in Calls : TRUE
  BY CallsAssumption
<1>4. (CHOOSE i \in Calls : TRUE) \in Calls
  BY <1>3, Zenon
<1>5. (CHOOSE n \in Names : TRUE) \in Names
  BY <1>2, Zenon
<1>6. (CHOOSE t \in Target : TRUE) \in Target
  BY <1>2, Zenon
<1> QED
  BY <1>4, <1>5, <1>6

LEMMA InitInv == Init => Inv
<1> SUFFICES ASSUME Init PROVE Inv
  OBVIOUS
<1>1. SetupTyped
  BY DEF Init, SetupInit, SetupTyped
<1>2. StoreTyped
  <2>1. 0 \in 0 .. MaxEpoch
    BY CredentialsAssumption
  <2>2. asked \in [Goroutines -> Target]
    BY Chosen, Zenon DEF Init, Store!Init
  <2> QED
    BY <2>1, <2>2 DEF Init, Store!Init, StoreTyped
<1>3. CallsTyped
  <2>1. job \in [Goroutines -> [id : Calls, name : Names, setter : Setters \cup {NoSetter}]]
    <3> DEFINE i == CHOOSE i \in Calls : TRUE
               n == CHOOSE n \in Names : TRUE
    <3>1. i \in Calls /\ n \in Names
      BY Chosen
    <3>2. job = [g \in Goroutines |-> [id |-> i, name |-> n, setter |-> NoSetter]]
      BY Zenon DEF Init
    <3> HIDE DEF i, n
    <3> QED
      BY <3>1, <3>2
  <2> QED
    BY <2>1 DEF Init, CallsTyped
<1>4. \A g \in Goroutines : Progress(g)
  BY DEF Init, Progress
<1> QED
  BY <1>1, <1>2, <1>3, <1>4 DEF Inv

LEMMA NextInv == Inv /\ [Next]_vars => Inv'
<1> SUFFICES ASSUME Inv, [Next]_vars PROVE Inv'
  OBVIOUS
<1>1. ASSUME UNCHANGED <<phase, job, ctx, wire, reply, body, out>>, outcome' = outcome,
             setup = "ready" => setup' = "ready", SetupTyped', StoreTyped'
      PROVE  Inv'
  <2>1. CallsTyped'
    BY <1>1 DEF Inv, CallsTyped
  <2>2. ASSUME NEW g \in Goroutines PROVE Progress(g)'
    <3>1. Progress(g)
      BY DEF Inv
    <3> QED
      BY <1>1, <3>1 DEF Progress, Kind
  <2> QED
    BY <1>1, <2>1, <2>2 DEF Inv
<1>2. CASE \E t \in Target : Renew(t)
  <2>1. PICK t \in Target : Renew(t)
    BY <1>2
  <2>2. /\ UNCHANGED <<setupVars, phase, job, ctx, wire, reply, body, out>>
        /\ stored' = stored /\ status' = status /\ asked' = asked /\ since' = since
        /\ outcome' = outcome /\ epoch[t] < MaxEpoch /\ epoch' = [epoch EXCEPT ![t] = @ + 1]
    BY <2>1 DEF Renew, Store!Renew
  <2>3. epoch[t] + 1 \in 0 .. MaxEpoch
    BY <2>2, CredentialsAssumption DEF Inv, StoreTyped
  <2>4. StoreTyped'
    BY <2>2, <2>3 DEF Inv, StoreTyped
  <2>5. SetupTyped' /\ setup' = setup
    BY <2>2 DEF Inv, SetupTyped, setupVars
  <2> QED
    BY <1>1, <2>2, <2>4, <2>5
<1>3. CASE SetUp /\ UNCHANGED <<storeVars, phase, job, ctx, wire, reply, body, out>>
  <2>1. SetupTyped' /\ setup # "ready"
    BY <1>3, SetUpStep
  <2>2. StoreTyped' /\ outcome' = outcome
    BY <1>3, StoreQuiet DEF Inv
  <2> QED
    BY <1>1, <1>3, <2>1, <2>2
<1>4. CASE UNCHANGED vars
  <2>1. SetupTyped' /\ setup' = setup /\ UNCHANGED <<phase, job, ctx, wire, reply, body, out>>
    BY <1>4 DEF Inv, SetupTyped, vars, setupVars
  <2>2. StoreTyped' /\ outcome' = outcome
    BY <1>4, StoreQuiet DEF Inv, vars
  <2> QED
    BY <1>1, <2>1, <2>2
<1>5. ASSUME NEW g \in Goroutines,
             \/ \E id \in Calls, n \in Names, x \in {"none", "live"} :
                   \E setter \in SettersOf(id) : Begin(g, id, n, setter, x)
             \/ Cancel(g) \/ OwnStep(g) \/ GetCredentials(g) \/ Answer(g) \/ LoseConnection(g)
      PROVE  Inv'
  BY <1>5, CallerStep, DoRequestStep, SendStep, ResponseStep DEF OwnStep
<1> QED
  BY <1>2, <1>3, <1>4, <1>5 DEF Next

(* The invariant holds of every run of the calls.                          *)
THEOREM Invariant == Spec => []Inv
<1>1. Init => Inv
  BY InitInv
<1>2. Inv /\ [Next]_vars => Inv'
  BY NextInv
<1> QED
  BY <1>1, <1>2, PTL DEF Spec

(* Every variable has its type, and no call is sent without credentials,   *)
(* whatever options NewService (iot.go 177) was given.                     *)
THEOREM CallsTypeCorrect == Spec => []TypeOK
<1>1. ASSUME Inv, NEW g \in Goroutines, phase[g] = "ready"
      PROVE  Account(g) # Nil
  <2>1. setup = "ready" /\ (Kind(g).account = "service" \/ outcome[g] # Nil)
    BY <1>1 DEF Inv, Progress
  <2> QED
    BY <1>1, <2>1 DEF Inv, SetupTyped, Account
<1>2. Inv => TypeOK
  BY <1>1 DEF Inv, SetupTyped, CallsTyped, TypeOK
<1> QED
  BY <1>2, Invariant, PTL

(* No call returns with its response's body open, on any path through Do.  *)
THEOREM NoBodyLeaks == Spec => []BodiesClosed
<1>1. Inv => BodiesClosed
  BY DEF Inv, Progress, BodiesClosed, Resting
<1> QED
  BY <1>1, Invariant, PTL

-----------------------------------------------------------------------------
(***************************************************************************)
(* When the context was cancelled, and what came of it.                    *)
(***************************************************************************)
Remembered(g) ==
    /\ cancelledAt[g] \in {"never", "before", "during", "after"}
    /\ cancelledAt[g] = "never" <=> ctx[g] # "cancelled"
    /\ phase[g] \in Before => cancelledAt[g] \in {"never", "before"}
    /\ phase[g] \in During => cancelledAt[g] # "after"
    /\ cancelledAt[g] = "before" => phase[g] \notin {"sent", "answered"}

Reported(g) ==
    /\ cancelledAt[g] = "before" =>
          wire[g] = NoRequest /\ out[g] \in {"none", "rejected", "contextError"}
    /\ out[g] = "sendError" => cancelledAt[g] \in {"never", "after"}
    /\ out[g] = "contextError" => cancelledAt[g] \in {"before", "during"}

HistoryInv == \A g \in Goroutines : Remembered(g) /\ Reported(g)

(* What a step may do with the phase, context, request and result of one   *)
(* call: leave them, begin, cancel, go on, send, fail, answer or return.   *)
Same(g) == ctx'[g] = ctx[g] /\ wire'[g] = wire[g] /\ out'[g] = out[g]

Starts(g) ==
    /\ Resting(g) /\ phase'[g] = "building" /\ wire'[g] = wire[g]
    /\ ctx'[g] # "cancelled" /\ out'[g] = "none"

Cancels(g) ==
    /\ ~Resting(g) /\ ctx[g] = "live" /\ ctx'[g] = "cancelled"
    /\ phase'[g] = phase[g] /\ wire'[g] = wire[g] /\ out'[g] = out[g]

GoesOn(g) ==
    /\ Same(g)
    /\ \/ phase'[g] = phase[g]
       \/ phase[g] \in Before /\ phase'[g] \in Before
       \/ phase[g] \in {"ready", "sent"} /\ phase'[g] = "failed"
       \/ phase[g] = "sent" /\ phase'[g] = "answered"

Sends(g) ==
    /\ phase[g] = "ready" /\ phase'[g] = "sent" /\ ctx[g] # "cancelled"
    /\ ctx'[g] = ctx[g] /\ out'[g] = out[g]

Reports(g) ==
    /\ phase[g] = "failed" /\ phase'[g] = "erred"
    /\ ctx'[g] = ctx[g] /\ wire'[g] = wire[g]
    /\ out'[g] = IF ctx[g] = "cancelled" THEN "contextError" ELSE "sendError"

Returns(g) ==
    /\ phase'[g] = "returned" /\ ctx'[g] = ctx[g] /\ wire'[g] = NoRequest
    /\ \/ phase[g] \in Before /\ out'[g] = "rejected"
       \/ phase[g] = "erred" /\ out'[g] = out[g]
       \/ /\ phase[g] = "answered"
          /\ out'[g] \notin {"sendError", "contextError"}

Moves(g) ==
    \/ Starts(g) \/ Cancels(g) \/ GoesOn(g) \/ Sends(g) \/ Reports(g) \/ Returns(g)

Remembers(g) ==
    cancelledAt'[g] = IF ctx'[g] # "cancelled" THEN "never"
                      ELSE IF ctx[g] # "cancelled" THEN Moment(g) ELSE cancelledAt[g]

LEMMA HistoryKept ==
    ASSUME Inv, NEW g \in Goroutines, Remembered(g), Reported(g), Remembers(g), Moves(g)
    PROVE  Remembered(g)' /\ Reported(g)'
<1>1. Progress(g)
  BY DEF Inv
<1>2. /\ phase[g] \in {"idle", "building", "credentials", "ready", "returned"} =>
            wire[g] = NoRequest
      /\ phase[g] \notin {"erred", "returned"} => out[g] = "none"
  BY <1>1 DEF Progress
<1>3. phase[g] \in {"idle", "building", "credentials", "ready",
                    "sent", "failed", "erred", "answered", "returned"}
  BY DEF Inv, CallsTyped
<1>4. CASE Starts(g)
  <2>1. cancelledAt'[g] = "never" /\ phase'[g] = "building" /\ out'[g] = "none"
        /\ ctx'[g] # "cancelled"
    BY <1>4 DEF Starts, Remembers
  <2> QED
    BY <2>1 DEF Remembered, Reported, Before, During
<1>5. CASE Cancels(g)
  <2>1. /\ cancelledAt'[g] = Moment(g) /\ cancelledAt[g] = "never" /\ ctx'[g] = "cancelled"
        /\ phase'[g] = phase[g] /\ wire'[g] = wire[g] /\ out'[g] = out[g]
        /\ phase[g] \notin {"idle", "returned"}
    BY <1>5 DEF Cancels, Remembers, Remembered, Resting
  <2>2. /\ phase[g] \in Before => Moment(g) = "before"
        /\ phase[g] \in During => Moment(g) = "during"
        /\ phase[g] \in {"erred", "answered"} => Moment(g) = "after"
    BY DEF Moment, Before, During
  <2>3. phase[g] \in Before \cup During \cup {"erred", "answered"}
    BY <1>3, <2>1 DEF Before, During
  <2>4. CASE phase[g] \in Before
    <3>1. /\ phase'[g] \in Before /\ cancelledAt'[g] = "before"
          /\ wire'[g] = NoRequest /\ out'[g] = "none"
      BY <1>2, <2>1, <2>2, <2>4 DEF Before
    <3> QED
      BY <2>1, <3>1 DEF Remembered, Reported, Before, During
  <2>5. CASE phase[g] \in During
    <3>1. /\ phase'[g] \in During /\ cancelledAt'[g] = "during" /\ out'[g] = "none"
      BY <1>2, <2>1, <2>2, <2>5 DEF During
    <3> QED
      BY <2>1, <3>1 DEF Remembered, Reported, Before, During
  <2>6. CASE phase[g] \in {"erred", "answered"}
    BY <2>1, <2>2, <2>6 DEF Remembered, Reported, Before, During
  <2> QED
    BY <2>3, <2>4, <2>5, <2>6
<1>6. cancelledAt'[g] = cancelledAt[g] \/ Starts(g) \/ Cancels(g)
  BY DEF Moves, GoesOn, Same, Sends, Reports, Returns, Remembers, Remembered
<1>7. CASE GoesOn(g) /\ cancelledAt'[g] = cancelledAt[g]
  BY <1>2, <1>7 DEF GoesOn, Same, Remembered, Reported, Before, During
<1>8. CASE Sends(g) /\ cancelledAt'[g] = cancelledAt[g]
  BY <1>8 DEF Sends, Remembered, Reported, Before, During
<1>9. CASE Reports(g) /\ cancelledAt'[g] = cancelledAt[g]
  <2>1. /\ phase[g] = "failed" /\ phase'[g] = "erred" /\ ctx'[g] = ctx[g]
        /\ wire'[g] = wire[g]
        /\ out'[g] = IF ctx[g] = "cancelled" THEN "contextError" ELSE "sendError"
    BY <1>9 DEF Reports
  <2>2. cancelledAt[g] # "after"
    BY <2>1 DEF Remembered, During
  <2>3. Remembered(g)'
    BY <1>9, <2>1 DEF Remembered, Before, During
  <2>4. Reported(g)'
    BY <1>9, <2>1, <2>2 DEF Remembered, Reported
  <2> QED
    BY <2>3, <2>4
<1>10. CASE Returns(g) /\ cancelledAt'[g] = cancelledAt[g]
  <2>1. Remembered(g)'
    BY <1>10 DEF Returns, Remembered, Before, During
  <2>2. Reported(g)'
    BY <1>10 DEF Returns, Remembered, Reported, Before
  <2> QED
    BY <2>1, <2>2
<1> QED
  BY <1>4, <1>5, <1>6, <1>7, <1>8, <1>9, <1>10 DEF Moves

(* Every step moves one call and leaves the others.                        *)
LEMMA EveryStepMoves ==
    ASSUME Inv, Next
    PROVE  \A g \in Goroutines : Moves(g)
<1>1. CallsTyped
  BY DEF Inv
<1>2. ASSUME UNCHANGED <<phase, ctx, wire, out>>
      PROVE  \A g \in Goroutines : Moves(g)
  BY <1>2 DEF Moves, GoesOn, Same
<1>3. CASE \E t \in Target : Renew(t)
  BY <1>2, <1>3 DEF Renew
<1>4. CASE SetUp /\ UNCHANGED <<storeVars, phase, job, ctx, wire, reply, body, out>>
  BY <1>2, <1>4
<1>5. ASSUME NEW g \in Goroutines, Moves(g),
             \A h \in Goroutines : h # g => Same(h) /\ phase'[h] = phase[h]
      PROVE  \A h \in Goroutines : Moves(h)
  BY <1>5 DEF Moves, GoesOn
<1>6. ASSUME NEW g \in Goroutines, NEW id \in Calls, NEW n \in Names, NEW x \in {"none", "live"},
             NEW setter \in SettersOf(id), Begin(g, id, n, setter, x)
      PROVE  \A h \in Goroutines : Moves(h)
  <2>1. Starts(g)
    BY <1>1, <1>6 DEF Begin, Goto, Starts, CallsTyped
  <2>2. \A h \in Goroutines : h # g => Same(h) /\ phase'[h] = phase[h]
    BY <1>1, <1>6 DEF Begin, Goto, Same, CallsTyped
  <2> QED
    BY <1>5, <2>1, <2>2 DEF Moves
<1>7. ASSUME NEW g \in Goroutines, Cancel(g)
      PROVE  \A h \in Goroutines : Moves(h)
  <2>1. Cancels(g)
    BY <1>1, <1>7 DEF Cancel, Cancels, CallsTyped
  <2>2. \A h \in Goroutines : h # g => Same(h) /\ phase'[h] = phase[h]
    BY <1>1, <1>7 DEF Cancel, Same, CallsTyped
  <2> QED
    BY <1>5, <2>1, <2>2 DEF Moves
<1>8. ASSUME NEW g \in Goroutines,
             \/ AskCredentials(g) \/ UseServiceAccount(g) \/ TakeCredentials(g)
             \/ SendNothing(g) \/ LoseConnection(g) \/ Answer(g)
      PROVE  \A h \in Goroutines : Moves(h)
  <2>1. UNCHANGED <<ctx, wire, out>>
    BY <1>8 DEF AskCredentials, UseServiceAccount, TakeCredentials, SendNothing,
                LoseConnection, Answer
  <2>2. PICK p \in {"credentials", "ready", "failed", "answered"} :
            /\ phase' = [phase EXCEPT ![g] = p]
            /\ \/ phase[g] \in Before /\ p \in Before
               \/ phase[g] \in {"ready", "sent"} /\ p = "failed"
               \/ phase[g] = "sent" /\ p = "answered"
    BY <1>8 DEF AskCredentials, UseServiceAccount, TakeCredentials, SendNothing,
                LoseConnection, Answer, Goto, Before
  <2>3. phase'[g] = p /\ \A h \in Goroutines : h # g => phase'[h] = phase[h]
    BY <1>1, <2>2 DEF CallsTyped
  <2>4. \A h \in Goroutines : Same(h)
    BY <2>1 DEF Same
  <2>5. GoesOn(g)
    BY <2>2, <2>3, <2>4 DEF GoesOn
  <2> QED
    BY <1>5, <2>3, <2>4, <2>5 DEF Moves
<1>9. ASSUME NEW g \in Goroutines, Send(g)
      PROVE  \A h \in Goroutines : Moves(h)
  <2>1. Sends(g)
    BY <1>1, <1>9 DEF Send, Goto, Sends, CallsTyped
  <2>2. \A h \in Goroutines : h # g => Same(h) /\ phase'[h] = phase[h]
    BY <1>1, <1>9 DEF Send, Goto, Same, CallsTyped
  <2> QED
    BY <1>5, <2>1, <2>2 DEF Moves
<1>10. ASSUME NEW g \in Goroutines, ReportError(g)
       PROVE  \A h \in Goroutines : Moves(h)
  <2>1. Reports(g)
    BY <1>1, <1>10 DEF ReportError, Report, Goto, Reports, CallsTyped
  <2>2. \A h \in Goroutines : h # g => Same(h) /\ phase'[h] = phase[h]
    BY <1>1, <1>10 DEF ReportError, Report, Goto, Same, CallsTyped
  <2> QED
    BY <1>5, <2>1, <2>2 DEF Moves
<1>11. ASSUME NEW g \in Goroutines, NEW o, Return(g, o),
              \/ phase[g] \in Before /\ o = "rejected"
              \/ phase[g] = "erred" /\ o = out[g]
              \/ phase[g] = "answered" /\ o \notin {"sendError", "contextError"}
       PROVE  \A h \in Goroutines : Moves(h)
  <2>1. /\ phase'[g] = "returned" /\ ctx' = ctx /\ wire'[g] = NoRequest /\ out'[g] = o
        /\ \A h \in Goroutines : h # g => Same(h) /\ phase'[h] = phase[h]
    BY <1>1, <1>11 DEF Return, Goto, Same, CallsTyped
  <2>2. Returns(g)
    BY <1>11, <2>1 DEF Returns
  <2> QED
    BY <1>5, <2>1, <2>2 DEF Moves
<1>12. ASSUME NEW g \in Goroutines,
              \/ NotImplemented(g) \/ Reject(g) \/ NoCredentials(g) \/ ReturnError(g)
              \/ NotModified(g) \/ HttpError(g) \/ ReturnEmpty(g)
       PROVE  \A h \in Goroutines : Moves(h)
  BY <1>11, <1>12 DEF NotImplemented, Reject, NoCredentials, ReturnError, NotModified,
                      HttpError, ReturnEmpty, Before
<1>13. ASSUME NEW g \in Goroutines, DecodeResponse(g)
       PROVE  \A h \in Goroutines : Moves(h)
  <2>1. reply[g] \in Replies /\ reply[g].status = "ok" /\ phase[g] = "answered"
    BY <1>13 DEF DecodeResponse, Inv, Progress
  <2>2. reply[g].content \in {"json", "null", "broken"}
    BY <2>1 DEF Replies
  <2>3. [json |-> "value", null |-> "nothing", broken |-> "decodeError"][reply[g].content]
           \notin {"sendError", "contextError"}
    BY <2>2
  <2> QED
    BY <1>11, <1>13, <2>1, <2>3 DEF DecodeResponse
<1>14. ASSUME NEW g \in Goroutines, GetCredentials(g)
       PROVE  \A h \in Goroutines : Moves(h)
  BY <1>2, <1>14 DEF GetCredentials
<1> QED
  BY <1>3, <1>4, <1>6, <1>7, <1>8, <1>9, <1>10, <1>12, <1>13, <1>14 DEF Next, OwnStep

LEMMA HistoryQuiet ==
    ASSUME HistoryInv, UNCHANGED historyVars
    PROVE  HistoryInv'
<1>1. UNCHANGED <<phase, ctx, wire, out, cancelledAt>>
  BY DEF historyVars, vars
<1> QED
  BY <1>1 DEF HistoryInv, Remembered, Reported

(* A call whose context is cancelled before its request is sent, while     *)
(* doRequest (iot.go) works or waits for credentials, sends nothing, and   *)
(* of the calls that fail in SendRequest (send.go 60-69) those that were   *)
(* cancelled before the select report it, and no others.                   *)
THEOREM CancellationIsReported == HistorySpec => []CancellationReported
<1>1. HistorySpec => Spec
  <2>1. HistoryInit => Init
    BY DEF HistoryInit
  <2>2. [HistoryNext]_historyVars => [Next]_vars
    BY DEF HistoryNext, historyVars
  <2> QED
    BY <2>1, <2>2, PTL DEF HistorySpec, Spec
<1>2. HistoryInit => HistoryInv
  BY DEF HistoryInit, Init, HistoryInv, Remembered, Reported, Before, During
<1>3. Inv /\ HistoryInv /\ [HistoryNext]_historyVars => HistoryInv'
  <2> SUFFICES ASSUME Inv, HistoryInv, [HistoryNext]_historyVars
               PROVE  HistoryInv'
    OBVIOUS
  <2>1. CASE HistoryNext
    <3>1. ASSUME NEW g \in Goroutines PROVE Remembered(g)' /\ Reported(g)'
      <4>1. Remembered(g) /\ Reported(g)
        BY DEF HistoryInv
      <4>2. Moves(g)
        BY <2>1, EveryStepMoves DEF HistoryNext
      <4>3. Remembers(g)
        BY <2>1 DEF HistoryNext, Remembers
      <4> QED
        BY <4>1, <4>2, <4>3, HistoryKept
    <3> QED
      BY <3>1 DEF HistoryInv
  <2>2. CASE UNCHANGED historyVars
    BY <2>2, HistoryQuiet
  <2> QED
    BY <2>1, <2>2
<1>4. HistoryInv => CancellationReported
  BY DEF HistoryInv, Reported, CancellationReported
<1> QED
  BY <1>1, <1>2, <1>3, <1>4, Invariant, PTL DEF HistorySpec

(* A request, of any of the calls and on any name, means that call on that *)
(* resource and nothing else, save the project where no name is sent,      *)
(* whatever credentials were cached, renewed or asked for by other         *)
(* goroutines meanwhile (doRequest of each call, and                       *)
(* GetRegistryCredentials, iot.go 96-135).                                 *)
THEOREM RequestsLoseOnlyProject == Spec => []OnlyProjectLost
<1>1. ASSUME Inv, Fits, NEW g \in Goroutines, phase[g] = "sent", wire[g].account # Blank
      PROVE  Meanings(wire[g]) =
                {<<job[g].id, ResourceName(Kind(g), n)>> : n \in Readings(g)}
  <2> DEFINE id == job[g].id
             n == job[g].name
             r == wire[g]
             Means(i, m) ==
                LET k == CallTable[i]
                IN  /\ k.built
                    /\ r = [Request(k, m, NoSetter, r.account) EXCEPT !.options = r.options]
                    /\ IF k.account = "service" THEN r.account = ServiceAccount
                       ELSE r.account # ServiceAccount /\ r.account.target = TargetOf(m)
  <2>1. id \in CallIds /\ n \in Names
    BY <1>1, CallsAssumption DEF Inv, CallsTyped
  <2>2. PICK a : /\ a = Blank \/ GoesWith(CallTable[id], n, a)
                 /\ r = Request(CallTable[id], n, job[g].setter, a)
    BY <1>1 DEF Fits, JobFits, Kind
  <2>3. r.account = a
    BY <2>2, RequestParts
  <2>4. GoesWith(CallTable[id], n, a)
    BY <1>1, <2>2, <2>3
(* Another name of the same registry, sent or not sent as n is.            *)
  <2>5. ASSUME NEW m \in Readings(g)
        PROVE  /\ m \in Names /\ TargetOf(m) = TargetOf(n)
               /\ \A x : Request(CallTable[id], m, x, a) = Request(CallTable[id], n, x, a)
    <3>1. CASE CallTable[id].nameParam # ""
      <4>1. m = n
        BY <3>1 DEF Readings, Kind
      <4> QED
        BY <2>1, <4>1
    <3>2. CASE CallTable[id].nameParam = ""
      <4>1. PICK p \in Projects : m = [n EXCEPT !.project = p]
        BY <3>2 DEF Readings, Kind
      <4>2. m \in Names /\ m.region = n.region /\ m.registry = n.registry
        BY <2>1, <4>1 DEF Names
      <4> HIDE DEF id, n
      <4> QED
        BY <3>2, <4>2 DEF TargetOf, Request
    <3> QED
      BY <3>1, <3>2
  <2>6. ASSUME NEW m \in Readings(g)
        PROVE  Means(id, m)
    <3>1. /\ m \in Names /\ TargetOf(m) = TargetOf(n)
          /\ Request(CallTable[id], m, job[g].setter, a) = r
          /\ Request(CallTable[id], m, NoSetter, a) = Request(CallTable[id], n, NoSetter, a)
      BY <2>2, <2>5
    <3>2. r = [Request(CallTable[id], n, NoSetter, a) EXCEPT !.options = r.options]
      BY <2>2, RequestParts
    <3>3. r = [Request(CallTable[id], m, NoSetter, r.account) EXCEPT !.options = r.options]
      BY <2>3, <3>1, <3>2
    <3>4. CallTable[id].account = "service" => r.account = ServiceAccount
      BY <2>3, <2>4 DEF GoesWith
    <3>5. CallTable[id].account # "service" =>
             r.account # ServiceAccount /\ r.account.target = TargetOf(m)
      BY <2>3, <2>4, <3>1, CredentialsAssumption DEF GoesWith, Credentials
    <3> QED
      BY <2>4, <3>3, <3>4, <3>5 DEF GoesWith
  <2>7. ASSUME NEW i \in CallIds, NEW m \in Names, Means(i, m)
        PROVE  \E z \in Readings(g) :
                  i = id /\ ResourceName(CallTable[i], m) = ResourceName(CallTable[id], z)
    <3>1. i \in BuiltIds
      BY <2>7, BuiltCalls
    <3>2. a = ServiceAccount \/ a \in Issued
      BY <2>4 DEF GoesWith
    <3>3. GoesWith(CallTable[i], m, a)
      BY <2>3, <2>7, <3>1, <3>2, Accounts DEF GoesWith
    <3>4. Request(CallTable[id], n, job[g].setter, a)
            = [Request(CallTable[i], m, NoSetter, a)
                 EXCEPT !.options = Request(CallTable[id], n, job[g].setter, a).options]
      BY <2>2, <2>3, <2>7
    <3> HIDE DEF id, n, r, Means
    <3>5. /\ id = i
          /\ CallTable[id].nameParam = "" => TargetOf(n) = TargetOf(m)
          /\ CallTable[id].nameParam # "" =>
                ResourceName(CallTable[id], n) = ResourceName(CallTable[i], m)
      <4>1. GoesWith(CallTable[id], n, a)
        BY <2>4
      <4>2. SameButProject(id, n, i, m)
        BY <2>1, <2>7, <3>3, <3>4, <4>1, RequestsDiffer
      <4> QED
        BY <4>2 DEF SameButProject
    <3>6. CASE CallTable[id].nameParam # ""
      <4>1. n \in Readings(g)
        BY <3>6 DEF Readings, Kind, id, n
      <4> QED
        BY <3>5, <3>6, <4>1
    <3>7. CASE CallTable[id].nameParam = ""
      <4> DEFINE z == [n EXCEPT !.project = m.project]
      <4>1. m.project \in Projects /\ n.region = m.region /\ n.registry = m.registry
        BY <2>7, <3>5, <3>7 DEF Names, TargetOf
      <4>2. z \in Readings(g)
        BY <3>7, <4>1 DEF Readings, Kind, id, n
      <4>3. z.project = m.project /\ z.region = m.region /\ z.registry = m.registry
        BY <2>1, <4>1 DEF Names
      <4>4. CallTable[id].resource = "registry"
        BY <2>1, <2>4, <3>7, BuiltCalls, NamelessCalls DEF GoesWith
      <4> HIDE DEF z
      <4>5. ResourceName(CallTable[id], m) = ResourceName(CallTable[id], z)
        BY <4>3, <4>4 DEF ResourceName
      <4> QED
        BY <3>5, <4>2, <4>5
    <3> QED
      BY <3>6, <3>7
  <2>8. Meanings(r) = {<<q[1], ResourceName(CallTable[q[1]], q[2])>> :
                          q \in {z \in CallIds \X Names : Means(z[1], z[2])}}
    BY DEF Meanings
  <2>9. ASSUME NEW q \in {z \in CallIds \X Names : Means(z[1], z[2])}
        PROVE  <<q[1], ResourceName(CallTable[q[1]], q[2])>>
                  \in {<<id, ResourceName(CallTable[id], z)>> : z \in Readings(g)}
    <3> HIDE DEF Means, r, id
    <3>1. q[1] \in CallIds /\ q[2] \in Names /\ Means(q[1], q[2])
      OBVIOUS
    <3> QED
      BY <2>7, <3>1
  <2>10. ASSUME NEW z \in Readings(g)
         PROVE  <<id, ResourceName(CallTable[id], z)>> \in Meanings(r)
    <3> HIDE DEF Means, r, id
    <3>1. <<id, z>> \in {q \in CallIds \X Names : Means(q[1], q[2])}
      BY <2>1, <2>5, <2>6
    <3> QED
      BY <2>8, <3>1
  <2> HIDE DEF Means, r, id
  <2>11. Meanings(r) = {<<id, ResourceName(CallTable[id], z)>> : z \in Readings(g)}
    BY <2>8, <2>9, <2>10
  <2> QED
    BY <2>11 DEF Kind, r, id
<1>2. Inv /\ Fits => OnlyProjectLost
  BY <1>1 DEF OnlyProjectLost
<1>3. Spec => []Fits
  <2>1. Init => Fits
    BY InitFits
  <2>2. Inv /\ Fits /\ [Next]_vars => Fits'
    BY NextFits
  <2> QED
    BY <2>1, <2>2, Invariant, PTL DEF Spec
<1> QED
  BY <1>2, <1>3, Invariant, PTL
=============================================================================
