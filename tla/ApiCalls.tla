------------------------------ MODULE ApiCalls ------------------------------
(***************************************************************************)
(* One API call after another in each of several goroutines that share a   *)
(* Service: the builder, doRequest and Do of iot.go, SendRequest and       *)
(* DecodeResponse of gensupport, and cancellation of the call's context.   *)
(* The Service is the one that NewService, in ServiceSetup, returned.      *)
(*                                                                         *)
(* GetRegistryCredentials is the CredentialStore, which the detailed       *)
(* RegistryCredentials implements; registries have distinct cache keys     *)
(* here.  The IoT server answers a request in any way HTTP allows.         *)
(***************************************************************************)
EXTENDS CallTable, ServiceSetup

CONSTANTS Goroutines,      \* goroutines, each making one call at a time
          Projects,
          Regions,
          Registries,
          Devices,
          Calls,           \* the calls made in this instance
          Setters,         \* the optional setters used in this instance
          NoSetter,        \* no optional setter used
          NoRequest,       \* nothing sent yet
          Failed, MaxEpoch  \* as in CredentialStore

Target == [region : Regions, registry : Registries]
Names == [project : Projects, region : Regions, registry : Registries, device : Devices]
Itself(t) == t
Issued == [target : Target, epoch : 0 .. MaxEpoch]
Credentials == Issued \cup {Blank}

ASSUME CallsAssumption == Calls # {} /\ Calls \subseteq CallIds

ASSUME NamesAssumption ==
    Projects # {} /\ Regions # {} /\ Registries # {} /\ Devices # {}

ASSUME CredentialsAssumption ==
    /\ MaxEpoch \in Nat
    /\ Nil \notin Credentials \cup {ServiceAccount, Failed}
    /\ Blank \notin Issued
    /\ Failed \notin Credentials
    /\ ServiceAccount \notin Credentials

VARIABLES stored, epoch, status, asked, since, outcome,  \* CredentialStore
          phase,  \* phase[g]: where g is in Do
          job,    \* job[g]: the call g makes: its id, name and setter
          ctx,    \* ctx[g]: the call's context: "none", "live" or "cancelled"
          wire,   \* wire[g]: the request g's call sent, or NoRequest
          reply,  \* reply[g]: status and content of the response
          body,   \* body[g]: response body: "none", "open" or "closed"
          out     \* out[g]: what Do returns

storeVars == <<stored, epoch, status, asked, since, outcome>>
vars == <<storeVars, setupVars, phase, job, ctx, wire, reply, body, out>>

Store == INSTANCE CredentialStore WITH
            Callers <- Goroutines, Targets <- Target, Keys <- Target, KeyOf <- Itself

Kind(g) == CallTable[job[g].id]

(* What doRequest takes of a name for the credentials: not the project,    *)
(* which is the service account's own.                                     *)
TargetOf(n) == [region |-> n.region, registry |-> n.registry]

(* The name as the caller writes it.                                       *)
ResourceName(k, n) ==
    [location |-> <<n.project, n.region>>,
     registry |-> <<n.project, n.region, n.registry>>,
     device |-> <<n.project, n.region, n.registry, n.device>>][k.resource]

(* What reaches the server: webhook, credentials and URL parameters.       *)
Request(k, n, setter, account) ==
    [verb |-> k.verb, endpoint |-> k.endpoint, account |-> account,
     method |-> k.method,
     named |-> IF k.nameParam = "" THEN <<>> ELSE <<k.nameParam, ResourceName(k, n)>>,
     options |-> {setter} \cap k.reach]

Replies ==
    [status : {"ok"}, content : {"json", "null", "broken"}]
    \cup [status : {"noContent", "notModified", "error"}, content : {"none"}]

NoReply == [status |-> "none", content |-> "none"]

Init ==
    /\ Store!Init
    /\ SetupInit
    /\ phase = [g \in Goroutines |-> "idle"]
    /\ job = [g \in Goroutines |-> [id |-> CHOOSE i \in Calls : TRUE,
                                   name |-> CHOOSE n \in Names : TRUE,
                                   setter |-> NoSetter]]
    /\ ctx = [g \in Goroutines |-> "none"]
    /\ wire = [g \in Goroutines |-> NoRequest]
    /\ reply = [g \in Goroutines |-> NoReply]
    /\ body = [g \in Goroutines |-> "none"]
    /\ out = [g \in Goroutines |-> "none"]

Goto(g, p) == phase' = [phase EXCEPT ![g] = p]

(* Do returns o; its request and its response are locals.                  *)
Return(g, o) ==
    /\ Goto(g, "returned")
    /\ out' = [out EXCEPT ![g] = o]
    /\ wire' = [wire EXCEPT ![g] = NoRequest]
    /\ reply' = [reply EXCEPT ![g] = NoReply]
    /\ UNCHANGED <<job, ctx>>

Resting(g) == phase[g] \in {"idle", "returned"}

(***************************************************************************)
(* The caller.                                                             *)
(***************************************************************************)
(* Build a call, perhaps use one setter and Context, and start Do.         *)
Begin(g, id, n, setter, x) ==
    /\ setup = "ready"
    /\ Resting(g)
    /\ Goto(g, "building")
    /\ job' = [job EXCEPT ![g] = [id |-> id, name |-> n, setter |-> setter]]
    /\ ctx' = [ctx EXCEPT ![g] = x]
    /\ body' = [body EXCEPT ![g] = "none"]
    /\ out' = [out EXCEPT ![g] = "none"]
    /\ UNCHANGED <<storeVars, setupVars, wire, reply>>

SettersOf(id) ==
    {NoSetter} \cup (Setters \cap (CallTable[id].reach \cup CallTable[id].lost))

Cancel(g) ==
    /\ ~Resting(g)
    /\ ctx[g] = "live"
    /\ ctx' = [ctx EXCEPT ![g] = "cancelled"]
    /\ UNCHANGED <<storeVars, setupVars, phase, job, wire, reply, body, out>>

(***************************************************************************)
(* doRequest up to the credentials.                                        *)
(***************************************************************************)
NotImplemented(g) ==
    /\ phase[g] = "building"
    /\ ~Kind(g).built
    /\ Return(g, "rejected")
    /\ UNCHANGED <<storeVars, setupVars, body>>

(* The content cannot be marshalled, or the name does not match its        *)
(* template.                                                               *)
Reject(g) ==
    /\ phase[g] = "building"
    /\ Kind(g).built
    /\ Kind(g).content \/ Kind(g).account = "registry"
    /\ Return(g, "rejected")
    /\ UNCHANGED <<storeVars, setupVars, body>>

UseServiceAccount(g) ==
    /\ phase[g] = "building"
    /\ Kind(g).built
    /\ Kind(g).account = "service"
    /\ Goto(g, "ready")
    /\ UNCHANGED <<storeVars, setupVars, job, ctx, wire, reply, body, out>>

AskCredentials(g) ==
    /\ phase[g] = "building"
    /\ Kind(g).built
    /\ Kind(g).account = "registry"
    /\ Store!Invoke(g, TargetOf(job[g].name))
    /\ Goto(g, "credentials")
    /\ UNCHANGED <<setupVars, job, ctx, wire, reply, body, out>>

(* GetRegistryCredentials at work.  It knows nothing of the context.       *)
GetCredentials(g) ==
    /\ phase[g] = "credentials"
    /\ Store!Hit(g) \/ Store!Refresh(g) \/ Store!RefreshBlank(g) \/ Store!Fail(g)
    /\ UNCHANGED <<setupVars, phase, job, ctx, wire, reply, body, out>>

(* Mutants: failed credentials are asked for again; the result is used     *)
(* before GetRegistryCredentials returned.                                 *)
RetryCredentials(g) ==
    /\ phase[g] = "credentials"
    /\ status[g] = "returned"
    /\ outcome[g] = Failed
    /\ Goto(g, "building")
    /\ UNCHANGED <<storeVars, setupVars, job, ctx, wire, reply, body, out>>

TakeCredentialsEarly(g) ==
    /\ phase[g] = "credentials"
    /\ outcome[g] # Failed
    /\ Goto(g, "ready")
    /\ UNCHANGED <<storeVars, setupVars, job, ctx, wire, reply, body, out>>

NoCredentials(g) ==
    /\ phase[g] = "credentials"
    /\ status[g] = "returned"
    /\ outcome[g] = Failed
    /\ Return(g, "rejected")
    /\ UNCHANGED <<storeVars, setupVars, body>>

TakeCredentials(g) ==
    /\ phase[g] = "credentials"
    /\ status[g] = "returned"
    /\ outcome[g] # Failed
    /\ Goto(g, "ready")
    /\ UNCHANGED <<storeVars, setupVars, job, ctx, wire, reply, body, out>>

Account(g) == IF Kind(g).account = "service" THEN serviceAccount ELSE outcome[g]

(***************************************************************************)
(* SendRequest.  Credentials without a URL make one with no scheme and no  *)
(* host, and with a cancelled context the transport does not start:        *)
(* client.Do fails with nothing sent.  Blank credentials may lack the URL, *)
(* or only the token or the system key.                                    *)
(***************************************************************************)
Send(g) ==
    /\ phase[g] = "ready"
    /\ ctx[g] # "cancelled"
    /\ wire' = [wire EXCEPT ![g] =
                   Request(Kind(g), job[g].name, job[g].setter, Account(g))]
    /\ Goto(g, "sent")
    /\ UNCHANGED <<storeVars, setupVars, job, ctx, reply, body, out>>

SendNothing(g) ==
    /\ phase[g] = "ready"
    /\ Account(g) = Blank \/ ctx[g] = "cancelled"
    /\ Goto(g, "failed")
    /\ UNCHANGED <<storeVars, setupVars, job, ctx, wire, reply, body, out>>

(* The IoT server's response headers arrive.                               *)
Answer(g) ==
    /\ phase[g] = "sent"
    /\ reply' \in {[reply EXCEPT ![g] = r] : r \in Replies}
    /\ body' = [body EXCEPT ![g] = "open"]
    /\ Goto(g, "answered")
    /\ UNCHANGED <<storeVars, setupVars, job, ctx, wire, out>>

(* The connection fails, a redirect is refused (its response is closed and *)
(* dropped by Do), or the transport drops a cancelled request.             *)
LoseConnection(g) ==
    /\ phase[g] = "sent"
    /\ Goto(g, "failed")
    /\ UNCHANGED <<storeVars, setupVars, job, ctx, wire, reply, body, out>>

(* client.Do has returned an error: send looks at the context and chooses  *)
(* the error to report.                                                    *)
Report(g, error) ==
    /\ phase[g] = "failed"
    /\ Goto(g, "erred")
    /\ out' = [out EXCEPT ![g] = error]
    /\ UNCHANGED <<storeVars, setupVars, job, ctx, wire, reply, body>>

(* Mutant: the transport's error is reported as it is.                     *)
ReportSendError(g) == Report(g, "sendError")

ReportError(g) == Report(g, IF ctx[g] = "cancelled" THEN "contextError" ELSE "sendError")

(* Do returns the error it was given.                                      *)
ReturnError(g) ==
    /\ phase[g] = "erred"
    /\ Return(g, out[g])
    /\ UNCHANGED <<storeVars, setupVars, body>>

(***************************************************************************)
(* The rest of Do.  Every branch closes the body: the first explicitly,    *)
(* the others by the deferred Close.                                       *)
(***************************************************************************)
CloseBody(g) == body' = [body EXCEPT ![g] = "closed"]

(* Mutant: a 304 returns before the deferred Close and does not close.     *)
NotModifiedLeaky(g) ==
    /\ phase[g] = "answered"
    /\ reply[g].status = "notModified"
    /\ Return(g, "notModified")
    /\ UNCHANGED <<storeVars, setupVars, body>>

NotModified(g) ==
    /\ phase[g] = "answered"
    /\ reply[g].status = "notModified"
    /\ CloseBody(g)
    /\ Return(g, "notModified")
    /\ UNCHANGED <<storeVars, setupVars>>

HttpError(g) ==
    /\ phase[g] = "answered"
    /\ reply[g].status = "error"
    /\ CloseBody(g)
    /\ Return(g, "httpError")
    /\ UNCHANGED <<storeVars, setupVars>>

(* 204, or a call whose response is Empty: nothing is decoded.             *)
ReturnEmpty(g) ==
    /\ phase[g] = "answered"
    /\ \/ reply[g].status = "noContent"
       \/ reply[g].status = "ok" /\ ~Kind(g).decodes
    /\ CloseBody(g)
    /\ Return(g, "value")
    /\ UNCHANGED <<storeVars, setupVars>>

(* The target is a **T: JSON null sets the *T it points to to nil.  A body *)
(* that a cancellation cuts short is broken as well.                       *)
DecodeResponse(g) ==
    /\ phase[g] = "answered"
    /\ reply[g].status = "ok"
    /\ Kind(g).decodes
    /\ CloseBody(g)
    /\ Return(g, [json |-> "value", null |-> "nothing", broken |-> "decodeError"]
                 [reply[g].content])
    /\ UNCHANGED <<storeVars, setupVars>>

(* The credential server renews a registry's credentials.                  *)
Renew(t) ==
    /\ Store!Renew(t)
    /\ UNCHANGED <<setupVars, phase, job, ctx, wire, reply, body, out>>

(***************************************************************************)
(* The specification.                                                      *)
(***************************************************************************)
(* What the goroutine does on its own, and what its transport does with a  *)
(* request whose context is cancelled.                                     *)
OwnStep(g) ==
    \/ NotImplemented(g) \/ Reject(g) \/ UseServiceAccount(g)
    \/ AskCredentials(g) \/ NoCredentials(g) \/ TakeCredentials(g)
    \/ Send(g) \/ SendNothing(g) \/ ReportError(g) \/ ReturnError(g)
    \/ NotModified(g) \/ HttpError(g) \/ ReturnEmpty(g) \/ DecodeResponse(g)
    \/ ctx[g] = "cancelled" /\ LoseConnection(g)

Next ==
    \/ \E g \in Goroutines :
          \/ \E id \in Calls, n \in Names, x \in {"none", "live"} :
                \E setter \in SettersOf(id) : Begin(g, id, n, setter, x)
          \/ Cancel(g)
          \/ OwnStep(g)
          \/ GetCredentials(g)
          \/ Answer(g)
          \/ LoseConnection(g)
    \/ \E t \in Target : Renew(t)
    \/ SetUp /\ UNCHANGED <<storeVars, phase, job, ctx, wire, reply, body, out>>

Spec == Init /\ [][Next]_vars

(* The client alone: neither server is obliged to answer.                  *)
ClientFairness == \A g \in Goroutines : WF_vars(OwnStep(g))

(* The IoT server answers every request, or the connection breaks.         *)
IoTFairness == \A g \in Goroutines : WF_vars(Answer(g) \/ LoseConnection(g))

ClientSpec == Spec /\ ClientFairness
-----------------------------------------------------------------------------
(***************************************************************************)
(* Properties.                                                             *)
(***************************************************************************)
(* Every variable has its type, and a call that is about to be sent has    *)
(* credentials, whichever way the Service got its own.                     *)
TypeOK ==
    /\ setup \in {"none", "applying", "ready", "failed"}
    /\ todo \in Seq(Option)
    /\ serviceAccount \in {Nil, ServiceAccount, Blank}
    /\ phase \in [Goroutines -> {"idle", "building", "credentials", "ready",
                                 "sent", "failed", "erred", "answered", "returned"}]
    /\ job \in [Goroutines -> [id : Calls, name : Names,
                               setter : Setters \cup {NoSetter}]]
    /\ ctx \in [Goroutines -> {"none", "live", "cancelled"}]
    /\ reply \in [Goroutines -> Replies \cup {NoReply}]
    /\ body \in [Goroutines -> {"none", "open", "closed"}]
    /\ out \in [Goroutines -> {"none", "value", "nothing", "rejected", "sendError",
                               "contextError", "decodeError", "notModified", "httpError"}]
    /\ \A g \in Goroutines : phase[g] = "ready" => Account(g) # Nil

(* No path through Do returns with the response body still open, which     *)
(* would leak its connection.                                              *)
BodiesClosed == \A g \in Goroutines : Resting(g) => body[g] # "open"

(* The call id and name that a server can read out of a request: those     *)
(* whose own request would be this one, with credentials of their own.     *)
Meanings(request) ==
    LET Means(id, n) ==
            LET k == CallTable[id]
            IN  /\ k.built
                /\ request = [Request(k, n, NoSetter, request.account)
                                 EXCEPT !.options = request.options]
                /\ IF k.account = "service"
                   THEN request.account = ServiceAccount
                   ELSE /\ request.account # ServiceAccount
                        /\ request.account.target = TargetOf(n)
    IN  {<<p[1], ResourceName(CallTable[p[1]], p[2])>> :
            p \in {q \in CallIds \X Names : Means(q[1], q[2])}}

(* The names that g's request may stand for: its own if it is sent, else   *)
(* that and those of the same registry in other projects.                  *)
Readings(g) ==
    IF Kind(g).nameParam # "" THEN {job[g].name}
    ELSE {[job[g].name EXCEPT !.project = p] : p \in Projects}

(* The webhook, the credentials and the URL parameters together tell the   *)
(* server which call on which resource was meant, though some calls send   *)
(* no name, some no method, and many share an endpoint: no request of one  *)
(* call can be taken for another, nor for another location's, registry's   *)
(* or device's.  Only the project is lost, and only by the calls that send *)
(* no name.  Credentials that lack a property need not tell a registry.    *)
OnlyProjectLost ==
    \A g \in Goroutines : phase[g] = "sent" /\ wire[g].account # Blank =>
        Meanings(wire[g]) =
            {<<job[g].id, ResourceName(Kind(g), n)>> : n \in Readings(g)}

(* A call on the service account needs no registry credentials, so it      *)
(* returns even while the credential server keeps other calls waiting: no  *)
(* goroutine is in such a call for ever.                                   *)
AdminCallsReturn ==
    \A g \in Goroutines :
        []<>(job[g].id \in {"create", "delete", "list"} => Resting(g))

(* Every call returns, unless its GetRegistryCredentials never does.  That *)
(* one returns if the credential server answers (EveryCallReturns of       *)
(* RegistryCredentials).                                                   *)
EveryCallReturns ==
    \A g \in Goroutines :
        \/ []<>Resting(g)
        \/ <>[](phase[g] = "credentials" /\ status[g] = "pending")

(* Each Context method promises that cancellation aborts any pending HTTP  *)
(* request, so a cancelled call returns even if no server answers.         *)
CancelledCallsReturn ==
    \A g \in Goroutines : (ctx[g] = "cancelled" /\ ~Resting(g)) ~> Resting(g)
=============================================================================
