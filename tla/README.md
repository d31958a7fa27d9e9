# Verification of go-iot

TLA+ models of the ClearBlade IoT Core client library for Go (`github.com/clearblade/go-iot`),
TLC configurations that check them on small instances, and TLAPS proofs of the
theorems that hold for every instance.

The library is a client. A program creates one `Service`, builds *calls* from it
(`service.Projects.Locations.Registries.Get(name)`), sets options on a call, and
starts it with `Do`. All goroutines of the program share the `Service`; the only
state they share through it is the cache of registry credentials, and that is
where the concurrency of this library lives. Everything else is what a single
call does with a network that may answer anything, or nothing.

## 1. Inventory

| Component | Source | State | Operations | Status |
|---|---|---|---|---|
| Registry credential cache | `src/iot.go` 64-136, 220-232 | `RegistryUserCache`, `RegistryUserCacheLock`, per call: key, request, response | `GetRegistryCredentials` | modelled, safety proved |
| API calls | `src/iot.go` 1957-5800 | per call object: name, `urlParams_`, `header_`, `ctx_`, `ifNoneMatch_`, content | 23 builders, their setters, `doRequest`, `Do` | safety proved; reuse of one call object is not modelled |
| Single request sending | `src/cblib/gensupport/send.go` 44-70, 171-178 | none of its own | `SendRequest`, `send`, `DecodeResponse` | modelled |
| Paging | `src/iot.go` 1123-1179, 2776-2795, 4182-4201, 5753-5800 | the call's `pageToken` and context | `Pages`, `UnmarshalJSON` of a registry list | modelled, safety proved |
| Service construction and options | `src/iot.go` 64-96, 138-218 | `Service` fields | `NewService`, three options, the credentials file; `New` | modelled but for `New` |
| Schema types | `src/iot.go` 327-1955 | plain structs | `MarshalJSON` of each of 31 | modelled as the instances of the next row |
| Selective JSON marshalling | `src/cblib/gensupport/json.go` | none (pure) | `MarshalJSON`, `schemaToMap`, `includeField`, `parseJSONTag`, `initMapSlow`, `isEmptyValue` | modelled, safety proved |
| Retrying request sending | `src/cblib/gensupport/send.go` 16-43, 72-169, `retry.go`, `retryable_linux.go` | attempt, pause, last response and error | `SendRequestWithRetry`, `shouldRetry` | modelled, safety proved |
| URL parameters, API errors | `src/cblib/gensupport/params.go`, `error.go` | a multimap | `Get`, `Set`, `SetMulti`, `Encode`, `WrapError` | parameters abstracted in `Request`; `WrapError` only decorates |
| Path templates | `src/cblib/path_template/path_template.go` | parsed segments | `NewPathTemplate`, `Match`, `Render`; `ResolveRelative` | modelled but for `ResolveRelative`, safety proved |
| URI templates | `src/cblib/third_party/uritemplates/` | - | - | third-party RFC 6570 expansion that nothing calls |

### How they interact

`Do` calls `doRequest`. For a call on a registry or a device, `doRequest` matches
the resource name against a path template, takes location and registry out of it
and calls `GetRegistryCredentials`, which answers from the cache or performs an
HTTP exchange of its own *while it holds the write lock of the cache*. Create,
delete and list of registries use the service account in the `Service` and never
touch the cache. `doRequest` then builds one webhook URL out of the credentials,
the URL parameters and the HTTP method and hands the request to
`gensupport.SendRequest`, which runs it under the call's context. `Do` sorts the
response (304, other errors, 204, JSON), closes its body and decodes it into a
pointer to the result pointer. `Pages` repeats `Do` with the token of the
previous page until a page has none.

Behaviours that are hard to get right and hard to test:

* **interleaving**: the first look at the map takes no lock; a hit is used after
  a lock is taken later; misses of the same registry race each other;
* **blocking**: the exchange with the credential server runs under the lock and
  without context or timeout, so readers and writers pile up behind it;
* **failure**: the exchange has five ways to fail, one of which (an answer that is
  not the JSON expected) is not treated as a failure at all;
* **ordering**: a context may be cancelled before the send, while it runs, or after
  it failed but before the error to report is chosen;
* **dispatch**: 23 calls share four webhook endpoints and are told apart by
  parameters that each call sets in a different place;
* **numbers**: page tokens pass through `float64`;
* **two ways to one result**: a schema is encoded by `encoding/json` or, as soon as one of
  its lists has an entry, through a map built with reflection, and both must agree;
* **inverse functions**: `Match` joins what `Render` must not repeat.

What makes each component correct:

* *Credential cache*: lock held where assumed and always released; no
  `(nil, nil)`; credentials are those of the registry asked for; an older
  credential never replaces a newer one; all of it as if each call took effect
  at one moment (`CredentialStore`).
* *API calls*: each request can be understood in only one way, but for the project of the
  calls that send no name; bodies are closed; cancellation is reported as such and takes
  effect (not while the credential server is asked: `cancel_pending`); a result or an
  error, never neither (but for a `null` body).
* *Paging*: all pages, in order, each once; the call is as it was before.
* *Retrying*: retries only what may be retried, respects the context, returns a
  response whose body can be read. No call of `iot.go` uses it: every `Do` goes through
  `SendRequest`, which tries once. `SendRequestWithRetry` is exported to the rest of the
  module and is verified for itself.
* *Marshalling*: exactly the fields that are non-empty, forced or null; null where and
  only where it was asked for; the same encoding on both paths; an error only if
  the lists contradict the values.
* *Service construction*: no `Service` without a service account, whatever the options.
* *Path templates*: templates that `Match` and `Render` can rely on; `Match` accepts
  exactly what a template stands for; `Render` and `Match` are inverse.

## 2. Modules

| Module | Role |
|---|---|
| `CredentialStore` | abstract specification of `GetRegistryCredentials` |
| `RegistryCredentials` | the function as written: mutex, map, exchange |
| `RegistryCredentialsProofs` | inductive invariant and safety theorems |
| `RegistryCredentialsRefinement` | theorem: `RegistryCredentials` implements `CredentialStore` |
| `CallTable` | what each of the 23 calls makes of its name and options |
| `ServiceSetup` | `NewService`: options, configuration file, service account |
| `ApiCalls` | goroutines making calls; composes `ServiceSetup`, `CallTable` and `CredentialStore` |
| `ApiCallsHistory` | `ApiCalls` with a record of when a context was cancelled |
| `ApiCallsProofs` | inductive invariant and safety theorems of `ApiCalls` |
| `Pages` | iterations over a list call, and what their callback may do to it |
| `PagesProofs` | inductive invariant and safety theorems of `Pages` |
| `RetrySend` | one request with retries under a context |
| `RetrySendProofs` | inductive invariant and safety theorems of `RetrySend` |
| `Schemas` | the 31 schema types: fields, tags, kinds |
| `MarshalJson` | `MarshalJSON` of `gensupport`, field by field |
| `MarshalJsonProofs` | inductive invariant and safety theorems of `MarshalJson` |
| `PathTemplate` | parser, `Match` and `Render` of path templates |
| `PathTemplateProofs` | inductive invariant and safety theorems of `PathTemplate` |
| `PathTemplateInverse` | theorem: `Match` inverts `Render` |
| `MCRegistryCredentials`, `MCApiCalls`, `MCPages`, `MCRetrySend`, `MCMarshalJson`, `MCPathTemplate` | constants, inputs and symmetry for TLC |

### RegistryCredentials

`pc[g]` is the position of goroutine `g` in `GetRegistryCredentials`:

| `pc` | code (`iot.go`) | left by |
|---|---|---|
| `check` | 100, read without lock | `CheckHit`, `CheckMiss`, `CheckFatal` |
| `rlock`, `parked` | 101 | `RLock`, or the writer that unlocks |
| `rlocked` | 102-103 | `ReturnCached` |
| `lock` | 106, waiting for its turn among writers | `AnnounceWriter` |
| `draining` | 106, waiting for readers to leave | `AcquireLock` |
| `locked`, `fetching` | 109-119 | `Send`, `Respond` |
| `replied` | 119-132 | `ReturnError`, `BeginStore` |
| `storing`, `stored` | 133, 135 and the deferred `Unlock` | `EndStore`, `ReturnFetched` |

`writer`, `readers` and `parked` are `sync.RWMutex`: a writer that waits for
readers already keeps new readers out; when it unlocks, all readers it kept out
hold the read lock at once, before any other writer. The assignment to the map is
two steps because the unlocked read can overlap it. That overlap is a data race,
and the model takes any outcome the race can have: the entry being stored is
seen, no entry is seen, or the runtime detects it and the process ends
(`crashed`).

Region and registry names are sequences of words separated by `"-"`, the only
detail of a name the key depends on. `epoch[t]` counts how often the platform
renewed the credential of registry `t`; it bounds nothing in the code and exists
so that "older" has a meaning. `since` is a history variable for the refinement.

### CredentialStore

A store with `Hit`, `Refresh`, `RefreshBlank` and `Fail`, each taking effect
between `Invoke` and the return. `Refresh` may return any credential that was
current at some moment of the call, and may replace only an entry of the same
registry that is not newer. `RefreshBlank` is the ignored `json.Unmarshal` error.
The refinement mapping (`CallStatus`, `CallOutcome`) puts the moment a call takes
effect at `EndStore` for a miss, at `ReturnCached` for a hit, and at
`ReturnError` for a failure.

### ServiceSetup

`setup` follows `NewService` (`iot.go` 176-207): `applying` while `todo` holds options
not yet applied, `failed` if one of them or the file did, `ready` once the `Service` is
returned. An option carries a text of credentials that is complete, that decodes but
lacks properties, or that does not decode; `WithHTTPClient` carries a client or nil. The
configuration file is read by `WithFileCredentials` and, if no option set the account,
at the end. Credentials that decode are accepted whatever they contain
(`incomplete` becomes `Blank`: some property is missing, it does not matter to the model
which), although the error of `iot.go:92` asks for four properties. The caller may try again after a failure.

### CallTable and ApiCalls

`CallTable` has one definition per call with the facts that tell calls apart:
HTTP method, endpoint, kind of name, whose credentials, the parameter that
carries the name, the `method` parameter, content, decoding, and which setters
reach the request (`reach`) or are accepted and dropped (`lost`).

`ApiCalls` runs calls from the table on the `Service` that `ServiceSetup` returned.
`phase[g]`: `building` (builder and the start of `doRequest`), `credentials` (inside
`GetRegistryCredentials`, which is `CredentialStore` here), `ready`, `sent`, `failed`
(`client.Do` returned an error), `erred` (the `select` of `send.go:63` has chosen the error
to report), `answered`, `returned`. The caller may cancel the context between any two of
these. The server may answer with a JSON value, `null`, broken JSON, 204, 304 or an error,
or not answer. Request and response are locals of `Do`: `Return` forgets them.

A name has a project, a location, a registry and a device. `ResourceName` is what the
caller writes and what a call that sends its name sends; `TargetOf` is what `doRequest`
takes out of it for the credentials, location and registry alone, because
`GetRegistryCredentials` asks in the service account's own project (`iot.go:110`).

With `Blank` credentials, of a registry or of the service account, the request may be
sent (the URL is there, the token or the system key is not) or refused by the transport
(a relative URL). `ApiCalls` assumes that registries have distinct cache keys; what
happens when they do not is `key_collision`'s subject.

`ApiCallsHistory` adds `cancelledAt[g]`: the context of `g`'s call was cancelled `before`
its request was sent, `during` `SendRequest` up to the choice of the error, `after` that
or after the response, or `never`. It changes nothing that a call does.

### Pages

Registries, devices and the devices of a group have a list call with a method
`Pages(ctx, f)` that calls `Do` and `f` in turn. It has no state of its own: the
position is the `pageToken` parameter of the call object, the context is the
call's, and a `defer` gives the token back. `f` is handed the page but normally
closes over the call object too, so it can set the token or start another
iteration of the same call. `frames` is therefore a stack: one record per `Pages`
that has not returned, with the token its `defer` remembers (`origin`), where it is
(`do`, `callback`, `turn`), the page it holds, that page's `next`, and the pages `f`
has got (`seen`, which only the properties read).

| action | code (`iot.go`, registries; devices alike) |
|---|---|
| `Pages` | 2779-2781: context set, token remembered |
| `Receive`, `ReceiveUndecodable`, `ReceiveNull`, `DoFails` | `Do`, 2703-2734, and `UnmarshalJSON`, 1161-1179 |
| `CallbackPageToken`, nested `Pages` | what `f` does with the call |
| `CallbackReturns`, `CallbackFails`, `CallbackPanics` | the ways `f` ends |
| `LastPage`, `NextPage`, `NilPage` | the rest of the loop's body |
| `Return` | the deferred reset of every way out, panics included |

The server holds a fixed listing and names page `p + 1` by a number, written as a
JSON number or a string. The registry decoder sends numbers through `float64`:
`RoundTo` rounds to the nearest with ties to even, and `Precision` stands for 53.
An absent and a `null` token are one case, and so are an absent parameter and the
empty one. The server answers a list with a page, with `null` or with a failure
(never 204). The group call always fails in `doRequest`, so only `DoFails` applies.
One call object belongs to one goroutine, as in `ApiCalls`.

### RetrySend

`pc` follows one call of `SendRequestWithRetry`: `start`, then rounds of `wait`
(the `select`, `send.go` 116-127), `check` (the second look at the context, 129-138),
`flight` (`client.Do`, 143) and `judge` (153-166), until `returned`. `client.Do` gives a
response (`Answer`), an error (`Fail`, `Abort`) or, for a redirect that the client's
`CheckRedirect` refuses, both, with the body closed (`RefuseRedirect`). The context may
be done at any of these points, cancelled or expired; a `select` with both branches
ready takes either. The request has no body, one that `http.NewRequest` can copy, or
one it cannot: only the second has a `GetBody`. Errors are named by the cause at the
end of their `Unwrap` chain, where `shouldRetry`'s recursion arrives. The length of a
pause and the wording of the invocation header are left out. `leaked`, `doneIn` and
`unmade` are history variables.

### Schemas and MarshalJson

A schema is a sequence of fields with a name, a tag and a kind; `Schemas` lists those of
`iot.go`. A value of a field is nil, empty, set or without an encoding, and a map that is
set has entries. `Inputs` are the calls: a struct and the two lists, with the entries
`"Field.key"` of `NullFields` kept apart in `nullKeys`.

| action | code (`json.go`) |
|---|---|
| `MarshalPlain` | 25-27: both lists empty, `encoding/json` does everything |
| `StartMap` | 29-58: the lists become maps, the loop begins |
| `SkipField`, `MalformedTag` | 61-71 and `parseJSONTag` |
| `NullField`, `NullNonEmpty` | 76-82 |
| `LeaveOut` | 84-86 and `includeField` |
| `SetMapWithNulls`, `KeysNotStrings` | 88-108 and `initMapSlow` |
| `SetEmpty` | 110-120: nil maps and slices are sent empty |
| `SetValue` | 122-126 and `formatAsString` |
| `Encode` | 48-52: `encoding/json` writes the map |

`Plain` is what `encoding/json` does with the struct itself, external to the repository.
The keys of a schema's tags are distinct, so the map is a function of the positions of
the fields. As in the code, an entry of a list that is no field's name has no effect, and
nor has `"Metadata.k"` while `Metadata` is empty and not forced; an entry that is to be
null replaces a value the map has for the key.

### PathTemplate

The parser is recursive, but variables do not nest, so it is an automaton (`pc`) with the
variable it is in (`name`). The template is chosen as it is read, token by token: `/`,
`*`, `{`, `}`, `=`, a literal or the end. `Consume` gives no literal after a literal, since a
literal is read up to a stop character. The actions up to `Parsed` follow `template`,
`segments`, `segment`, `variable` and `literal` (`path_template.go` 265-344); each `Reject`
is a call of `error`, a panic that `parsePathTemplate` recovers. `Parsed` also sets the
length of the `**` (243-252). `Match` (162-184) and `Render` (188-207) are the loops they
are, one segment a step; a path is the sequence of the texts between its slashes, the
empty text included. `RenderMatched` and `MatchRendered` stand for a caller that hands
the result of one to the other.

What the parser reads outside a variable and cannot use ends the template without
an error, in the model as in the code. A variable called `$0` would share its name
with the first unnamed wildcard; `UnnamedAssumption` excludes it.

## 3. Runs

| Run | Instance | Question | Result |
|---|---|---|---|
| `credentials_safety` | 3 goroutines, 2 registries, 1 renewal each | lock discipline, no deadlock at the lock, no nil hit, right registry, nothing older stored, implements `CredentialStore` | holds |
| `credentials_liveness` | 3 goroutines, 1 registry | does every call return? | holds |
| `map_race` | 2 goroutines, 2 registries | does the lock guard every map access? | violated |
| `key_collision` | 2 goroutines, `us`/`us-central1`, `fleet`/`central1-fleet` | right registry, for names that contain `-` | violated |
| `api_requests` | 2 options, 1 goroutine, 23 calls, 2 projects, 2 registries, 2 devices, 1 setter, 1 renewal each | does each request determine call and resource, save the project where no name is sent? | holds |
| `api_calls` | 2 options, 2 goroutines, `get` and `delete` | types, an account for every call, bodies closed, nothing sent if cancelled before, the cancellation reported when and only when it came before the error was chosen; do service-account calls return though the credential server does not answer, and all others but those it leaves waiting? | holds |
| `cancel_pending` | 1 goroutine | does a cancelled call return if no server answers? | violated |
| `pages` | 3 lists, 3 pages, 2 iterations deep | every page once and in order, none but the last lost, token given back; does every iteration end? | holds |
| `retry_send` | 9 statuses, 3 errors, 2 kinds of `ShouldRetry` | whole bodies, closed responses, nothing sent once done, no transient outcome given up; does the end of the context end the call? | holds |
| `marshal_json` | 31 schemas of `iot.go` and 3 generic ones, 2 fields (1 of a `Device`) set or listed | fields selected, nulls as asked, both paths alike, errors only for contradictions | holds |
| `force_blocked` | the same | is a forced field that is no pointer sent? | violated |
| `path_templates` | 9 tokens, 2 literals, paths of 4 parts | templates sound, `Match` exact, `Match` and `Render` inverse | holds |

Why the bounds are enough. Three goroutines are the smallest number for which a
reader parks behind a writer that itself waits for a reader, and for which two
misses race while a third goroutine hits. Two registries make a wrong key
visible; one renewal makes "older" visible. Symmetry is used in runs without
liveness only: of goroutines in those of the cache, of registries and devices in
`api_requests`, and of projects; nothing orders them. In `api_calls`
the calls `get` (registry credentials, decodes) and `delete` (service account, does not
decode) take every branch of `Do` between them; the other 21 differ in the request only,
and `api_requests` covers that for all of them with one goroutine, because a request
depends on no other goroutine but through the credentials. There every registry's entry may
be absent, blank, current or older than its renewal. A call that has returned influences
the next one only through the Service and its cache, so the run takes resting states that
agree on these for one (`VIEW UpToLastCall`; `OnlyProjectLost` says nothing of a call at
rest). Its one setter, `IfNoneMatch`, is put in the request by some calls and dropped by
others. `MaxEpoch` and `MaxOptions` are the only bounds of these runs; two options are an
option that fails or not after one that set the account or not. `cancel_pending` needs no
options.

In `pages` the numbers 7 and 8 name the pages, so the last is exactly
`2^Precision`, the largest that is safe; two levels let the outer `f` change the
token before, after and through an inner iteration, and a third would meet the
second as the second meets the first. In `retry_send` the statuses are the two
sides of every edge in `shouldRetry` (499/500, 599, 408, 429, 404 and a success) and a redirect, and
`attempts` saturates at `MaxAttempts`: the code only formats it, and the loop goes
on without end in the model as in the code.

In `marshal_json` the loop treats one field after another and nothing of one field reaches
another but an error, so two fields show what can go wrong with one and that an error
of the second undoes the first; every combination of value, force, null and null keys is
tried on both. The generic schemas have the kinds that `gensupport` knows and `iot.go`
does not use (interfaces, other maps, fields without a tag). `path_templates` needs
six tokens for a `**` between two other parts, seven for two variables or for one of two
segments, eight for one of a wildcard and a `**`, or one of two segments after an
initial slash, and nine for two variables around a literal, the shortest template that
shows a name used again (side by side they would read as one variable of two segments); paths of four parts leave a `**` between two others more than one. The
theorems cover longer templates. Literals are symmetric.

Fairness. A goroutine that can take a step takes it in the end (`WF`): the Go
scheduler is preemptive. Taking the turn among writers is strongly fair, because
`sync.Mutex` hands over directly to a waiter that has starved for a millisecond.
That a server or the transport answers is assumed separately and only where the
question needs it: `ClientFairness` for the client alone, `IoTFairness` for the IoT
server. `api_calls` assumes both and nothing of the credential server, whose answers are
those of `GetCredentials`: so `AdminCallsReturn` holds although that server may keep other
calls waiting, and `EveryCallReturns` excepts a call whose `GetRegistryCredentials` stays
pending for ever. (That one does return if the credential server answers is
`EveryCallReturns` of `RegistryCredentials`.) `cancel_pending` assumes only `ClientFairness`.
Nothing obliges a caller to start or to cancel a call.

In `Pages` a `Do` ends (`WF`: a request is answered or fails), the loop goes on
(`WF`), and `f` ends. The last is strong fairness per level of nesting: while an
inner iteration runs the outer `f` cannot end, but it does not start inner iterations
for ever. In `RetrySend` the goroutine and its timers run and the transport aborts a
request whose context is done, as `net/http` promises; the server need not answer.

Deadlock is checked in every run but those of `MarshalJson` and `PathTemplate`, which are
functions that end; the process that the runtime stopped stutters (`Stopped`).

## 4. Theorems

For the credential cache the assumption is `ConstantsAssumption` (distinct markers,
non-empty names, `MaxEpoch \in Nat`), which TLC evaluates in every run of the
module. The number of goroutines, the names and `MaxEpoch` are arbitrary, infinite sets included.
Each of the other components has named assumptions of its own, given below.

| Theorem | Statement |
|---|---|
| `TypeCorrect` (cache) | `Spec => []TypeOK` |
| `LockHeldWhereAssumed` | `Spec => []LockDiscipline` |
| `DeadlockFree` | `Spec => []NeverAllBlocked` |
| `HitReturnsCredential` | `Spec => []HitNeverNil` |
| `DistinctKeysNeverMixRegistries` | if `CacheKey` is injective, `Spec => []ReturnsRequestedRegistry` |
| `SeparableRegionsNeverMixRegistries` | if names are words and `SeparableRegions`, `Spec => []ReturnsRequestedRegistry` |
| `StoresNeverOlder` | `Spec => CacheNeverOlder` |
| `CacheImplementsStore` | `Spec => ImplementsStore` |
| `PagesTypeCorrect` | if `TokensFit`, `Spec => []TypeOK` |
| `EveryPageOnce` | if `TokensFit`, `Spec => []PagesInOrder` |
| `TokenGivenBack` | if `TokensFit`, `Spec => []TokenRestored` |
| `LosesOnlyLastPage` | if `TokensFit`, `Spec => []OnlyLastPageLost` |
| `CallsTypeCorrect` | `Spec => []TypeOK` |
| `NoBodyLeaks` | `Spec => []BodiesClosed` |
| `CancellationIsReported` | `HistorySpec => []CancellationReported` |
| `RequestsLoseOnlyProject` | `Spec => []OnlyProjectLost` |
| `MarshalTypeCorrect` | `Spec => []TypeOK` |
| `SelectedFieldsAreSent` | `Spec => []SelectionSent` |
| `NullsOnlyAsAsked` | `Spec => []NullsAsAsked` |
| `TwoPathsAgree` | `Spec => []PathsAgree` |
| `FailsOnlyIfContradictory` | `Spec => []FailsIfContradictory` |
| `TypeCorrect` (templates) | `Spec => []TypeOK` |
| `ParserIsSound` | `Spec => []TemplateSound` |
| `MatchIsExact` | `Spec => []MatchDecides` |
| `RenderUndoesMatch` | `Spec => []RenderInvertsMatch` |
| `InverseInvariant` | `Spec => []InverseInv` |
| `MatchUndoesRender` | `Spec => []MatchInvertsRender` |
| `RetryTypeCorrect` | `Spec => []TypeOK` |
| `AttemptsWhole` | `Spec => []EachAttemptWhole` |
| `RetriesCloseResponses` | `Spec => []ResponsesClosed` |
| `NoRetryOnceDone` | `Spec => []DoneStopsRetries` |
| `TransientNotGivenUp` | `Spec => []TransientTriedAgain` |

### Credential cache

None of the properties is inductive. `HitNeverNil` needs that an entry once
present stays (`HitsStayCached`: a goroutine on the hit path has a non-nil entry,
which holds because stores write credentials only, `ReplyInHand`, and which the
race at the unlocked read threatens: a hit seen *during* a store is covered because
the read lock is granted only after that store, by `LockDiscipline`).
`CacheNeverOlder` needs that a reply in hand is at least as new as everything
stored for its registry (`RepliesFresh`, `CacheFresh`, `AnswerNotOlder`), and that
needs that only one goroutine is between request and store, again
`LockDiscipline`. The invariant that carries everything is

    IInv == HitInv /\ FreshInv /\ ResultOfKey

proved to hold initially and to be preserved action by action. TLC also checked it
as an invariant of a two-goroutine instance. The refinement proof takes `IInv` as
given and maps each action to a step of `CredentialStore` or to stuttering.

`NeverAllBlocked` follows from `LockDiscipline` alone: whoever is parked is kept out by a
writer, a writer that drains is kept out by a reader, and a reader or a writer that has the
lock is in a state it can leave. Only the credential server can hold up all of them.

`ReturnsRequestedRegistry` is proved in two steps. `DistinctKeysNeverMixRegistries` needs
that `CacheKey` is injective, which is as much as the code gives. `SeparableRegions` says
for which names it is: no region goes on, after a `-`, where another one ends. Then
the region can be read off the key, and with it the registry, which may be called
anything (`KeysDiffer`). `us-central1` and `europe-west1` are separable; `us` and
`us-central1`, the regions of `key_collision`, are not, and the run shows that the
condition is not idle.

### Pages

The assumptions are `PagesAssumption` and `TokensFit`: the server names no page by a
number above `2^Precision`, without which `EveryPageOnce` is false: with
`FirstToken = 8` and four pages TLC finds the third page's token rounded to that of
the second, which `f` then gets again.
Listing, first token, precision and depth are otherwise arbitrary. `Float64Exact`
shows that such a number survives `RoundTo`. The invariant says of every frame that
what its `f` has seen is in order and that its `next` is the successor of its page
(`FrameInv`), which nothing done to the shared token can change; of the innermost
frame at its `Do` that the token names the page due (`PageDue`); and of the
outermost that its `origin` is the user's token (`OriginKept`). `PageDue` is only
needed of the innermost frame because all others are in their `f`, which is a
conjunct of `TypeOK` on `frames`: that is why a nested iteration does no harm.
`OnlyLastPageLost` follows from `PageDue` at the moment of the decoding error: every form a
token of another page can have is decodable.

### ApiCalls

The assumptions are `CallsAssumption`, `NamesAssumption` and `CredentialsAssumption` (some
call, some name, markers that are no credentials, `MaxEpoch \in Nat`); goroutines, calls,
names, setters and options are arbitrary. The properties are not inductive: that a call
about to be sent has credentials needs that the store never returns `Nil` (`StoreTyped`)
and that a `ready` Service has an account (`SetupTyped`); the others need how far request,
reply and body have got in each phase (`Progress`). The steps of the store are those of
`CredentialStore`, which `CacheImplementsStore` shows the cache to implement.

`CancellationIsReported` is about `HistorySpec`, whose runs are runs of `Spec`, so that
`Inv` holds of them. `HistoryInv` relates the moment of the cancellation to the phase:
it is `never` exactly while the context is not cancelled, cannot lie ahead of the phase
the call is in, and a call cancelled `before` is never `sent` or `answered`
(`Remembered`). Every action is one of six moves for one goroutine and none for the
others (`EveryStepMoves`), and each move keeps `HistoryInv` (`HistoryKept`). Nothing is
said of a cancellation that comes between the choice of the error and the return of `Do`
but that it is not reported: the code does not look again.

`RequestsLoseOnlyProject` compares two requests of any two calls. Its invariant `Fits` adds
to `Inv` that the store keeps the credentials of each registry apart and that a call
that is ready or has been sent has the credentials of its own registry, or of the service
account, as its row of the table asks, or `Blank` ones, which the property leaves out:
without a token they need not tell a registry. The rest is a lemma about the table,
`RequestsDiffer`: the rows of two calls that send anything differ in HTTP method, endpoint,
account, the parameter that carries the name or the `method` parameter (`SignaturesDiffer`),
and where a call carries no name at all (`get`, `bindDeviceToGateway`,
`unbindDeviceFromGateway` and `devices.create`) its credentials say which location and
registry are meant (`NamelessCalls`), though not which project. That names differing
in the project only are really confused is the other half of the equation in
`OnlyProjectLost`.

### MarshalJson

The assumptions are `InputsAssumption` (the arguments are well typed) and
`AbsentAssumption`; schemas of any length, values and lists are arbitrary. The invariant
compares every member behind the loop with the one its field should have (`Wanted`),
says that those before it are absent, and why a call has ended as it did (`Outcome`).

### PathTemplate

The assumptions are `TextAssumption` and `UnnamedAssumption`; texts, paths and values and
the length of templates are arbitrary. The parser's invariant says that a variable's
segments stand together and, while it is open, at the end (`Contiguous`,
`CurrentIsLast`), and that names handed out are not handed out again (`NamesGiven`).
For `Match`, `Start(j)` is the place in the path where segment `j` begins, known from the
length of the path alone; the value of a variable is the `Stretch` of the path between the
starts of its first segment and of the one after its last, and `Render` puts in the
stretch at the first segment, then passes the rest over (`RenderedUpTo`).

The other direction, `MatchUndoesRender`, cannot use `Start`, because the path is not there
yet while `Render` makes it. But the values alone say how much room the `**` takes: what
its variable's value has beyond one part for each of the variable's segments (`Room`,
which exists by `RoomExists` if the values fit). From that follows the `Place` of every
segment in the path to come. The invariant `InverseInv` says that the path made so far holds
every label and every value at its place (`Laid`), the one of the variable whose segments are still
being passed over included (`LaidUpTo`), and that `Match` is then given that path. At
the end the places are the starts (`PlacesAreStarts`), so the template stands for the
path (`RenderedStands`), `Match` cannot refuse it by the invariant of the other proof, and
the stretches it joined are the values (`SameValues`). TLC checked `InverseInv` on templates
of up to eight tokens before it was proved. The premise `BindingFits` of the property is
about the caller: `Render` puts in any value, `us/central1` for a `*` too, and then the
path need not match.

### RetrySend

The assumption is `RetryAssumption` (statuses are 100 to 599, the markers are
distinct, error classes are disjoint); statuses, errors and `ShouldRetry` are
arbitrary. `LoopInv` adds that a request not yet begun has no response and that a
context once done stays done. `TransientIsRetried` compares the property's notion of a transient status with
the ranges of `shouldRetry`.

### Model-checked only

Every invariant and every action property of a passing run is stated by a theorem. What
remains with TLC is liveness, since fairness involves `ENABLED`, which is out of the prover's
reach: `EveryCallReturns` of the cache and of the calls, `AdminCallsReturn`, `PagesEnds` and
`DoneEndsCall`.

## 5. Findings

* `map_race`: the unlocked read at `iot.go:100` races with the assignment at 133.
* `key_collision`: joining region and registry with `-` lets two registries share
  an entry.
* `cancel_pending`: the credential request carries no context.
* `force_blocked`: the tag of `Device.Blocked` lacks `omitempty`, and `parseJSONTag` rejects
  it, so a `Device` with any entry in `ForceSendFields` or `NullFields` cannot be sent.

Met on the way, without a run of their own: the comment of every call says that its name
tells the resource, project first (`iot.go:2308-2310`), but the credentials are asked for
in the service account's project whatever the name says (`iot.go:110`), and `get`,
`bindDeviceToGateway`, `unbindDeviceFromGateway` and `devices.create` send no name, so for
registries of the same location and name in two projects they send the same request (the
equation in `OnlyProjectLost` says so); `IfNoneMatch` of `devices.get` drops its argument
(`iot.go:3754`), as the other setters do that are `lost` in `CallTable`; a 200 whose body is `null` makes `Do` return
`(nil, nil)`, though its comment promises one of the two (`send.go:177`, `DecodeResponse` in
`ApiCalls`, `ReceiveNull` and `NilPage` in `Pages`); the decoder of registry lists fails on a page
without `nextPageToken` (`iot.go:1175`), which is how the last page looks
(`OnlyLastPageLost` says that nothing else is lost); for the same tag as above a `Device`
sent with empty lists always contains `"blocked"`, false or not; a wildcard of a path
template matches an empty part, so `projects//locations//registries/` is a name; `Header` of `devices.create` and of other
calls returns a map that is not the call's (`lost` in `CallTable`); numeric tokens above
`2^53` are rounded (`TokensFit`); a request without a body has no `GetBody` and is
never retried (`HasGetBody`).

## 6. Not modelled

* `New`, deprecated: it returns a `Service` without client, cache, templates and account,
  on which every call panics; `NewService` fills them in.
* One call object used by several goroutines or a second time, and a service account
  replaced after `NewService` returned.
* `ResolveRelative` and `uritemplates`, which nothing calls; `googleapi.Expand` (the URLs
  contain no braces, so expansion leaves them alone).
* `URLParams.Encode`, the wording of errors, `WrapError`, which only decorates an error,
  the length of the pauses between retries.

What could be added: a call object used a second time.
