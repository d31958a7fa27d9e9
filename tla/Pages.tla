------------------------------- MODULE Pages -------------------------------
(***************************************************************************)
(* Pages of a list call (iot.go): Do and f, page after page, on one call   *)
(* object.  The object keeps the page token and the context; Pages         *)
(* overwrites both, and gives the token back when it ends, however it      *)
(* ends.  f may use the same call object, even for Pages again, so what is *)
(* at work is a stack of iterations that share one token.                  *)
(*                                                                         *)
(* The server holds a fixed listing and names each page after the first by *)
(* a number, which it writes as a JSON number or as a string.              *)
(***************************************************************************)
EXTENDS Integers, Sequences

CONSTANTS Lists,       \* "registries", "devices", "groupDevices"
          PageCount,   \* bound: pages of the listing
          FirstToken,  \* number that names the second page
          Precision,   \* bits of a float64's significand (53)
          NoToken,     \* the token ""
          Contexts,    \* contexts that can be cancelled
          NoContext,   \* one that cannot
          MaxDepth     \* bound: iterations of the call at a time

ASSUME PagesAssumption ==
    /\ Lists \subseteq {"registries", "devices", "groupDevices"} /\ Lists # {}
    /\ PageCount \in Nat \ {0}
    /\ FirstToken \in Nat
    /\ Precision \in Nat \ {0}
    /\ NoToken \notin Int
    /\ NoContext \notin Contexts
    /\ MaxDepth \in Nat \ {0}

VARIABLES list,       \* which list call it is
          token,      \* c.urlParams_["pageToken"]
          ctx,        \* c.ctx_
          cancelled,  \* the contexts that are cancelled
          frames,     \* the iterations at work, the innermost last
          last,       \* the iteration that ended last
          chosen      \* ghost: the token its user gave the call

vars == <<list, token, ctx, cancelled, frames, last, chosen>>

Frame == [origin : Nat \cup {NoToken}, at : {"do", "callback", "turn"},
          page : 0..PageCount, next : Nat \cup {NoToken}, seen : Seq(1..PageCount)]

(***************************************************************************)
(* The server's listing.                                                   *)
(***************************************************************************)
PageTokens == FirstToken .. FirstToken + PageCount - 2
Tokens == PageTokens \cup {NoToken}
PageAt(t) == IF t = NoToken THEN 1 ELSE t - FirstToken + 2

(* What page p may say of its successor; null counts as absent.            *)
RawTokens(p) ==
    IF p < PageCount
    THEN [form : {"number", "string"}, value : {FirstToken + p - 1}]
    ELSE [form : {"string", "absent"}, value : {NoToken}]

(***************************************************************************)
(* Decoding nextPageToken.                                                 *)
(***************************************************************************)
(* n as a binary number of at most "bits" digits followed by zeros, rounded*)
(* to the nearest, ties to the even significand.                           *)
RoundTo(bits, n) ==
    LET fits(e) == n <= 2^bits * 2^e
        e == CHOOSE e \in 0..n : fits(e) /\ \A d \in 0..(e - 1) : ~fits(d)
        q == n \div 2^e
        r == n % 2^e
    IN  IF 2 * r < 2^e \/ (2 * r = 2^e /\ q % 2 = 0) THEN q * 2^e ELSE (q + 1) * 2^e

(* Mutant: ParseFloat and FormatFloat with a narrower float.               *)
Float32(n) == RoundTo(Precision - 1, n)

Float64(n) == RoundTo(Precision, n)

(* Mutant: the token's field is a plain string, as that of devices is.     *)
DecodableString(raw) ==
    \/ raw.form = "string"
    \/ raw.form = "absent" /\ list = "devices"

(* ListDeviceRegistriesResponse.UnmarshalJSON wants a number or a string;  *)
(* ListDevicesResponse has a plain string field.                           *)
Decodable(raw) ==
    \/ raw.form = "string"
    \/ raw.form = "number" /\ list = "registries"
    \/ raw.form = "absent" /\ list = "devices"

(* The server names no page by a number that a float64 may round.          *)
TokensFit == \A n \in PageTokens : n <= 2^Precision

DecodeToken(raw) == IF raw.form = "number" THEN Float64(raw.value) ELSE raw.value

(***************************************************************************)
(* The call between iterations.                                            *)
(***************************************************************************)
Init ==
    /\ list \in Lists
    /\ token = NoToken
    /\ ctx = NoContext
    /\ cancelled = {}
    /\ frames = <<>>
    /\ last = [outcome |-> "none", origin |-> NoToken, seen |-> <<>>]
    /\ chosen = NoToken

Top == frames[Len(frames)]
At(step) == frames # <<>> /\ Top.at = step
ReplaceTop(f) == frames' = [frames EXCEPT ![Len(frames)] = f]

PageToken(t) ==
    /\ frames = <<>>
    /\ token' = t
    /\ chosen' = t
    /\ UNCHANGED <<list, ctx, cancelled, frames, last>>

Cancel(x) ==
    /\ cancelled' = cancelled \cup {x}
    /\ UNCHANGED <<list, token, ctx, frames, last, chosen>>

(* Mutant: an iteration starts while another is at its Do.                 *)
PagesAnytime(x) ==
    /\ Len(frames) < MaxDepth
    /\ ctx' = x
    /\ frames' = Append(frames, [origin |-> token, at |-> "do", page |-> 0,
                                 next |-> NoToken, seen |-> <<>>])
    /\ UNCHANGED <<list, token, cancelled, last, chosen>>

(* The call's user, or f, calls Pages(x, f); the deferred reset remembers  *)
(* the token of this moment.                                               *)
Pages(x) ==
    /\ frames = <<>> \/ (At("callback") /\ Len(frames) < MaxDepth)
    /\ ctx' = x
    /\ frames' = Append(frames, [origin |-> token, at |-> "do", page |-> 0,
                                 next |-> NoToken, seen |-> <<>>])
    /\ UNCHANGED <<list, token, cancelled, last, chosen>>

(* Mutant: the deferred reset looks up the token only when it runs.        *)
ReturnLate(outcome) ==
    /\ token' = token
    /\ frames' = SubSeq(frames, 1, Len(frames) - 1)
    /\ last' = [outcome |-> outcome, origin |-> Top.origin, seen |-> Top.seen]
    /\ UNCHANGED <<list, ctx, cancelled, chosen>>

Return(outcome) ==
    /\ token' = Top.origin
    /\ frames' = SubSeq(frames, 1, Len(frames) - 1)
    /\ last' = [outcome |-> outcome, origin |-> Top.origin, seen |-> Top.seen]
    /\ UNCHANGED <<list, ctx, cancelled, chosen>>

(***************************************************************************)
(* Do.                                                                     *)
(***************************************************************************)
(* Mutant: a failed Do is tried again.                                     *)
DoFailsAgain ==
    /\ At("do")
    /\ UNCHANGED vars

(* No request, no response, or a status that is not 2xx: always for the    *)
(* devices of a group, for a cancelled context and for an unknown token.   *)
DoFails ==
    /\ At("do")
    /\ Return("error")

CanDo ==
    /\ At("do")
    /\ list # "groupDevices"
    /\ ctx \notin cancelled
    /\ token \in Tokens

Receive ==
    /\ CanDo
    /\ LET p == PageAt(token)
       IN  \E raw \in RawTokens(p) :
              /\ Decodable(raw)
              /\ ReplaceTop([Top EXCEPT !.at = "callback", !.page = p,
                                        !.next = DecodeToken(raw),
                                        !.seen = Append(@, p)])
    /\ UNCHANGED <<list, token, ctx, cancelled, last, chosen>>

ReceiveUndecodable ==
    /\ CanDo
    /\ \E raw \in RawTokens(PageAt(token)) : ~Decodable(raw)
    /\ Return("undecodable")

(* The body is JSON null: Do returns (nil, nil) and f is called with nil.  *)
ReceiveNull ==
    /\ CanDo
    /\ ReplaceTop([Top EXCEPT !.at = "callback", !.page = 0])
    /\ UNCHANGED <<list, token, ctx, cancelled, last, chosen>>

(***************************************************************************)
(* f.                                                                      *)
(***************************************************************************)
CallbackPageToken(t) ==
    /\ At("callback")
    /\ token' = t
    /\ UNCHANGED <<list, ctx, cancelled, frames, last, chosen>>

CallbackReturns ==
    /\ At("callback")
    /\ ReplaceTop([Top EXCEPT !.at = "turn"])
    /\ UNCHANGED <<list, token, ctx, cancelled, last, chosen>>

CallbackFails ==
    /\ At("callback")
    /\ Return("error")

CallbackPanics ==
    /\ At("callback")
    /\ Return("panic")

(***************************************************************************)
(* The end of the loop's body.                                             *)
(***************************************************************************)
NilPage ==
    /\ At("turn")
    /\ Top.page = 0
    /\ Return("panic")

LastPage ==
    /\ At("turn")
    /\ Top.page # 0
    /\ Top.next = NoToken
    /\ Return("nil")

NextPage ==
    /\ At("turn")
    /\ Top.page # 0
    /\ Top.next # NoToken
    /\ token' = Top.next
    /\ ReplaceTop([Top EXCEPT !.at = "do"])
    /\ UNCHANGED <<list, ctx, cancelled, last, chosen>>

(***************************************************************************)
(* The specification.                                                      *)
(***************************************************************************)
Do == DoFails \/ Receive \/ ReceiveUndecodable \/ ReceiveNull
CallbackEnds == CallbackReturns \/ CallbackFails \/ CallbackPanics
Turn == NilPage \/ LastPage \/ NextPage

Next ==
    \/ \E t \in Tokens : PageToken(t) \/ CallbackPageToken(t)
    \/ \E x \in Contexts : Cancel(x)
    \/ \E x \in Contexts \cup {NoContext} : Pages(x)
    \/ Do
    \/ CallbackEnds
    \/ Turn

Spec == Init /\ [][Next]_vars

(* Each request is answered or fails, the loop goes on, and each f ends,   *)
(* whatever it does with the call before (strong fairness: an iteration f  *)
(* starts keeps the outer f from ending for a while).                      *)
LiveSpec ==
    /\ Spec
    /\ WF_vars(Do)
    /\ WF_vars(Turn)
    /\ \A d \in 1..MaxDepth : SF_vars(Len(frames) = d /\ CallbackEnds)
-----------------------------------------------------------------------------
(***************************************************************************)
(* Properties.                                                             *)
(***************************************************************************)
Outcomes == {"none", "nil", "error", "undecodable", "panic"}

(* Every variable has its type, and every iteration but the innermost is   *)
(* in its f.                                                               *)
TypeOK ==
    /\ list \in Lists
    /\ token \in Nat \cup {NoToken}
    /\ ctx \in Contexts \cup {NoContext}
    /\ cancelled \subseteq Contexts
    /\ frames \in Seq(Frame)
    /\ \A d \in 1..(Len(frames) - 1) : frames[d].at = "callback"
    /\ last \in [outcome : Outcomes, origin : Nat \cup {NoToken},
                 seen : Seq(1..PageCount)]
    /\ chosen \in Tokens

(* seen is a run of consecutive pages that starts at the page of origin.   *)
InOrder(origin, seen) ==
    \A i \in 1..Len(seen) : seen[i] = PageAt(origin) + i - 1

(* f gets the pages in order, each once, from the one the token named when *)
(* Pages was called, and all of them if Pages returns nil: whatever form   *)
(* tokens have, and although f may move the shared token or iterate over   *)
(* the same call itself.                                                   *)
PagesInOrder ==
    /\ \A d \in 1..Len(frames) : InOrder(frames[d].origin, frames[d].seen)
    /\ InOrder(last.origin, last.seen)
    /\ last.outcome = "nil" => PageAt(last.origin) + Len(last.seen) - 1 = PageCount

(* "reset paging to original point": once no iteration is at work the call *)
(* has the token its user gave it, after nil, errors and panics, nested or *)
(* not, and whatever f did to the token.                                   *)
TokenRestored == frames = <<>> => token = chosen

(* Pages ends if each request and each f does.                             *)
PagesEnds == frames # <<>> ~> frames = <<>>

(* registries.list takes the absent token of the last page for an error.   *)
(* It loses no other page by it, whichever form the tokens have: f got     *)
(* every page from the first one asked for to the last but one.            *)
OnlyLastPageLost ==
    list = "registries" /\ last.outcome = "undecodable"
    => PageAt(last.origin) + Len(last.seen) = PageCount
=============================================================================
