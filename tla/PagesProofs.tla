---------------------------- MODULE PagesProofs ----------------------------
(***************************************************************************)
(* Proofs, for a listing of any length and iterations nested to any depth, *)
(* of the safety properties of Pages, under the assumption that no token   *)
(* the server uses exceeds 2^Precision (TokensFit).                        *)
(*                                                                         *)
(* An iteration in its f or after it knows its successor page by number    *)
(* (FrameInv), whatever happens to the shared token meanwhile; the token   *)
(* matters only while the innermost iteration is at its Do, when it names  *)
(* the page that follows those already seen (PageDue).                     *)
(***************************************************************************)
EXTENDS Pages, SequenceTheorems, TLAPS

Successor(p) == IF p < PageCount THEN FirstToken + p - 1 ELSE NoToken

FrameInv(f) ==
    /\ f.origin \in Tokens
    /\ InOrder(f.origin, f.seen)
    /\ f.at # "do" /\ f.page # 0 =>
          /\ f.page = PageAt(f.origin) + Len(f.seen) - 1
          /\ f.next = Successor(f.page)

PageDue == At("do") => PageAt(token) = PageAt(Top.origin) + Len(Top.seen)

LastInOrder ==
    /\ InOrder(last.origin, last.seen)
    /\ last.outcome = "nil" => PageAt(last.origin) + Len(last.seen) - 1 = PageCount
    /\ OnlyLastPageLost

OriginKept ==
    /\ frames = <<>> => token = chosen
    /\ frames # <<>> => frames[1].origin = chosen

IInv ==
    /\ TypeOK
    /\ token \in Tokens
    /\ \A d \in 1..Len(frames) : FrameInv(frames[d])
    /\ PageDue
    /\ LastInOrder
    /\ OriginKept

-----------------------------------------------------------------------------
(* The listing.                                                            *)

(* A token of the listing names one of its pages.                          *)
LEMMA PageAtType == \A t \in Tokens : PageAt(t) \in 1..PageCount
  BY PagesAssumption DEF Tokens, PageTokens, PageAt

(* The successor of a page is a token, and names the next page.            *)
LEMMA SuccessorToken ==
    ASSUME NEW p \in 1..PageCount
    PROVE  /\ Successor(p) \in Tokens
           /\ Successor(p) \in Nat \cup {NoToken}
           /\ Successor(p) # NoToken => PageAt(Successor(p)) = p + 1
           /\ Successor(p) = NoToken <=> p = PageCount
  BY PagesAssumption DEF Tokens, PageTokens, PageAt, Successor

LEMMA PowerType == ASSUME NEW p \in Nat PROVE 2^p \in Int
  OBVIOUS

(* A float64 represents each natural number up to 2^Precision.             *)
LEMMA Float64Exact ==
    ASSUME NEW n \in Nat, n <= 2^Precision
    PROVE  Float64(n) = n
<1> DEFINE fits(e) == n <= 2^Precision * 2^e
           e0 == CHOOSE e \in 0..n : fits(e) /\ \A d \in 0..(e - 1) : ~fits(d)
<1>1. 2^0 = 1
  OBVIOUS
<1>2. fits(0)
  <2>1. 2^Precision \in Int
    BY PowerType, PagesAssumption
  <2> QED
    BY <1>1, <2>1
<1>3. e0 = 0
  <2> HIDE DEF fits
  <2>1. \A e \in 0..n : fits(e) /\ (\A d \in 0..(e - 1) : ~fits(d)) => e = 0
    BY <1>2
  <2>2. 0 \in 0..n /\ fits(0) /\ \A d \in 0..(0 - 1) : ~fits(d)
    BY <1>2
  <2> QED
    BY <2>1, <2>2
<1>4. n \div 2^e0 = n /\ n % 2^e0 = 0
  <2>1. n \div 1 = n /\ n % 1 = 0
    OBVIOUS
  <2> HIDE DEF e0
  <2> QED
    BY <1>1, <1>3, <2>1
<1>5. Float64(n) =
         IF \/ 2 * (n % 2^e0) < 2^e0
            \/ 2 * (n % 2^e0) = 2^e0 /\ (n \div 2^e0) % 2 = 0
         THEN (n \div 2^e0) * 2^e0 ELSE ((n \div 2^e0) + 1) * 2^e0
  BY Zenon DEF Float64, RoundTo
<1> HIDE DEF e0
<1> QED
  BY <1>1, <1>3, <1>4, <1>5

(* What a page says of its successor is decoded to the successor.          *)
LEMMA DecodedToken ==
    ASSUME TokensFit, NEW p \in 1..PageCount, NEW raw \in RawTokens(p)
    PROVE  DecodeToken(raw) = Successor(p)
<1>1. CASE p < PageCount
  <2>1. raw.value = FirstToken + p - 1
    BY <1>1 DEF RawTokens
  <2>2. FirstToken + p - 1 \in PageTokens
    BY <1>1, PagesAssumption DEF PageTokens
  <2>3. Float64(FirstToken + p - 1) = FirstToken + p - 1
    BY <2>2, Float64Exact, PagesAssumption DEF TokensFit, PageTokens
  <2> QED
    BY <1>1, <2>1, <2>3 DEF DecodeToken, Successor
<1>2. CASE ~(p < PageCount)
  BY <1>2 DEF RawTokens, DecodeToken, Successor
<1> QED
  BY <1>1, <1>2

-----------------------------------------------------------------------------
(* The stack of iterations.                                                *)

LEMMA BelowTop ==
    ASSUME NEW n \in Nat \ {0}, n # 1
    PROVE  1 \in 1..(n - 1) /\ n - 1 \in 1..(n - 1)
  OBVIOUS

LEMMA TopFrame ==
    ASSUME frames \in Seq(Frame), frames # <<>>
    PROVE  /\ Len(frames) \in Nat \ {0}
           /\ Top \in Frame
           /\ Top = frames[Len(frames)]
<1>1. Len(frames) \in Nat \ {0}
  BY EmptySeq
<1>2. frames[Len(frames)] \in Frame
  BY <1>1, ElementOfSeq
<1> QED
  BY <1>1, <1>2 DEF Top

LEMMA Replaced ==
    ASSUME frames \in Seq(Frame), frames # <<>>, NEW f \in Frame, ReplaceTop(f)
    PROVE  /\ frames' \in Seq(Frame)
           /\ Len(frames') = Len(frames)
           /\ frames' # <<>>
           /\ Top' = f
           /\ \A d \in 1..(Len(frames) - 1) : frames'[d] = frames[d]
<1>1. Len(frames) \in 1..Len(frames)
  BY TopFrame
<1>2. /\ [frames EXCEPT ![Len(frames)] = f] \in Seq(Frame)
      /\ Len([frames EXCEPT ![Len(frames)] = f]) = Len(frames)
      /\ \A d \in 1..Len(frames) :
            [frames EXCEPT ![Len(frames)] = f][d] = IF d = Len(frames) THEN f ELSE frames[d]
  BY <1>1, ExceptSeq
<1>3. /\ frames' \in Seq(Frame)
      /\ Len(frames') = Len(frames)
      /\ \A d \in 1..Len(frames) : frames'[d] = IF d = Len(frames) THEN f ELSE frames[d]
  BY <1>2 DEF ReplaceTop
<1>4. frames' # <<>>
  BY <1>1, <1>3, EmptySeq
<1>5. Top' = f
  BY <1>1, <1>3 DEF Top
<1>6. \A d \in 1..(Len(frames) - 1) : frames'[d] = frames[d]
  BY <1>1, <1>3
<1> QED
  BY <1>3, <1>4, <1>5, <1>6

LEMMA Popped ==
    ASSUME frames \in Seq(Frame), frames # <<>>,
           frames' = SubSeq(frames, 1, Len(frames) - 1)
    PROVE  /\ frames' \in Seq(Frame)
           /\ Len(frames') = Len(frames) - 1
           /\ frames' = <<>> <=> Len(frames) = 1
           /\ \A d \in 1..(Len(frames) - 1) : frames'[d] = frames[d]
<1>1. Len(frames) \in Nat \ {0}
  BY TopFrame
<1>2. \A i \in 1..(Len(frames) - 1) : frames[i] \in Frame
  BY <1>1, ElementOfSeq
<1>3. /\ frames' \in Seq(Frame)
      /\ Len(frames') = Len(frames) - 1
      /\ \A d \in 1..(Len(frames) - 1) : frames'[d] = frames[d]
  <2> DEFINE n == Len(frames) - 1
  <2>1. /\ n \in Int /\ n >= 0 /\ n - 1 + 1 = n
        /\ \A i \in 1..n : frames[i] \in Frame
        /\ \A i \in 1..n : 1 + i - 1 = i
    BY <1>1, <1>2
  <2> HIDE DEF n
  <2>2. /\ SubSeq(frames, 1, n) \in Seq(Frame)
        /\ Len(SubSeq(frames, 1, n)) = IF 1 <= n THEN n - 1 + 1 ELSE 0
        /\ \A i \in 1..(n - 1 + 1) : SubSeq(frames, 1, n)[i] = frames[1 + i - 1]
    BY <2>1, SubSeqProperties
  <2>3. /\ SubSeq(frames, 1, n) \in Seq(Frame)
        /\ Len(SubSeq(frames, 1, n)) = n
        /\ \A i \in 1..n : SubSeq(frames, 1, n)[i] = frames[i]
    BY <2>1, <2>2
  <2> QED
    BY <2>3 DEF n
<1>4. frames' = <<>> <=> Len(frames') = 0
  BY <1>3, EmptySeq
<1> QED
  BY <1>1, <1>3, <1>4

LEMMA Pushed ==
    ASSUME frames \in Seq(Frame), NEW f \in Frame, frames' = Append(frames, f)
    PROVE  /\ frames' \in Seq(Frame)
           /\ Len(frames') = Len(frames) + 1
           /\ frames' # <<>>
           /\ Top' = f
           /\ \A d \in 1..Len(frames) : frames'[d] = frames[d]
<1>1. /\ Append(frames, f) \in Seq(Frame)
      /\ Append(frames, f) # <<>>
      /\ Len(Append(frames, f)) = Len(frames) + 1
      /\ \A i \in 1..Len(frames) : Append(frames, f)[i] = frames[i]
      /\ Append(frames, f)[Len(frames) + 1] = f
  BY AppendProperties
<1> QED
  BY <1>1 DEF Top

-----------------------------------------------------------------------------
(* The effect on the invariant of the three things a step does to the      *)
(* stack.                                                                  *)

(* An iteration begins.                                                    *)
LEMMA PagesKeeps ==
    ASSUME IInv, NEW x \in Contexts \cup {NoContext}, Pages(x)
    PROVE  IInv'
<1> DEFINE f == [origin |-> token, at |-> "do", page |-> 0,
                 next |-> NoToken, seen |-> <<>>]
<1>1. f \in Frame
  BY PagesAssumption, EmptySeq DEF IInv, TypeOK, Frame
<1>2. /\ frames' \in Seq(Frame)
      /\ Len(frames') = Len(frames) + 1
      /\ frames' # <<>>
      /\ Top' = f
      /\ \A d \in 1..Len(frames) : frames'[d] = frames[d]
  <2>1. frames' = Append(frames, f)
    BY DEF Pages
  <2> HIDE DEF f
  <2> QED
    BY <1>1, <2>1, Pushed DEF IInv, TypeOK
<1>3. Len(frames) \in Nat /\ (frames = <<>> <=> Len(frames) = 0)
  BY EmptySeq DEF IInv, TypeOK
<1>4. frames # <<>> => frames[Len(frames)].at = "callback"
  BY DEF Pages, At, Top
<1>5. TypeOK'
  <2>1. \A d \in 1..(Len(frames') - 1) : frames'[d].at = "callback"
    BY <1>2, <1>3, <1>4 DEF IInv, TypeOK
  <2> QED
    BY <1>2, <2>1 DEF IInv, TypeOK, Pages
<1>6. FrameInv(f)
  BY EmptySeq DEF IInv, FrameInv, InOrder
<1>7. (\A d \in 1..Len(frames) : FrameInv(frames[d]))'
  <2> SUFFICES ASSUME NEW d \in 1..Len(frames')
               PROVE  FrameInv(frames'[d])
    OBVIOUS
  <2>1. CASE d \in 1..Len(frames)
    BY <1>2, <2>1 DEF IInv
  <2>2. CASE d = Len(frames) + 1
    <3>1. frames'[d] = f
      BY <1>2, <2>2 DEF Top
    <3> QED
      BY <3>1, <1>6
  <2> QED
    BY <1>2, <1>3, <2>1, <2>2
<1>8. PageDue'
  <2>1. Len(<<>>) = 0
    OBVIOUS
  <2>2. PageAt(token) \in 1..PageCount
    BY PageAtType DEF IInv
  <2>3. token' = token
    BY DEF Pages
  <2>4. PageAt(token)' = PageAt(token)
    BY <2>3 DEF PageAt
  <2> QED
    BY <1>2, <2>1, <2>2, <2>3, <2>4 DEF PageDue
<1>9. LastInOrder' /\ (token \in Tokens)'
  BY DEF IInv, LastInOrder, OnlyLastPageLost, Pages
<1>10. OriginKept'
  <2>1. CASE frames = <<>>
    BY <1>2, <1>3, <2>1 DEF IInv, OriginKept, Pages, Top
  <2>2. CASE frames # <<>>
    BY <1>2, <1>3, <2>2 DEF IInv, OriginKept, Pages
  <2> QED
    BY <2>1, <2>2
<1> QED
  BY <1>5, <1>7, <1>8, <1>9, <1>10 DEF IInv

(* An iteration ends, and its deferred reset runs.                         *)
LEMMA ReturnKeeps ==
    ASSUME IInv, frames # <<>>, NEW outcome \in Outcomes, Return(outcome),
           outcome = "nil" => PageAt(Top.origin) + Len(Top.seen) - 1 = PageCount,
           list = "registries" /\ outcome = "undecodable"
              => PageAt(Top.origin) + Len(Top.seen) = PageCount
    PROVE  IInv'
<1>1. /\ frames' \in Seq(Frame)
      /\ Len(frames') = Len(frames) - 1
      /\ frames' = <<>> <=> Len(frames) = 1
      /\ \A d \in 1..(Len(frames) - 1) : frames'[d] = frames[d]
  BY Popped DEF IInv, TypeOK, Return
<1>2. /\ Len(frames) \in Nat \ {0}
      /\ Top \in Frame
      /\ Top = frames[Len(frames)]
  BY TopFrame DEF IInv, TypeOK
<1>3. FrameInv(Top)
  BY <1>2 DEF IInv
<1>4. /\ token' = Top.origin
      /\ last' = [outcome |-> outcome, origin |-> Top.origin, seen |-> Top.seen]
      /\ UNCHANGED <<list, ctx, cancelled, chosen>>
  BY DEF Return
<1>5. TypeOK'
  <2>1. token' \in Nat \cup {NoToken}
    BY <1>2, <1>4 DEF Frame
  <2>2. last' \in [outcome : Outcomes, origin : Nat \cup {NoToken},
                   seen : Seq(1..PageCount)]
    BY <1>2, <1>4 DEF Frame
  <2>3. \A d \in 1..(Len(frames') - 1) : frames'[d].at = "callback"
    <3>1. \A d \in 1..(Len(frames) - 1) : frames[d].at = "callback"
      BY DEF IInv, TypeOK
    <3>2. \A d \in 1..(Len(frames') - 1) : d \in 1..(Len(frames) - 1)
      BY <1>1, <1>2
    <3> QED
      BY <1>1, <3>1, <3>2
  <2> QED
    <3>1. /\ list' \in Lists
          /\ ctx' \in Contexts \cup {NoContext}
          /\ cancelled' \subseteq Contexts
          /\ chosen' \in Tokens
      BY <1>4 DEF IInv, TypeOK
    <3>2. (chosen \in Tokens)'
      BY <3>1 DEF Tokens, PageTokens
    <3> QED
      BY <1>1, <2>1, <2>2, <2>3, <3>1, <3>2 DEF TypeOK
<1>6. (token \in Tokens)'
  BY <1>3, <1>4 DEF FrameInv
<1>7. (\A d \in 1..Len(frames) : FrameInv(frames[d]))'
  <2> SUFFICES ASSUME NEW d \in 1..Len(frames')
               PROVE  FrameInv(frames'[d])
    OBVIOUS
  <2>1. d \in 1..(Len(frames) - 1) /\ d \in 1..Len(frames)
    BY <1>1, <1>2
  <2> QED
    BY <1>1, <2>1 DEF IInv
<1>8. PageDue'
  <2>1. CASE frames' = <<>>
    BY <2>1 DEF PageDue, At
  <2>2. CASE frames' # <<>>
    <3>1. Len(frames) - 1 \in 1..(Len(frames) - 1)
      BY <1>1, <1>2, <2>2, BelowTop
    <3>2. Top' = frames[Len(frames) - 1]
      BY <1>1, <3>1 DEF Top
    <3>3. Top'.at = "callback"
      BY <3>1, <3>2 DEF IInv, TypeOK
    <3> QED
      BY <3>3 DEF PageDue, At
  <2> QED
    BY <2>1, <2>2
<1>9. LastInOrder'
  BY <1>3, <1>4 DEF FrameInv, LastInOrder, OnlyLastPageLost
<1>10. OriginKept'
  <2>1. CASE frames' = <<>>
    BY <1>1, <1>2, <1>4, <2>1 DEF IInv, OriginKept
  <2>2. CASE frames' # <<>>
    <3>1. 1 \in 1..(Len(frames) - 1)
      BY <1>1, <1>2, <2>2, BelowTop
    <3> QED
      BY <1>1, <1>4, <2>2, <3>1 DEF IInv, OriginKept
  <2> QED
    BY <2>1, <2>2
<1> QED
  BY <1>5, <1>6, <1>7, <1>8, <1>9, <1>10 DEF IInv

(* The innermost iteration moves on, and keeps the token or sets one.      *)
LEMMA ReplaceKeeps ==
    ASSUME IInv, frames # <<>>, NEW f \in Frame, ReplaceTop(f),
           FrameInv(f), f.origin = Top.origin,
           token' \in Tokens, token' \in Nat \cup {NoToken},
           f.at = "do" => PageAt(token') = PageAt(f.origin) + Len(f.seen),
           UNCHANGED <<list, ctx, cancelled, last, chosen>>
    PROVE  IInv'
<1>1. /\ frames' \in Seq(Frame)
      /\ Len(frames') = Len(frames)
      /\ frames' # <<>>
      /\ Top' = f
      /\ \A d \in 1..(Len(frames) - 1) : frames'[d] = frames[d]
  BY Replaced DEF IInv, TypeOK
<1>2. /\ Len(frames) \in Nat \ {0}
      /\ Top = frames[Len(frames)]
  BY TopFrame DEF IInv, TypeOK
<1>3. TypeOK'
  <2>1. \A d \in 1..(Len(frames') - 1) : frames'[d].at = "callback"
    BY <1>1, <1>2 DEF IInv, TypeOK
  <2> QED
    BY <1>1, <2>1 DEF IInv, TypeOK
<1>4. (\A d \in 1..Len(frames) : FrameInv(frames[d]))'
  <2> SUFFICES ASSUME NEW d \in 1..Len(frames')
               PROVE  FrameInv(frames'[d])
    OBVIOUS
  <2>1. CASE d \in 1..(Len(frames) - 1)
    BY <1>1, <1>2, <2>1 DEF IInv
  <2>2. CASE d = Len(frames)
    BY <1>1, <2>2 DEF Top
  <2> QED
    BY <1>1, <1>2, <2>1, <2>2
<1>5. PageDue'
  <2>1. PageAt(token)' = PageAt(token')
    BY DEF PageAt
  <2> QED
    BY <1>1, <2>1 DEF PageDue, At
<1>6. LastInOrder'
  BY DEF IInv, LastInOrder, OnlyLastPageLost
<1>7. OriginKept'
  <2>1. frames'[1].origin = frames[1].origin
    <3>1. CASE Len(frames) = 1
      BY <1>1, <1>2, <3>1 DEF Top
    <3>2. CASE Len(frames) # 1
      <4>1. 1 \in 1..(Len(frames) - 1)
        BY <1>2, <3>2, BelowTop
      <4> QED
        BY <1>1, <4>1
    <3> QED
      BY <3>1, <3>2
  <2> QED
    BY <1>1, <2>1 DEF IInv, OriginKept
<1> QED
  BY <1>3, <1>4, <1>5, <1>6, <1>7 DEF IInv

-----------------------------------------------------------------------------
(* The invariant.                                                          *)

LEMMA InvInit == Init => IInv
<1> SUFFICES ASSUME Init PROVE IInv
  OBVIOUS
<1>1. TypeOK
  BY PagesAssumption DEF Init, TypeOK, Outcomes, Tokens
<1> QED
  BY <1>1 DEF Init, IInv, PageDue, At, LastInOrder, OnlyLastPageLost, OriginKept,
             InOrder, Tokens

(* What a page that arrives makes of the innermost iteration.              *)
LEMMA ReceivedFrame ==
    ASSUME TokensFit, IInv, CanDo, NEW raw \in RawTokens(PageAt(token)),
           NEW f, f = [Top EXCEPT !.at = "callback", !.page = PageAt(token),
                                  !.next = DecodeToken(raw),
                                  !.seen = Append(@, PageAt(token))]
    PROVE  f \in Frame /\ FrameInv(f) /\ f.origin = Top.origin /\ f.at # "do"
<1>1. /\ Top \in Frame
      /\ FrameInv(Top)
  BY TopFrame DEF IInv, TypeOK, CanDo, At
<1>2. PageAt(token) \in 1..PageCount
  BY PageAtType DEF CanDo
<1>3. PageAt(token) = PageAt(Top.origin) + Len(Top.seen)
  BY DEF IInv, PageDue, CanDo
<1>4. DecodeToken(raw) = Successor(PageAt(token))
  BY <1>2, DecodedToken
<1>5. DecodeToken(raw) \in Nat \cup {NoToken}
  BY <1>2, <1>4, SuccessorToken
<1>6. /\ Append(Top.seen, PageAt(token)) \in Seq(1..PageCount)
      /\ Len(Append(Top.seen, PageAt(token))) = Len(Top.seen) + 1
      /\ \A i \in 1..Len(Top.seen) : Append(Top.seen, PageAt(token))[i] = Top.seen[i]
      /\ Append(Top.seen, PageAt(token))[Len(Top.seen) + 1] = PageAt(token)
  BY <1>1, <1>2, AppendProperties DEF Frame
<1>7. /\ f.origin = Top.origin /\ f.at = "callback" /\ f.page = PageAt(token)
      /\ f.next = DecodeToken(raw) /\ f.seen = Append(Top.seen, PageAt(token))
  BY <1>1 DEF Frame
<1>8. f \in Frame
  <2>1. PageAt(token) \in 0..PageCount
    BY <1>2, PagesAssumption
  <2> QED
    BY <1>1, <1>5, <1>6, <2>1 DEF Frame
<1>9. Len(Top.seen) \in Nat /\ PageAt(Top.origin) \in Int
  BY <1>1, LenProperties, PageAtType DEF Frame, FrameInv
<1>10. InOrder(f.origin, f.seen)
  <2> SUFFICES ASSUME NEW i \in 1..Len(f.seen)
               PROVE  f.seen[i] = PageAt(f.origin) + i - 1
    BY DEF InOrder
  <2>1. CASE i \in 1..Len(Top.seen)
    BY <1>1, <1>6, <1>7, <2>1 DEF FrameInv, InOrder
  <2>2. CASE i = Len(Top.seen) + 1
    BY <1>3, <1>6, <1>7, <1>9, <2>2
  <2> QED
    BY <1>6, <1>7, <1>9, <2>1, <2>2
<1>11. f.page = PageAt(f.origin) + Len(f.seen) - 1
  BY <1>3, <1>6, <1>7, <1>9
<1> QED
  BY <1>1, <1>4, <1>7, <1>8, <1>10, <1>11 DEF FrameInv

LEMMA InvNext == ASSUME TokensFit PROVE IInv /\ [Next]_vars => IInv'
<1> SUFFICES ASSUME IInv, [Next]_vars
             PROVE  IInv'
  OBVIOUS
<1>0. ASSUME frames # <<>>
      PROVE  /\ Top \in Frame
             /\ FrameInv(Top)
             /\ token \in Nat \cup {NoToken}
  BY <1>0, TopFrame DEF IInv, TypeOK
<1>1. ASSUME NEW t \in Tokens, PageToken(t)
      PROVE  IInv'
  BY <1>1, PagesAssumption
     DEF PageToken, IInv, TypeOK, PageDue, At, LastInOrder, OnlyLastPageLost, OriginKept,
         Tokens, PageTokens
<1>2. ASSUME NEW t \in Tokens, CallbackPageToken(t)
      PROVE  IInv'
  BY <1>2, PagesAssumption
     DEF CallbackPageToken, IInv, TypeOK, PageDue, At, Top, LastInOrder, OnlyLastPageLost,
         OriginKept, Tokens, PageTokens
<1>3. ASSUME NEW x \in Contexts, Cancel(x)
      PROVE  IInv'
  BY <1>3 DEF Cancel, IInv, TypeOK, PageDue, At, Top, LastInOrder, OnlyLastPageLost, OriginKept
<1>4. ASSUME NEW x \in Contexts \cup {NoContext}, Pages(x)
      PROVE  IInv'
  BY <1>4, PagesKeeps
<1>5. ASSUME DoFails \/ CallbackFails \/ CallbackPanics \/ NilPage
      PROVE  IInv'
  <2>1. frames # <<>>
    BY <1>5 DEF DoFails, CallbackFails, CallbackPanics, NilPage, At
  <2>2. PICK o \in {"error", "panic"} : Return(o)
    BY <1>5 DEF DoFails, CallbackFails, CallbackPanics, NilPage
  <2>3. o \in Outcomes /\ o # "nil" /\ o # "undecodable"
    BY DEF Outcomes
  <2> QED
    BY <2>1, <2>2, <2>3, ReturnKeeps
<1>6. ASSUME LastPage
      PROVE  IInv'
  <2>1. frames # <<>> /\ Top.at = "turn" /\ Top.page # 0 /\ Top.next = NoToken
    BY <1>6 DEF LastPage, At
  <2>2. Top.page = PageAt(Top.origin) + Len(Top.seen) - 1 /\ Successor(Top.page) = NoToken
    BY <1>0, <2>1 DEF FrameInv
  <2>3. Top.page \in 1..PageCount
    BY <1>0, <2>1 DEF Frame
  <2>4. Top.page = PageCount
    BY <2>2, <2>3, SuccessorToken
  <2>5. "nil" \in Outcomes /\ Return("nil")
    BY <1>6 DEF LastPage, Outcomes
  <2> QED
    BY <2>1, <2>2, <2>4, <2>5, ReturnKeeps
<1>7. ASSUME Receive
      PROVE  IInv'
  <2>1. CanDo /\ frames # <<>>
    BY <1>7 DEF Receive, CanDo, At
  <2>2. PICK raw \in RawTokens(PageAt(token)) :
           ReplaceTop([Top EXCEPT !.at = "callback", !.page = PageAt(token),
                                  !.next = DecodeToken(raw),
                                  !.seen = Append(@, PageAt(token))])
    BY <1>7 DEF Receive
  <2> DEFINE f == [Top EXCEPT !.at = "callback", !.page = PageAt(token),
                              !.next = DecodeToken(raw),
                              !.seen = Append(@, PageAt(token))]
  <2>3. f \in Frame /\ FrameInv(f) /\ f.origin = Top.origin /\ f.at # "do"
    BY <2>1, ReceivedFrame
  <2>4. UNCHANGED <<list, token, ctx, cancelled, last, chosen>>
    BY <1>7 DEF Receive
  <2>5. token' \in Tokens /\ token' \in Nat \cup {NoToken}
    BY <2>4 DEF IInv, TypeOK
  <2>6. ReplaceTop(f)
    BY <2>2
  <2> HIDE DEF f
  <2> QED
    BY <2>1, <2>3, <2>4, <2>5, <2>6, ReplaceKeeps
<1>8. ASSUME ReceiveNull
      PROVE  IInv'
  <2> DEFINE f == [Top EXCEPT !.at = "callback", !.page = 0]
  <2>1. frames # <<>> /\ ReplaceTop(f)
    BY <1>8 DEF ReceiveNull, CanDo, At
  <2>2. f \in Frame /\ f.origin = Top.origin /\ f.at = "callback" /\ f.page = 0
        /\ f.seen = Top.seen
    <3>1. 0 \in 0..PageCount
      BY PagesAssumption
    <3> QED
      BY <1>0, <2>1, <3>1 DEF Frame
  <2>3. FrameInv(f)
    BY <1>0, <2>1, <2>2 DEF FrameInv
  <2>4. /\ UNCHANGED <<list, token, ctx, cancelled, last, chosen>>
        /\ token' \in Tokens /\ token' \in Nat \cup {NoToken}
    BY <1>8 DEF ReceiveNull, IInv, TypeOK
  <2> HIDE DEF f
  <2> QED
    BY <2>1, <2>2, <2>3, <2>4, ReplaceKeeps
<1>9. ASSUME CallbackReturns
      PROVE  IInv'
  <2> DEFINE f == [Top EXCEPT !.at = "turn"]
  <2>1. frames # <<>> /\ ReplaceTop(f) /\ Top.at = "callback"
    BY <1>9 DEF CallbackReturns, At
  <2>2. f \in Frame /\ f.origin = Top.origin /\ f.at = "turn" /\ f.page = Top.page
        /\ f.seen = Top.seen /\ f.next = Top.next
    BY <1>0, <2>1 DEF Frame
  <2>3. FrameInv(f)
    BY <1>0, <2>1, <2>2 DEF FrameInv
  <2>4. /\ UNCHANGED <<list, token, ctx, cancelled, last, chosen>>
        /\ token' \in Tokens /\ token' \in Nat \cup {NoToken}
    BY <1>9 DEF CallbackReturns, IInv, TypeOK
  <2> HIDE DEF f
  <2> QED
    BY <2>1, <2>2, <2>3, <2>4, ReplaceKeeps
<1>10. ASSUME NextPage
       PROVE  IInv'
  <2> DEFINE f == [Top EXCEPT !.at = "do"]
  <2>1. frames # <<>> /\ ReplaceTop(f) /\ Top.at = "turn" /\ Top.page # 0
        /\ Top.next # NoToken /\ token' = Top.next
    BY <1>10 DEF NextPage, At
  <2>2. f \in Frame /\ f.origin = Top.origin /\ f.at = "do" /\ f.page = Top.page
        /\ f.seen = Top.seen /\ f.next = Top.next
    BY <1>0, <2>1 DEF Frame
  <2>3. FrameInv(f)
    BY <1>0, <2>1, <2>2 DEF FrameInv
  <2>4. /\ Top.page = PageAt(Top.origin) + Len(Top.seen) - 1
        /\ Top.next = Successor(Top.page)
    BY <1>0, <2>1 DEF FrameInv
  <2>5. Top.page \in 1..PageCount
    BY <1>0, <2>1 DEF Frame
  <2>6. token' \in Tokens /\ token' \in Nat \cup {NoToken}
        /\ PageAt(token') = Top.page + 1
    BY <2>1, <2>4, <2>5, SuccessorToken
  <2>7. Len(Top.seen) \in Nat /\ PageAt(Top.origin) \in Int
    BY <1>0, <2>1, LenProperties, PageAtType DEF Frame, FrameInv
  <2>8. PageAt(token') = PageAt(f.origin) + Len(f.seen)
    BY <2>2, <2>4, <2>6, <2>7
  <2>9. UNCHANGED <<list, ctx, cancelled, last, chosen>>
    BY <1>10 DEF NextPage
  <2> HIDE DEF f
  <2> QED
    BY <2>1, <2>2, <2>3, <2>6, <2>8, <2>9, ReplaceKeeps
<1>11. ASSUME ReceiveUndecodable
       PROVE  IInv'
  <2>1. CanDo /\ frames # <<>> /\ token \in Tokens /\ Return("undecodable")
    BY <1>11 DEF ReceiveUndecodable, CanDo, At
  <2>2. "undecodable" \in Outcomes
    BY DEF Outcomes
  <2>3. ASSUME list = "registries"
        PROVE  PageAt(Top.origin) + Len(Top.seen) = PageCount
    <3>1. PICK raw \in RawTokens(PageAt(token)) : ~Decodable(raw)
      BY <1>11 DEF ReceiveUndecodable
    <3>2. ~(PageAt(token) < PageCount)
      BY <2>3, <3>1 DEF RawTokens, Decodable
    <3>3. PageAt(token) = PageCount
      BY <2>1, <3>2, PageAtType, PagesAssumption
    <3> QED
      BY <2>1, <3>3 DEF IInv, PageDue, CanDo
  <2> QED
    BY <2>1, <2>2, <2>3, ReturnKeeps
<1>12. ASSUME UNCHANGED vars
       PROVE  IInv'
  BY <1>12 DEF vars, IInv, TypeOK, PageDue, At, Top, LastInOrder, OnlyLastPageLost, OriginKept
<1> QED
  BY <1>1, <1>2, <1>3, <1>4, <1>5, <1>6, <1>7, <1>8, <1>9, <1>10, <1>11, <1>12
     DEF Next, Do, CallbackEnds, Turn

LEMMA Inductive == ASSUME TokensFit PROVE Spec => []IInv
  BY InvInit, InvNext, PTL DEF Spec

-----------------------------------------------------------------------------
(* The theorems.                                                           *)

(* Every variable of Pages keeps its type, and every iteration but the     *)
(* innermost stays in its f.                                               *)
THEOREM PagesTypeCorrect == ASSUME TokensFit PROVE Spec => []TypeOK
<1>1. IInv => TypeOK
  BY DEF IInv
<1> QED
  BY <1>1, Inductive, PTL

(* f gets the pages in order, each once, and all of them if Pages returns  *)
(* nil, whatever f does with the call.                                     *)
THEOREM EveryPageOnce == ASSUME TokensFit PROVE Spec => []PagesInOrder
<1>1. IInv => PagesInOrder
  BY DEF IInv, FrameInv, LastInOrder, PagesInOrder
<1> QED
  BY <1>1, Inductive, PTL

(* However Pages ends, the call has its user's token again.                *)
THEOREM TokenGivenBack == ASSUME TokensFit PROVE Spec => []TokenRestored
<1>1. IInv => TokenRestored
  BY DEF IInv, OriginKept, TokenRestored
<1> QED
  BY <1>1, Inductive, PTL

(* registries.list, which rejects the last page, gives f all the others    *)
(* first.                                                                  *)
THEOREM LosesOnlyLastPage == ASSUME TokensFit PROVE Spec => []OnlyLastPageLost
<1>1. IInv => OnlyLastPageLost
  BY DEF IInv, LastInOrder
<1> QED
  BY <1>1, Inductive, PTL
=============================================================================
