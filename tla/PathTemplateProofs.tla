------------------------- MODULE PathTemplateProofs -------------------------
(***************************************************************************)
(* Proofs about path templates, for every set of literals and paths: the   *)
(* parser's templates are sound, Match decides, and Render inverts Match.  *)
(*                                                                         *)
(* The invariant says where in the path each segment starts.  A variable's *)
(* value is then the stretch of the path from the start of its first       *)
(* segment to the start of the segment after its last, which is why Match  *)
(* may join the parts and Render may put the value in for the first        *)
(* segment alone.                                                          *)
(***************************************************************************)
EXTENDS PathTemplate, SequenceTheorems, TLAPS

SegmentSet == [kind : {"label", "wildcard", "pathWildcard"}, text : Texts,
               after : Nat, name : Names \cup {NoName}]

(***************************************************************************)
(* The invariant of the parser.                                            *)
(***************************************************************************)
NameOf(j) == segs[j].name

(* The names of the segments are those handed out so far.                  *)
NamesGiven ==
    \A j \in DOMAIN segs :
        NameOf(j) \in seenName \cup {NoName} \cup {Unnamed(n) : n \in 0 .. nextVar - 1}

(* A segment without a name is a label.                                    *)
NamelessAreLabels ==
    \A j \in DOMAIN segs : NameOf(j) = NoName => segs[j].kind = "label"

(* The segments of a variable stand together, and those of the variable    *)
(* that is being parsed stand at the end.                                  *)
Contiguous ==
    \A j, k, l \in DOMAIN segs :
        j < k /\ k < l /\ NameOf(j) = NameOf(l) /\ NameOf(j) # NoName
        => NameOf(k) = NameOf(j)

CurrentIsLast ==
    name # NoName =>
        \A j, k \in DOMAIN segs : j < k /\ NameOf(j) = name => NameOf(k) = name

OnePathWildcard ==
    /\ \A j, k \in PathWildcards : j = k
    /\ ~seenPathWildcard => PathWildcards = {}

Positions ==
    /\ pc = "star" => nextVar < read
    /\ name \in seenName \cup {NoName}
    /\ pc \in {"template", "name"} \/ (Using) => name = NoName
    /\ pc = "bind" => name # NoName /\ \A j \in DOMAIN segs : NameOf(j) # name
    /\ pc = "template" => segs = <<>>
    /\ pc = "next" \/ Using => segs # <<>>
    /\ Using => \A j \in PathWildcards : segs[j].after = Len(segs) - j

ParserInv ==
    /\ NamesGiven
    /\ NamelessAreLabels
    /\ Contiguous
    /\ CurrentIsLast
    /\ OnePathWildcard
    /\ Positions

(***************************************************************************)
(* The invariants of Match and Render.                                     *)
(***************************************************************************)
Surplus == Len(path) - Len(segs)

Passed(j) == \E w \in PathWildcards : w < j

(* Where in the path segment j starts.                                     *)
Start(j) == IF Passed(j) THEN j + Surplus ELSE j

(* The part of the path from segment a to segment b.                       *)
Stretch(a, b) == SubSeq(path, Start(a), Start(b + 1) - 1)

(* The first m segments agree with the path.                               *)
Agrees(m) ==
    /\ Passed(m + 1) => Surplus >= 0
    /\ \A j \in 1 .. m : segs[j].kind = "label" => path[Start(j)] = segs[j].text

(* v holds the values that the first m segments should give.               *)
Valued(v, m) ==
    /\ \A n \in Names : (\A j \in 1 .. m : NameOf(j) # n) => v[n] = Absent
    /\ \A j \in 1 .. m : NameOf(j) # NoName =>
          \E a, b \in 1 .. m :
              /\ a <= j /\ j <= b
              /\ v[NameOf(j)] \in Path
              /\ \A k \in 1 .. m : NameOf(k) = NameOf(j) <=> a <= k /\ k <= b
              /\ v[NameOf(j)] = Stretch(a, b)

Whole == Start(Len(segs) + 1) = Len(path) + 1

MatchInv ==
    /\ pc = "match" => pos = Start(i) /\ Agrees(i - 1) /\ Valued(values, i - 1)
    /\ pc = "matched" => Whole /\ Agrees(Len(segs)) /\ Valued(values, Len(segs))
    /\ pc = "unmatched" => ~StandFor(1, Len(segs), path)

(* Render has done the segments before e, having put in the value of the   *)
(* variable whose segments i to e - 1 are still to be passed over.         *)
RenderedUpTo(e) ==
    /\ result = SubSeq(path, 1, Start(e) - 1)
    /\ \A j \in i .. e - 1 : NameOf(j) = lastVariableName /\ lastVariableName # NoName
    /\ e <= Len(segs) /\ lastVariableName # NoName => NameOf(e) # lastVariableName

RenderInv ==
    /\ pc \in {"render", "rendered", "missing"} /\ order = "match" =>
          /\ pc # "missing"
          /\ Whole /\ Agrees(Len(segs)) /\ Valued(values, Len(segs))
          /\ binding = values
          /\ lastVariableName = IF i = 1 THEN NoName ELSE NameOf(i - 1)
          /\ \E e \in i .. Len(segs) + 1 : RenderedUpTo(e)
    /\ pc = "rendered" /\ order = "match" => result = path

Inv == TypeOK /\ ParserInv /\ MatchInv /\ RenderInv
-----------------------------------------------------------------------------
(***************************************************************************)
(* The parser.                                                             *)
(***************************************************************************)
LEMMA SegmentsTyped ==
    ASSUME TypeOK
    PROVE  /\ segs \in Seq(SegmentSet)
           /\ Len(segs) \in Nat
           /\ DOMAIN segs = 1 .. Len(segs)
           /\ \A j \in DOMAIN segs : segs[j] \in SegmentSet
<1>1. segs \in Seq(SegmentSet)
  BY DEF TypeOK, SegmentSet
<1> QED
  BY <1>1

(* Unnamed variables are called like no other.                             *)
LEMMA UnnamedFresh ==
    ASSUME TypeOK, NamesGiven
    PROVE  /\ nextVar \in 0 .. MaxTokens
           /\ Unnamed(nextVar) \in Names
           /\ Unnamed(nextVar) # NoName
           /\ \A j \in DOMAIN segs : NameOf(j) # Unnamed(nextVar)
           /\ \A n \in 0 .. nextVar - 1 : Unnamed(n) \notin Literals
<1>1. nextVar \in 0 .. MaxTokens /\ MaxTokens \in Nat
  BY TextAssumption DEF TypeOK
<1>2. seenName \subseteq Literals
  BY DEF TypeOK
<1>3. \A n \in 0 .. nextVar - 1 : n \in 0 .. MaxTokens /\ n # nextVar
  BY <1>1
<1>4. Unnamed(nextVar) \notin Literals \cup {NoName}
  BY <1>1, UnnamedAssumption
<1>5. \A n \in 0 .. nextVar - 1 : Unnamed(n) # Unnamed(nextVar) /\ Unnamed(n) \notin Literals
  BY <1>1, <1>3, UnnamedAssumption
<1>6. Unnamed(nextVar) \in Names
  BY <1>1 DEF Names
<1>7. ASSUME NEW j \in DOMAIN segs
      PROVE  NameOf(j) # Unnamed(nextVar)
  BY <1>2, <1>4, <1>5 DEF NamesGiven
<1> QED
  BY <1>1, <1>4, <1>5, <1>6, <1>7

(* A segment of the variable being parsed, of a new unnamed variable, or a *)
(* label outside all variables may be added.                               *)
LEMMA AddSegment ==
    ASSUME TypeOK, ParserInv,
           NEW s \in SegmentSet, segs' = Append(segs, s),
           name # NoName => s.name = name,
           name = NoName => \/ s.name = NoName
                            \/ s.name = Unnamed(nextVar) /\ nextVar' = nextVar + 1,
           s.name = NoName => s.kind = "label",
           name' \in {name, NoName}, seenName' = seenName,
           nextVar' \in {nextVar, nextVar + 1},
           seenPathWildcard => seenPathWildcard',
           s.kind = "pathWildcard" => ~seenPathWildcard /\ seenPathWildcard'
    PROVE  /\ segs' \in Seq(SegmentSet)
           /\ segs' # <<>>
           /\ Len(segs') = Len(segs) + 1
           /\ NamesGiven' /\ NamelessAreLabels' /\ Contiguous'
           /\ CurrentIsLast' /\ OnePathWildcard'
<1> DEFINE L == Len(segs)
<1>1. /\ segs \in Seq(SegmentSet)
      /\ L \in Nat
      /\ DOMAIN segs = 1 .. L
  BY SegmentsTyped
<1>2. /\ segs' \in Seq(SegmentSet)
      /\ segs' # <<>>
      /\ Len(segs') = L + 1
      /\ \A j \in 1 .. L : segs'[j] = segs[j]
      /\ segs'[L + 1] = s
  BY <1>1, AppendProperties
<1>3. DOMAIN segs' = 1 .. L + 1
  BY <1>1, <1>2
<1>4. \A j \in 1 .. L : NameOf(j)' = NameOf(j) /\ segs'[j].kind = segs[j].kind
  BY <1>2 DEF NameOf
<1>5. \A j \in 1 .. L + 1 : j = L + 1 => NameOf(j)' = s.name
  BY <1>2 DEF NameOf
<1>6. /\ nextVar \in 0 .. MaxTokens
      /\ Unnamed(nextVar) # NoName
      /\ \A j \in DOMAIN segs : NameOf(j) # Unnamed(nextVar)
  BY UnnamedFresh DEF ParserInv
<1>7. name \in seenName \cup {NoName}
  BY DEF ParserInv, Positions
<1>8. NamesGiven'
  <2>1. \A n \in 0 .. nextVar - 1 : n \in 0 .. nextVar' - 1
    <3>1. nextVar' = nextVar \/ nextVar' = nextVar + 1
      OBVIOUS
    <3>2. nextVar \in Nat
      BY <1>6, TextAssumption
    <3>3. CASE nextVar' = nextVar
      BY <3>3
    <3>4. CASE nextVar' = nextVar + 1
      BY <3>2, <3>4
    <3> QED
      BY <3>1, <3>3, <3>4
  <2>2. s.name = Unnamed(nextVar) /\ nextVar' = nextVar + 1 => nextVar \in 0 .. nextVar' - 1
    BY <1>6
  <2>3. s.name \in seenName' \cup {NoName} \cup {Unnamed(n) : n \in 0 .. nextVar' - 1}
    BY <1>7, <2>2
  <2>4. ASSUME NEW j \in 1 .. L
        PROVE  NameOf(j)' \in seenName' \cup {NoName} \cup {Unnamed(n) : n \in 0 .. nextVar' - 1}
    BY <1>1, <1>4, <2>1 DEF ParserInv, NamesGiven
  <2> QED
    BY <1>1, <1>3, <1>5, <2>3, <2>4 DEF NamesGiven
<1>9. NamelessAreLabels'
  BY <1>1, <1>2, <1>3, <1>4, <1>5 DEF ParserInv, NamelessAreLabels
<1>10. Contiguous'
  <2> SUFFICES ASSUME NEW j \in 1 .. L + 1, NEW k \in 1 .. L + 1, NEW l \in 1 .. L + 1,
                      j < k, k < l, NameOf(j)' = NameOf(l)', NameOf(j)' # NoName
               PROVE  NameOf(k)' = NameOf(j)'
    BY <1>3 DEF Contiguous
  <2>1. j \in 1 .. L /\ k \in 1 .. L
    BY <1>1
  <2>2. CASE l \in 1 .. L
    BY <1>1, <1>4, <2>1, <2>2 DEF ParserInv, Contiguous
  <2>3. CASE l = L + 1
    <3>1. NameOf(j) = s.name /\ s.name # NoName
      BY <1>4, <1>5, <2>1, <2>3
    <3>2. name # NoName /\ NameOf(j) = name
      BY <1>1, <1>6, <2>1, <3>1
    <3> QED
      BY <1>1, <1>4, <2>1, <3>2 DEF ParserInv, CurrentIsLast
  <2> QED
    BY <1>1, <2>2, <2>3
<1>11. CurrentIsLast'
  <2> SUFFICES ASSUME name' # NoName, NEW j \in 1 .. L + 1, NEW k \in 1 .. L + 1,
                      j < k, NameOf(j)' = name'
               PROVE  NameOf(k)' = name'
    BY <1>3 DEF CurrentIsLast
  <2>1. name' = name /\ s.name = name /\ j \in 1 .. L
    BY <1>1
  <2>2. CASE k \in 1 .. L
    BY <1>1, <1>4, <2>1, <2>2 DEF ParserInv, CurrentIsLast
  <2>3. CASE k = L + 1
    BY <1>5, <2>1, <2>3
  <2> QED
    BY <1>1, <2>2, <2>3
<1>12. OnePathWildcard'
  <2>1. PathWildcards' \subseteq PathWildcards \cup {L + 1}
    BY <1>1, <1>3, <1>4 DEF PathWildcards
  <2>2. L + 1 \in PathWildcards' => s.kind = "pathWildcard"
    BY <1>2 DEF PathWildcards
  <2> QED
    BY <2>1, <2>2 DEF ParserInv, OnePathWildcard
<1> QED
  BY <1>2, <1>8, <1>9, <1>10, <1>11, <1>12

(* What holds of the segments holds on while they stay.                    *)
LEMMA SameSegments ==
    ASSUME ParserInv, segs' = segs, seenName \subseteq seenName', nextVar' = nextVar,
           seenPathWildcard' = seenPathWildcard
    PROVE  /\ NamesGiven' /\ NamelessAreLabels' /\ Contiguous' /\ OnePathWildcard'
           /\ PathWildcards' = PathWildcards
           /\ \A j \in DOMAIN segs : NameOf(j)' = NameOf(j)
           /\ name' \in {name, NoName} => CurrentIsLast'
<1>1. \A j \in DOMAIN segs : NameOf(j)' = NameOf(j)
  BY DEF NameOf
<1>2. PathWildcards' = PathWildcards
  BY DEF PathWildcards
<1>3. NamesGiven'
  BY <1>1 DEF ParserInv, NamesGiven
<1>4. NamelessAreLabels'
  BY <1>1 DEF ParserInv, NamelessAreLabels
<1>5. Contiguous'
  BY <1>1 DEF ParserInv, Contiguous
<1>6. OnePathWildcard'
  BY <1>2 DEF ParserInv, OnePathWildcard
<1>7. name' \in {name, NoName} => CurrentIsLast'
  BY <1>1 DEF ParserInv, CurrentIsLast
<1> QED
  BY <1>1, <1>2, <1>3, <1>4, <1>5, <1>6, <1>7

LEMMA ConsumeTyped ==
    ASSUME TypeOK, Consume
    PROVE  next' \in Tokens /\ read' \in 0 .. MaxTokens /\ read' = read + 1
<1>1. read \in 0 .. MaxTokens /\ MaxTokens \in Nat
  BY TextAssumption DEF TypeOK
<1> QED
  BY <1>1 DEF Consume

(* What a step of the parser has to show.                                  *)
LEMMA ParserStepTyped ==
    ASSUME TypeOK, NoCalls, Parsing' \/ Using',
           next' \in Tokens, read' \in 0 .. MaxTokens,
           segs' \in Seq(SegmentSet), Len(segs) <= Len(segs'),
           name' \in Literals \cup {NoName}, nextVar' \in 0 .. read',
           seenName' \in SUBSET Literals, seenPathWildcard' \in BOOLEAN
    PROVE  TypeOK'
<1>1. order' = order /\ i' = i /\ path' = path /\ pos' = pos /\ values' = values
  BY DEF NoCalls, matching
<1>2. binding' = binding /\ lastVariableName' = lastVariableName /\ result' = result
  BY DEF NoCalls, rendering
<1>3. Len(segs) \in Nat /\ Len(segs') \in Nat /\ i' \in 1 .. Len(segs') + 1
  <2>1. Len(segs) \in Nat /\ i \in 1 .. Len(segs) + 1
    BY SegmentsTyped DEF TypeOK
  <2>2. Len(segs') \in Nat
    OBVIOUS
  <2> QED
    BY <1>1, <2>1, <2>2
<1>4. segs' \in Seq([kind : {"label", "wildcard", "pathWildcard"}, text : Texts,
                     after : Nat, name : Names \cup {NoName}])
  BY DEF SegmentSet
<1>5. /\ order' \in {"none", "match", "render"}
      /\ path' \in Seq(Texts)
      /\ pos' \in 1 .. Len(path') + 1
      /\ values' \in [Names -> Path \cup {Absent}]
      /\ binding' \in [Names -> Path \cup {Absent}]
      /\ lastVariableName' \in Names \cup {NoName}
      /\ result' \in Seq(Texts)
  BY <1>1, <1>2 DEF TypeOK
<1> QED
  BY <1>3, <1>4, <1>5 DEF TypeOK

(* A step that leaves the segments as they are.                            *)
LEMMA QuietStep ==
    ASSUME TypeOK, ParserInv, NoCalls, Parsing',
           next' \in Tokens, read' \in 0 .. MaxTokens, read <= read',
           segs' = segs, nextVar' = nextVar, seenPathWildcard' = seenPathWildcard,
           seenName \subseteq seenName', seenName' \subseteq Literals,
           name' \in seenName' \cup {NoName}, CurrentIsLast',
           pc' = "star" => read < read',
           pc' \in {"template", "name"} => name' = NoName,
           pc' = "bind" => name' # NoName /\ \A j \in DOMAIN segs : NameOf(j) # name',
           pc' # "template",
           pc' = "next" => segs # <<>>
    PROVE  TypeOK' /\ ParserInv'
<1>1. /\ segs \in Seq(SegmentSet) /\ Len(segs) \in Nat
  BY SegmentsTyped
<1>2. read \in Nat /\ nextVar \in 0 .. read /\ read' \in Nat
  BY TextAssumption DEF TypeOK
<1>3. nextVar' \in 0 .. read' /\ (pc' = "star" => nextVar' < read')
  BY <1>2
<1>4. TypeOK'
  BY <1>1, <1>3, ParserStepTyped DEF TypeOK
<1>5. ~Using'
  BY DEF Parsing, Using
<1>6. /\ NamesGiven' /\ NamelessAreLabels' /\ Contiguous' /\ OnePathWildcard'
      /\ \A j \in DOMAIN segs : NameOf(j)' = NameOf(j)
  BY SameSegments
<1>7. Positions'
  BY <1>3, <1>5, <1>6 DEF Positions
<1> QED
  BY <1>4, <1>6, <1>7 DEF ParserInv

(* A step that adds a segment.                                             *)
LEMMA AddStep ==
    ASSUME TypeOK, ParserInv, NoCalls, Parsing',
           NEW s \in SegmentSet, segs' = Append(segs, s),
           name # NoName => s.name = name,
           name = NoName => \/ s.name = NoName
                            \/ s.name = Unnamed(nextVar) /\ nextVar' = nextVar + 1,
           s.name = NoName => s.kind = "label",
           name' \in {name, NoName}, seenName' = seenName,
           nextVar' \in {nextVar, nextVar + 1},
           seenPathWildcard' \in BOOLEAN, seenPathWildcard => seenPathWildcard',
           s.kind = "pathWildcard" => ~seenPathWildcard /\ seenPathWildcard',
           next' \in Tokens, read' \in 0 .. MaxTokens, nextVar' \in 0 .. read',
           pc' \in {"next", "segment"}
    PROVE  TypeOK' /\ ParserInv'
<1>1. /\ segs' \in Seq(SegmentSet) /\ segs' # <<>> /\ Len(segs') = Len(segs) + 1
      /\ NamesGiven' /\ NamelessAreLabels' /\ Contiguous'
      /\ CurrentIsLast' /\ OnePathWildcard'
  BY AddSegment
<1>2. Len(segs) \in Nat /\ Len(segs) <= Len(segs')
  BY <1>1, SegmentsTyped
<1>3. name' \in Literals \cup {NoName} /\ seenName' \in SUBSET Literals
  BY DEF TypeOK
<1>4. TypeOK'
  BY <1>1, <1>2, <1>3, ParserStepTyped
<1>5. name' \in seenName' \cup {NoName}
  BY DEF ParserInv, Positions
<1>6. Positions'
  BY <1>1, <1>5 DEF Positions, Parsing, Using
<1> QED
  BY <1>1, <1>4, <1>6 DEF ParserInv

(* The parser comes to an end: all it leaves is the length of "**".        *)
LEMMA ParsedStep ==
    ASSUME TypeOK, ParserInv, Parsed
    PROVE  TypeOK' /\ ParserInv'
<1> DEFINE L == Len(segs)
           Known(j) == IF segs[j].kind = "pathWildcard"
                       THEN [segs[j] EXCEPT !.after = Len(segs) - j]
                       ELSE segs[j]
<1>1. /\ segs \in Seq(SegmentSet) /\ L \in Nat /\ DOMAIN segs = 1 .. L
      /\ \A j \in 1 .. L : segs[j] \in SegmentSet
  BY SegmentsTyped
<1>2. segs' = [j \in 1 .. L |-> Known(j)]
  BY <1>1 DEF Parsed
<1>3. ASSUME NEW j \in 1 .. L
      PROVE  /\ Known(j) \in SegmentSet
             /\ Known(j).name = segs[j].name
             /\ Known(j).kind = segs[j].kind
             /\ segs[j].kind = "pathWildcard" => Known(j).after = L - j
  <2>1. L - j \in Nat
    BY <1>1
  <2>2. segs[j] \in SegmentSet
    BY <1>1
  <2> QED
    BY <2>1, <2>2 DEF SegmentSet
<1> HIDE DEF Known
<1>4. /\ segs' \in Seq(SegmentSet) /\ Len(segs') = L /\ DOMAIN segs' = 1 .. L
      /\ \A j \in 1 .. L : segs'[j] = Known(j)
  BY <1>1, <1>2, <1>3
<1>5. /\ UNCHANGED <<input, parser>> /\ NoCalls
      /\ pc = "next" /\ name = NoName /\ pc' = "parsed"
  BY DEF Parsed, Goto
<1>6. TypeOK'
  <2>1. Len(segs) <= Len(segs')
    BY <1>1, <1>4
  <2>2. /\ next' = next /\ read' = read /\ name' = name /\ nextVar' = nextVar
        /\ seenName' = seenName /\ seenPathWildcard' = seenPathWildcard
    BY <1>5 DEF input, parser
  <2>3. Using'
    BY <1>5 DEF Using
  <2>4. /\ next' \in Tokens /\ read' \in 0 .. MaxTokens /\ name' \in Literals \cup {NoName}
        /\ nextVar' \in 0 .. read' /\ seenName' \in SUBSET Literals
        /\ seenPathWildcard' \in BOOLEAN
    BY <2>2 DEF TypeOK
  <2> QED
    BY <1>4, <1>5, <2>1, <2>3, <2>4, ParserStepTyped
<1>7. \A j \in 1 .. L : NameOf(j)' = NameOf(j) /\ segs'[j].kind = segs[j].kind
  BY <1>3, <1>4 DEF NameOf
<1>8. PathWildcards' = PathWildcards
  BY <1>1, <1>4, <1>7 DEF PathWildcards
<1>9. /\ name' = name /\ nextVar' = nextVar /\ seenName' = seenName
      /\ seenPathWildcard' = seenPathWildcard
  BY <1>5 DEF parser
<1>10. NamesGiven'
  BY <1>1, <1>4, <1>7, <1>9 DEF ParserInv, NamesGiven
<1>11. NamelessAreLabels' /\ Contiguous' /\ CurrentIsLast' /\ OnePathWildcard'
  BY <1>1, <1>4, <1>5, <1>7, <1>8, <1>9
     DEF ParserInv, NamelessAreLabels, Contiguous, CurrentIsLast, OnePathWildcard
<1>12. segs' # <<>>
  <2>1. segs # <<>>
    BY <1>5 DEF ParserInv, Positions
  <2> QED
    BY <1>1, <1>4, <2>1
<1>13. \A j \in PathWildcards' : segs'[j].after = Len(segs') - j
  BY <1>3, <1>4, <1>7 DEF PathWildcards
<1>14. Positions'
  BY <1>5, <1>9, <1>12, <1>13 DEF ParserInv, Positions
<1> QED
  BY <1>6, <1>10, <1>11, <1>14 DEF ParserInv

LEMMA ParseStep ==
    ASSUME TypeOK, ParserInv, Parse
    PROVE  TypeOK' /\ ParserInv'
<1>1. /\ segs \in Seq(SegmentSet) /\ Len(segs) \in Nat
      /\ next \in Tokens /\ read \in 0 .. MaxTokens /\ read \in Nat
      /\ nextVar \in 0 .. read /\ nextVar \in Nat
      /\ seenName \subseteq Literals /\ seenPathWildcard \in BOOLEAN
  BY SegmentsTyped, TextAssumption DEF TypeOK
<1>2. name \in seenName \cup {NoName} /\ CurrentIsLast /\ NoName \notin Literals
  BY TextAssumption DEF ParserInv, Positions
<1>3. ASSUME Consume PROVE next' \in Tokens /\ read' \in 0 .. MaxTokens /\ read' = read + 1
  BY <1>3, ConsumeTyped
<1>4. ASSUME NEW k \in {"label", "wildcard", "pathWildcard"}, NEW t \in Texts,
             NEW n \in Names \cup {NoName}
      PROVE  /\ Segment(k, t, n) \in SegmentSet
             /\ Segment(k, t, n).kind = k
             /\ Segment(k, t, n).name = n
  BY DEF Segment, SegmentSet
<1>5. /\ name \in Names \cup {NoName}
      /\ WildcardName \in Names
      /\ WildcardName # NoName
      /\ name # NoName => WildcardName = name
      /\ name = NoName => WildcardName = Unnamed(nextVar)
  BY <1>1, <1>2, UnnamedFresh DEF ParserInv, WildcardName, Names
<1>6. CASE InitialSlash
  <2>1. /\ segs' = Append(segs, Segment("label", EmptyText, NoName))
        /\ Consume /\ NoCalls /\ pc = "template" /\ pc' = "segment" /\ UNCHANGED parser
    BY <1>6 DEF InitialSlash, Add, Goto
  <2>2. name = NoName
    BY <2>1 DEF ParserInv, Positions
  <2>3. EmptyText \in Texts
    BY DEF Texts
  <2>4. nextVar' = nextVar /\ nextVar' \in 0 .. read' /\ name' = name
        /\ seenName' = seenName /\ seenPathWildcard' = seenPathWildcard
    BY <1>1, <1>3, <2>1 DEF parser
  <2>5. Parsing'
    BY <2>1 DEF Parsing
  <2> QED
    BY <1>1, <1>3, <1>4, <2>1, <2>2, <2>3, <2>4, <2>5, AddStep
<1>7. CASE Wildcard
  <2>1. /\ segs' = Append(segs, Segment("wildcard", EmptyText, WildcardName))
        /\ CountVar /\ NoCalls /\ pc = "star" /\ pc' = "next"
        /\ UNCHANGED <<input, name, seenName, seenPathWildcard>>
    BY <1>7 DEF Wildcard, Add, Goto
  <2>2. nextVar < read
    BY <2>1 DEF ParserInv, Positions
  <2>3. /\ next' \in Tokens /\ read' = read /\ read' \in 0 .. MaxTokens
    BY <1>1, <2>1 DEF input
  <2>4. nextVar' \in {nextVar, nextVar + 1} /\ nextVar' \in 0 .. read'
        /\ (name = NoName => nextVar' = nextVar + 1)
    BY <1>1, <2>1, <2>2, <2>3 DEF CountVar
  <2>5. EmptyText \in Texts
    BY DEF Texts
  <2>6. Parsing'
    BY <2>1 DEF Parsing
  <2> QED
    BY <1>1, <1>4, <1>5, <2>1, <2>3, <2>4, <2>5, <2>6, AddStep
<1>8. CASE PathWildcard
  <2>1. /\ segs' = Append(segs, Segment("pathWildcard", EmptyText, WildcardName))
        /\ CountVar /\ NoCalls /\ Consume /\ pc = "star" /\ pc' = "next"
        /\ ~seenPathWildcard /\ seenPathWildcard' = TRUE
        /\ UNCHANGED <<name, seenName>>
    BY <1>8 DEF PathWildcard, Add, Goto
  <2>2. nextVar' \in {nextVar, nextVar + 1} /\ nextVar' \in 0 .. read'
        /\ (name = NoName => nextVar' = nextVar + 1)
    BY <1>1, <1>3, <2>1 DEF CountVar
  <2>3. EmptyText \in Texts
    BY DEF Texts
  <2>4. Parsing'
    BY <2>1 DEF Parsing
  <2> QED
    BY <1>1, <1>3, <1>4, <1>5, <2>1, <2>2, <2>3, <2>4, AddStep
<1>9. CASE Label
  <2>1. /\ segs' = Append(segs, Segment("label", next, name)) /\ next \in Literals
        /\ Consume /\ NoCalls /\ pc' = "next" /\ UNCHANGED parser
    BY <1>9 DEF Label, Add, Goto
  <2>2. next \in Texts
    BY <2>1 DEF Texts
  <2>3. nextVar' = nextVar /\ nextVar' \in 0 .. read' /\ name' = name
        /\ seenName' = seenName /\ seenPathWildcard' = seenPathWildcard
    BY <1>1, <1>3, <2>1 DEF parser
  <2>4. Parsing'
    BY <2>1 DEF Parsing
  <2> QED
    BY <1>1, <1>3, <1>4, <1>5, <2>1, <2>2, <2>3, <2>4, AddStep
<1>10. CASE BareVariable
  <2>1. /\ segs' = Append(segs, Segment("wildcard", EmptyText, name))
        /\ Consume /\ NoCalls /\ pc = "bind" /\ pc' = "next" /\ name' = NoName
        /\ UNCHANGED <<nextVar, seenName, seenPathWildcard>>
    BY <1>10 DEF BareVariable, Add, Goto
  <2>2. name # NoName
    BY <2>1 DEF ParserInv, Positions
  <2>3. EmptyText \in Texts
    BY DEF Texts
  <2>4. nextVar' \in 0 .. read'
    BY <1>1, <1>3, <2>1
  <2>5. Parsing'
    BY <2>1 DEF Parsing
  <2> QED
    BY <1>1, <1>3, <1>4, <1>5, <2>1, <2>2, <2>3, <2>4, <2>5, AddStep
<1>11. CASE VariableName
  <2>1. /\ next \in Literals \ seenName /\ Consume /\ name' = next
        /\ seenName' = seenName \cup {next} /\ pc' = "bind" /\ NoCalls
        /\ UNCHANGED <<segs, nextVar, seenPathWildcard>>
    BY <1>11 DEF VariableName, Goto
  <2>2. \A j \in DOMAIN segs : NameOf(j) # next
    <3>1. \A n \in 0 .. nextVar - 1 : Unnamed(n) \notin Literals
      BY UnnamedFresh DEF ParserInv
    <3> QED
      BY <1>2, <2>1, <3>1 DEF ParserInv, NamesGiven
  <2>3. \A j \in DOMAIN segs : NameOf(j)' = NameOf(j)
    BY <2>1 DEF NameOf
  <2>4. CurrentIsLast'
    BY <2>1, <2>2, <2>3 DEF CurrentIsLast
  <2>5. Parsing'
    BY <2>1 DEF Parsing
  <2> QED
    BY <1>1, <1>2, <1>3, <2>1, <2>2, <2>4, <2>5, QuietStep
<1>12. ASSUME Reject PROVE TypeOK' /\ ParserInv'
  <2>1. /\ pc' = "rejected" /\ NoCalls /\ next' = next /\ read' = read /\ segs' = segs
        /\ name' = name /\ nextVar' = nextVar /\ seenName' = seenName
        /\ seenPathWildcard' = seenPathWildcard
    BY <1>12 DEF Reject, Goto, input, parser
  <2>2. CurrentIsLast'
    BY <2>1, SameSegments
  <2>3. Parsing'
    BY <2>1 DEF Parsing
  <2> QED
    BY <1>1, <1>2, <2>1, <2>2, <2>3, QuietStep
<1>13. CASE MultipleWildcards \/ EmptyLiteral \/ RecursiveBinding \/ BadName \/ ExpectedBrace
  BY <1>12, <1>13 DEF MultipleWildcards, EmptyLiteral, RecursiveBinding, BadName, ExpectedBrace
<1>14. CASE NoInitialSlash
  <2>1. /\ pc = "template" /\ pc' = "segment" /\ NoCalls /\ next' = next /\ read' = read
        /\ segs' = segs /\ name' = name /\ nextVar' = nextVar /\ seenName' = seenName
        /\ seenPathWildcard' = seenPathWildcard
    BY <1>14 DEF NoInitialSlash, Goto, input, parser
  <2>2. CurrentIsLast'
    BY <2>1, SameSegments
  <2>3. Parsing'
    BY <2>1 DEF Parsing
  <2> QED
    BY <1>1, <1>2, <2>1, <2>2, <2>3, QuietStep
<1>15. CASE Star \/ OpenVariable \/ Bind \/ Slash
  <2>1. /\ pc' \in {"star", "name", "segment"} /\ NoCalls /\ Consume
        /\ segs' = segs /\ name' = name /\ nextVar' = nextVar /\ seenName' = seenName
        /\ seenPathWildcard' = seenPathWildcard
    BY <1>15 DEF Star, OpenVariable, Bind, Slash, Goto, parser
  <2>2. CurrentIsLast'
    BY <2>1, SameSegments
  <2>3. Parsing'
    BY <2>1 DEF Parsing
  <2>4. read <= read' /\ read < read'
    BY <1>1, <1>3, <2>1
  <2>5. pc' = "name" => name' = NoName
    BY <1>15, <2>1 DEF Star, OpenVariable, Bind, Slash, Goto
  <2> QED
    BY <1>1, <1>2, <1>3, <2>1, <2>2, <2>3, <2>4, <2>5, QuietStep
<1>16. CASE CloseVariable
  <2>1. /\ pc = "next" /\ pc' = pc /\ NoCalls /\ Consume
        /\ segs' = segs /\ name' = NoName /\ nextVar' = nextVar /\ seenName' = seenName
        /\ seenPathWildcard' = seenPathWildcard
    BY <1>16 DEF CloseVariable
  <2>2. CurrentIsLast'
    BY <2>1, SameSegments
  <2>3. Parsing'
    BY <2>1 DEF Parsing
  <2>4. read <= read'
    BY <1>1, <1>3, <2>1
  <2>5. segs # <<>>
    BY <2>1 DEF ParserInv, Positions
  <2> QED
    BY <1>1, <1>2, <1>3, <2>1, <2>2, <2>3, <2>4, <2>5, QuietStep
<1>17. CASE Parsed
  BY <1>17, ParsedStep
<1> QED
  BY <1>6, <1>7, <1>8, <1>9, <1>10, <1>11, <1>13, <1>14, <1>15, <1>16, <1>17 DEF Parse
-----------------------------------------------------------------------------
(***************************************************************************)
(* Match.                                                                  *)
(***************************************************************************)
(* Each segment starts where the one before it ends.                       *)
LEMMA Starts ==
    ASSUME TypeOK, ParserInv
    PROVE  /\ Len(segs) \in Nat /\ Len(path) \in Nat /\ Surplus \in Int
           /\ PathWildcards \subseteq 1 .. Len(segs)
           /\ Start(1) = 1
           /\ \A j \in 1 .. Len(segs) + 1 : Start(j) \in Int
           /\ \A j \in 1 .. Len(segs) :
                 Start(j + 1) = IF segs[j].kind = "pathWildcard" THEN Start(j) + 1 + Surplus
                                ELSE Start(j) + 1
           /\ \A j \in PathWildcards : ~Passed(j) /\ Passed(j + 1)
           /\ \A j \in 1 .. Len(segs) :
                 segs[j].kind # "pathWildcard" => (Passed(j + 1) <=> Passed(j))
<1>1. /\ Len(segs) \in Nat /\ DOMAIN segs = 1 .. Len(segs)
      /\ Len(path) \in Nat
  BY SegmentsTyped DEF TypeOK
<1>2. Surplus \in Int
  BY <1>1 DEF Surplus
<1>3. PathWildcards \subseteq 1 .. Len(segs)
  BY <1>1 DEF PathWildcards
<1>4. ~Passed(1)
  BY <1>1, <1>3 DEF Passed
<1>5. ASSUME NEW j \in PathWildcards
      PROVE  ~Passed(j) /\ Passed(j + 1)
  BY <1>1, <1>3 DEF Passed, ParserInv, OnePathWildcard
<1>6. ASSUME NEW j \in 1 .. Len(segs), segs[j].kind # "pathWildcard"
      PROVE  Passed(j + 1) <=> Passed(j)
  <2>1. j \notin PathWildcards
    BY <1>6 DEF PathWildcards
  <2>2. \A w \in PathWildcards : w < j + 1 <=> w < j
    BY <1>1, <1>3, <2>1
  <2> QED
    BY <2>2 DEF Passed
<1>7. ASSUME NEW j \in 1 .. Len(segs)
      PROVE  Start(j + 1) = IF segs[j].kind = "pathWildcard" THEN Start(j) + 1 + Surplus
                            ELSE Start(j) + 1
  <2>1. CASE segs[j].kind = "pathWildcard"
    <3>1. j \in PathWildcards
      BY <1>1, <2>1 DEF PathWildcards
    <3> QED
      BY <1>2, <1>5, <2>1, <3>1 DEF Start
  <2>2. CASE segs[j].kind # "pathWildcard"
    BY <1>2, <1>6, <2>2 DEF Start
  <2> QED
    BY <2>1, <2>2
<1>8. Start(1) = 1 /\ \A j \in 1 .. Len(segs) + 1 : Start(j) \in Int
  BY <1>1, <1>2, <1>4 DEF Start
<1> QED
  BY <1>1, <1>2, <1>3, <1>5, <1>6, <1>7, <1>8

(* Segments start in their order, from the first place of the path on.     *)
LEMMA StartsInOrder ==
    ASSUME TypeOK, ParserInv,
           NEW b \in 1 .. Len(segs) + 1, NEW a \in 1 .. b, Passed(b) => Surplus >= 0
    PROVE  1 <= Start(a) /\ Start(a) <= Start(b)
<1>1. /\ Len(segs) \in Nat /\ Surplus \in Int /\ PathWildcards \subseteq 1 .. Len(segs)
  BY Starts
<1>2. Passed(a) => Passed(b)
  BY <1>1 DEF Passed
<1> QED
  BY <1>1, <1>2 DEF Start

(* What MatchDecides asks, in terms of Start.                              *)
LEMMA StandForPath ==
    ASSUME TypeOK, ParserInv
    PROVE  StandFor(1, Len(segs), path) <=>
             /\ Surplus >= 0
             /\ Surplus = 0 \/ PathWildcards # {}
             /\ \A j \in 1 .. Len(segs) : segs[j].kind = "label" => path[Start(j)] = segs[j].text
<1> DEFINE L == Len(segs)
           At(j) == IF \E w \in PathWildcards : 1 <= w /\ w < j
                    THEN j + 1 - 1 + (Len(path) - (L + 1 - 1)) ELSE j + 1 - 1
<1>1. L \in Nat /\ Len(path) \in Nat /\ PathWildcards \subseteq 1 .. L
  BY Starts
<1>2. ASSUME NEW j \in 1 .. L PROVE At(j) = Start(j)
  <2>1. (\E w \in PathWildcards : 1 <= w /\ w < j) <=> Passed(j)
    BY <1>1 DEF Passed
  <2> QED
    BY <1>1, <2>1 DEF Start, Surplus
<1>3. (\E w \in PathWildcards : 1 <= w /\ w <= L) <=> PathWildcards # {}
  <2>1. \A w \in PathWildcards : 1 <= w /\ w <= L
    BY <1>1
  <2> QED
    BY <2>1
<1>4. Len(path) - (L + 1 - 1) = Surplus /\ (Len(path) >= L + 1 - 1 <=> Surplus >= 0)
  BY <1>1 DEF Surplus
<1>5. StandFor(1, L, path) <=>
        /\ Len(path) >= L + 1 - 1
        /\ \/ Len(path) - (L + 1 - 1) = 0
           \/ \E w \in PathWildcards : 1 <= w /\ w <= L
        /\ \A j \in 1 .. L : segs[j].kind = "label" => path[At(j)] = segs[j].text
  BY DEF StandFor
<1> HIDE DEF At
<1>6. StandFor(1, L, path) <=>
        /\ Surplus >= 0
        /\ Surplus = 0 \/ PathWildcards # {}
        /\ \A j \in 1 .. L : segs[j].kind = "label" => path[At(j)] = segs[j].text
  BY <1>3, <1>4, <1>5
<1>7. (\A j \in 1 .. L : segs[j].kind = "label" => path[At(j)] = segs[j].text)
        <=> (\A j \in 1 .. L : segs[j].kind = "label" => path[Start(j)] = segs[j].text)
  BY <1>2
<1> QED
  BY <1>6, <1>7

(* The part of the path that a segment takes.                              *)
LEMMA SegmentTakes ==
    ASSUME TypeOK, ParserInv, Using, NEW j \in 1 .. Len(segs),
           pos = Start(j), Accepts(segs[j]), Passed(j) => Surplus >= 0
    PROVE  /\ pos + Length(segs[j]) = Start(j + 1)
           /\ Length(segs[j]) \in Nat /\ Length(segs[j]) >= 1
           /\ pos + Length(segs[j]) - 1 <= Len(path)
           /\ Passed(j + 1) => Surplus >= 0
<1> DEFINE L == Len(segs)
<1>1. /\ L \in Nat /\ Len(path) \in Nat /\ Surplus \in Int /\ Start(j) \in Int
      /\ Start(j + 1) = IF segs[j].kind = "pathWildcard" THEN Start(j) + 1 + Surplus
                         ELSE Start(j) + 1
      /\ segs[j].kind = "pathWildcard" => ~Passed(j)
      /\ segs[j].kind # "pathWildcard" => (Passed(j + 1) <=> Passed(j))
  BY Starts, SegmentsTyped DEF PathWildcards
<1>2. pos \in 1 .. Len(path) + 1 /\ segs[j].kind \in {"label", "wildcard", "pathWildcard"}
  BY SegmentsTyped DEF TypeOK, SegmentSet
<1>3. CASE segs[j].kind = "pathWildcard"
  <2>1. segs[j].after = L - j
    BY <1>3, SegmentsTyped DEF ParserInv, Positions, PathWildcards
  <2>2. pos = j
    BY <1>1, <1>3 DEF Start
  <2>3. Len(path) + 1 - pos > L - j
    BY <1>3, <2>1 DEF Accepts, Rest
  <2>4. Length(segs[j]) = (Len(path) + 1 - pos) - (L - j)
    BY <1>3, <2>1 DEF Length, Rest
  <2>5. Surplus = Len(path) - L
    BY DEF Surplus
  <2>6. Length(segs[j]) = Surplus + 1 /\ Surplus >= 0
    BY <1>1, <2>2, <2>3, <2>4, <2>5
  <2>7. pos + Length(segs[j]) = Start(j + 1)
    BY <1>1, <1>3, <2>6
  <2>8. pos + Length(segs[j]) - 1 <= Len(path)
    BY <1>1, <2>2, <2>5, <2>6
  <2> QED
    BY <1>1, <2>6, <2>7, <2>8
<1>4. CASE segs[j].kind # "pathWildcard"
  <2>1. Length(segs[j]) = 1
    BY <1>4 DEF Length
  <2>2. Len(path) + 1 - pos > 0
    BY <1>2, <1>4 DEF Accepts, Rest
  <2> QED
    BY <1>1, <1>2, <1>4, <2>1, <2>2
<1> QED
  BY <1>3, <1>4

LEMMA StretchInPath ==
    ASSUME TypeOK, ParserInv, NEW b \in 1 .. Len(segs), NEW a \in 1 .. b,
           Passed(b + 1) => Surplus >= 0, Start(b) < Start(b + 1), Start(b + 1) <= Len(path) + 1
    PROVE  /\ Stretch(a, b) \in Path
           /\ a < b => SubSeq(path, Start(a), Start(b) - 1) \o Stretch(b, b) = Stretch(a, b)
<1>1. /\ Len(segs) \in Nat /\ Len(path) \in Nat /\ Surplus \in Int
      /\ Start(a) \in Int /\ Start(b) \in Int /\ Start(b + 1) \in Int
      /\ PathWildcards \subseteq 1 .. Len(segs)
  BY Starts
<1>2. path \in Seq(Texts)
  BY DEF TypeOK
<1>3. Passed(b) => Passed(b + 1)
  BY <1>1 DEF Passed
<1>4. 1 <= Start(a) /\ Start(a) <= Start(b)
  <2>1. b \in 1 .. Len(segs) + 1
    BY <1>1
  <2> QED
    BY <1>3, <2>1, StartsInOrder
<1>5. Stretch(a, b) \in Seq(Texts) /\ Len(Stretch(a, b)) = (Start(b + 1) - 1) - Start(a) + 1
  <2>1. \A k \in Start(a) .. Start(b + 1) - 1 : k \in 1 .. Len(path)
    BY <1>1, <1>4
  <2>2. \A k \in Start(a) .. Start(b + 1) - 1 : path[k] \in Texts
    BY <1>2, <2>1
  <2>3. Start(b + 1) - 1 \in Int /\ Start(a) <= Start(b + 1) - 1
    BY <1>1, <1>4
  <2> QED
    BY <1>1, <2>2, <2>3, SubSeqProperties DEF Stretch
<1>6. Stretch(a, b) \in Path
  BY <1>1, <1>4, <1>5 DEF Path
<1>7. ASSUME a < b
      PROVE  SubSeq(path, Start(a), Start(b) - 1) \o Stretch(b, b) = Stretch(a, b)
  <2>1. /\ Start(a) \in 1 .. Len(path) + 1
        /\ Start(b) - 1 \in Start(a) - 1 .. Len(path)
        /\ Start(b + 1) - 1 \in Start(b) - 1 .. Len(path)
    BY <1>1, <1>4
  <2>2. (Start(b) - 1) + 1 = Start(b)
    BY <1>1
  <2>3. SubSeq(path, Start(a), Start(b) - 1) \o SubSeq(path, (Start(b) - 1) + 1, Start(b + 1) - 1)
          = SubSeq(path, Start(a), Start(b + 1) - 1)
    BY <1>2, <2>1, ConcatAdjacentSubSeq
  <2> QED
    BY <2>2, <2>3 DEF Stretch
<1> QED
  BY <1>6, <1>7

(* Match gives the variable of the next segment what it should have then.  *)
LEMMA ValuedNext ==
    ASSUME TypeOK, ParserInv, NEW j \in 1 .. Len(segs),
           NEW v \in [Names -> Path \cup {Absent}], NEW w, Valued(v, j - 1),
           Passed(j + 1) => Surplus >= 0, Start(j) < Start(j + 1), Start(j + 1) <= Len(path) + 1,
           w = IF NameOf(j) = NoName THEN v
               ELSE [v EXCEPT ![NameOf(j)] = IF @ = Absent THEN Stretch(j, j)
                                             ELSE @ \o Stretch(j, j)]
    PROVE  Valued(w, j) /\ w \in [Names -> Path \cup {Absent}]
<1> DEFINE n == NameOf(j)
           Good(u, m, k, a, b) ==
              /\ a <= k /\ k <= b
              /\ u[NameOf(k)] \in Path
              /\ \A l \in 1 .. m : NameOf(l) = NameOf(k) <=> a <= l /\ l <= b
              /\ u[NameOf(k)] = Stretch(a, b)
<1>1. /\ Len(segs) \in Nat /\ DOMAIN segs = 1 .. Len(segs)
      /\ \A k \in 1 .. Len(segs) : NameOf(k) \in Names \cup {NoName}
  BY SegmentsTyped DEF SegmentSet, NameOf
<1>2. j - 1 \in Nat /\ 1 .. j - 1 \subseteq 1 .. Len(segs)
      /\ \A k \in 1 .. j : k = j \/ k \in 1 .. j - 1
  BY <1>1
<1>3. /\ \A x \in Names : (\A k \in 1 .. j - 1 : NameOf(k) # x) => v[x] = Absent
      /\ \A k \in 1 .. j - 1 : NameOf(k) # NoName =>
            \E a, b \in 1 .. j - 1 : Good(v, j - 1, k, a, b)
  BY DEF Valued
<1>4. ASSUME \A x \in Names : (\A k \in 1 .. j : NameOf(k) # x) => w[x] = Absent,
             \A k \in 1 .. j : NameOf(k) # NoName => \E a, b \in 1 .. j : Good(w, j, k, a, b)
      PROVE  Valued(w, j)
  BY <1>4 DEF Valued
<1>5. ASSUME NEW k \in 1 .. j - 1, NameOf(k) # NoName, NameOf(k) # n, w[NameOf(k)] = v[NameOf(k)]
      PROVE  \E a, b \in 1 .. j : Good(w, j, k, a, b)
  <2>1. PICK a \in 1 .. j - 1, b \in 1 .. j - 1 : Good(v, j - 1, k, a, b)
    BY <1>3, <1>5
  <2>2. a \in 1 .. j /\ b \in 1 .. j /\ ~(a <= j /\ j <= b)
    BY <1>2
  <2>3. \A l \in 1 .. j : NameOf(l) = NameOf(k) <=> a <= l /\ l <= b
    BY <1>2, <1>5, <2>1, <2>2
  <2>4. Good(w, j, k, a, b)
    BY <1>5, <2>1, <2>3
  <2> QED
    BY <2>2, <2>4
<1> HIDE DEF Good
<1>6. CASE n = NoName
  <2>1. w = v
    BY <1>6
  <2>2. \A x \in Names : (\A k \in 1 .. j : NameOf(k) # x) => w[x] = Absent
    BY <1>1, <1>2, <1>3, <2>1
  <2>3. \A k \in 1 .. j : NameOf(k) # NoName => \E a, b \in 1 .. j : Good(w, j, k, a, b)
    BY <1>2, <1>5, <1>6, <2>1
  <2> QED
    BY <1>4, <2>1, <2>2, <2>3
<1>7. CASE n # NoName
  <2>1. n \in Names
    BY <1>1, <1>7
  <2>2. /\ w = [v EXCEPT ![n] = IF v[n] = Absent THEN Stretch(j, j) ELSE v[n] \o Stretch(j, j)]
        /\ \A x \in Names : x # n => w[x] = v[x]
    BY <1>7, <2>1
  <2>3. \E a \in 1 .. j :
            /\ w[n] = Stretch(a, j)
            /\ \A l \in 1 .. j : NameOf(l) = n <=> a <= l /\ l <= j
    <3>1. CASE \A k \in 1 .. j - 1 : NameOf(k) # n
      <4>1. v[n] = Absent
        BY <1>3, <2>1, <3>1
      <4>2. w[n] = Stretch(j, j)
        BY <2>1, <2>2, <4>1
      <4>3. \A l \in 1 .. j : NameOf(l) = n <=> j <= l /\ l <= j
        BY <1>2, <3>1
      <4>4. j \in 1 .. j
        OBVIOUS
      <4> HIDE DEF n
      <4> QED
        BY <4>2, <4>3, <4>4
    <3>2. CASE \E k \in 1 .. j - 1 : NameOf(k) = n
      <4>1. PICK k \in 1 .. j - 1 : NameOf(k) = n
        BY <3>2
      <4>2. PICK a \in 1 .. j - 1, b \in 1 .. j - 1 : Good(v, j - 1, k, a, b)
        BY <1>3, <1>7, <4>1
      <4>3. /\ a <= k /\ k <= b /\ v[n] \in Path
            /\ \A l \in 1 .. j - 1 : NameOf(l) = n <=> a <= l /\ l <= b
            /\ v[n] = Stretch(a, b)
        BY <4>1, <4>2 DEF Good
      <4>4. b = j - 1
        <5> SUFFICES ASSUME b < j - 1 PROVE FALSE
          BY <4>2
        <5>1. b + 1 \in 1 .. j - 1 /\ b < b + 1 /\ b + 1 < j
          BY <4>2
        <5>2. NameOf(b) = n /\ NameOf(b + 1) # n
          BY <4>2, <4>3, <5>1
        <5>3. b \in DOMAIN segs /\ b + 1 \in DOMAIN segs /\ j \in DOMAIN segs
          BY <1>1, <1>2, <4>2, <5>1
        <5>4. NameOf(b + 1) = n
          BY <1>7, <5>1, <5>2, <5>3 DEF ParserInv, Contiguous
        <5> QED
          BY <5>2, <5>4
      <4>5. b + 1 = j /\ a < j /\ a \in 1 .. j
        BY <4>2, <4>4
      <4>6. v[n] # Absent
        BY <4>3, TextAssumption
      <4>7. w[n] = Stretch(a, b) \o Stretch(j, j)
        BY <2>1, <2>2, <4>3, <4>6
      <4>8. SubSeq(path, Start(a), Start(j) - 1) \o Stretch(j, j) = Stretch(a, j)
        BY <4>5, StretchInPath
      <4>9. Stretch(a, b) = SubSeq(path, Start(a), Start(j) - 1)
        BY <4>5, Zenon DEF Stretch
      <4>10. w[n] = Stretch(a, j)
        BY <4>7, <4>8, <4>9, Zenon
      <4>11. \A l \in 1 .. j : NameOf(l) = n <=> a <= l /\ l <= j
        BY <1>2, <4>3, <4>4, <4>5
      <4> QED
        BY <4>5, <4>10, <4>11
    <3> QED
      BY <3>1, <3>2
  <2>4. PICK a \in 1 .. j : /\ w[n] = Stretch(a, j)
                            /\ \A l \in 1 .. j : NameOf(l) = n <=> a <= l /\ l <= j
    BY <2>3
  <2>5. w[n] \in Path
    BY <2>4, StretchInPath
  <2>6. w \in [Names -> Path \cup {Absent}]
    BY <2>1, <2>2, <2>5
  <2>7. \A x \in Names : (\A k \in 1 .. j : NameOf(k) # x) => w[x] = Absent
    <3> SUFFICES ASSUME NEW x \in Names, \A k \in 1 .. j : NameOf(k) # x PROVE w[x] = Absent
      OBVIOUS
    <3>1. x # n /\ \A k \in 1 .. j - 1 : NameOf(k) # x
      BY <1>1, <1>2
    <3> QED
      BY <1>3, <2>2, <3>1
  <2>8. ASSUME NEW k \in 1 .. j, NameOf(k) # NoName
        PROVE  \E c, b \in 1 .. j : Good(w, j, k, c, b)
    <3>1. CASE NameOf(k) = n
      <4>1. Good(w, j, k, a, j)
        BY <2>4, <2>5, <3>1 DEF Good
      <4> QED
        BY <4>1
    <3>2. CASE NameOf(k) # n
      <4>1. k \in 1 .. j - 1
        BY <1>2, <3>2
      <4>2. NameOf(k) \in Names
        BY <1>1, <1>2, <2>8, <4>1
      <4> QED
        BY <1>5, <2>2, <2>8, <3>2, <4>1, <4>2
    <3> QED
      BY <3>1, <3>2
  <2> QED
    BY <1>4, <2>6, <2>7, <2>8
<1> QED
  BY <1>6, <1>7

(* Match and Render leave the template alone.                              *)
LEMMA TemplateStays ==
    ASSUME TypeOK, ParserInv, Using, UNCHANGED template, Using', pc' # "star"
    PROVE  /\ ParserInv'
           /\ segs' = segs /\ Len(segs) \in Nat
           /\ next' = next /\ read' = read /\ name' = name /\ nextVar' = nextVar
           /\ seenName' = seenName /\ seenPathWildcard' = seenPathWildcard
<1>1. /\ segs' = segs /\ next' = next /\ read' = read /\ name' = name /\ nextVar' = nextVar
      /\ seenName' = seenName /\ seenPathWildcard' = seenPathWildcard
  BY DEF template, input, parser
<1>2. /\ NamesGiven' /\ NamelessAreLabels' /\ Contiguous' /\ OnePathWildcard' /\ CurrentIsLast'
      /\ PathWildcards' = PathWildcards
      /\ \A j \in DOMAIN segs : NameOf(j)' = NameOf(j)
  BY <1>1, SameSegments
<1>3. Positions'
  <2>1. name = NoName /\ segs # <<>> /\ \A j \in PathWildcards : segs[j].after = Len(segs) - j
    BY DEF ParserInv, Positions
  <2>2. pc' \notin {"bind", "template", "star"}
    BY DEF Using
  <2> QED
    BY <1>1, <1>2, <2>1, <2>2 DEF Positions
<1> QED
  BY <1>1, <1>2, <1>3, SegmentsTyped DEF ParserInv

LEMMA UseStepTyped ==
    ASSUME TypeOK, ParserInv, Using, UNCHANGED template, Using',
           order' \in {"none", "match", "render"},
           path' \in Seq(Texts), pos' \in 1 .. Len(path') + 1, i' \in 1 .. Len(segs) + 1,
           values' \in [Names -> Path \cup {Absent}],
           binding' \in [Names -> Path \cup {Absent}],
           lastVariableName' \in Names \cup {NoName}, result' \in Seq(Texts)
    PROVE  TypeOK' /\ ParserInv'
<1>1. pc' # "star"
  BY DEF Using
<1>2. /\ ParserInv' /\ segs' = segs /\ next' = next /\ read' = read /\ name' = name
      /\ nextVar' = nextVar /\ seenName' = seenName /\ seenPathWildcard' = seenPathWildcard
  BY <1>1, TemplateStays
<1>3. segs' \in Seq(SegmentSet) /\ i' \in 1 .. Len(segs') + 1
  BY <1>2, SegmentsTyped
<1>4. TypeOK'
  BY <1>2, <1>3 DEF TypeOK, SegmentSet
<1> QED
  BY <1>2, <1>4

LEMMA NothingTyped == Nothing \in [Names -> Path \cup {Absent}]
  BY DEF Nothing

(* Match and Render begin.                                                 *)
LEMMA StartMatchStep ==
    ASSUME Inv, Using, NEW p \in Seq(Texts), StartMatch(p),
           order' \in {"match", "render"}, UNCHANGED rendering
    PROVE  Inv'
<1>1. /\ pc' = "match" /\ path' = p /\ pos' = 1 /\ i' = 1 /\ values' = Nothing
      /\ UNCHANGED template /\ binding' = binding /\ lastVariableName' = lastVariableName
      /\ result' = result
  BY DEF StartMatch, Goto, rendering
<1>2. Using' /\ pc' # "star"
  BY <1>1 DEF Using
<1>3. TypeOK /\ ParserInv /\ Len(segs) \in Nat
  BY SegmentsTyped DEF Inv
<1>4. 1 \in 1 .. Len(p) + 1 /\ 1 \in 1 .. Len(segs) + 1
  BY <1>3
<1>5. TypeOK' /\ ParserInv'
  BY <1>1, <1>2, <1>3, <1>4, NothingTyped, UseStepTyped DEF TypeOK
<1>6. MatchInv'
  <2>1. PathWildcards' = PathWildcards /\ PathWildcards \subseteq 1 .. Len(segs)
    BY <1>1, <1>2, <1>3, TemplateStays, Starts DEF PathWildcards
  <2>2. ~Passed(1)'
    BY <1>3, <2>1 DEF Passed
  <2>3. (pos = Start(i))'
    BY <1>1, <2>2 DEF Start
  <2>4. Agrees(i - 1)'
    BY <1>1, <2>2 DEF Agrees
  <2>5. Valued(values, i - 1)'
    BY <1>1 DEF Valued, Nothing
  <2> QED
    BY <1>1, <2>3, <2>4, <2>5 DEF MatchInv
<1>7. RenderInv'
  BY <1>1 DEF RenderInv
<1> QED
  BY <1>5, <1>6, <1>7 DEF Inv

LEMMA MatchSegmentStep ==
    ASSUME Inv, MatchSegment
    PROVE  Inv'
<1> DEFINE n == NameOf(i)
<1>1. /\ pc = "match" /\ pc' = pc /\ i <= Len(segs) /\ Accepts(segs[i])
      /\ pos' = pos + Length(segs[i]) /\ i' = i + 1 /\ order' = order /\ path' = path
      /\ UNCHANGED template /\ binding' = binding /\ lastVariableName' = lastVariableName
      /\ result' = result
  BY DEF MatchSegment, rendering
<1>2. /\ TypeOK /\ ParserInv /\ Using /\ Using' /\ pc' # "star"
      /\ pos = Start(i) /\ Agrees(i - 1) /\ Valued(values, i - 1)
  BY <1>1 DEF Inv, MatchInv, Using
<1>3. i \in 1 .. Len(segs) /\ Len(segs) \in Nat /\ i' \in 1 .. Len(segs) + 1
      /\ pos \in 1 .. Len(path) + 1 /\ Len(path) \in Nat
  BY <1>1, <1>2, SegmentsTyped DEF TypeOK
<1>4. Passed(i) => Surplus >= 0
  BY <1>2, <1>3 DEF Agrees
<1>5. /\ pos + Length(segs[i]) = Start(i + 1)
      /\ Length(segs[i]) \in Nat /\ Length(segs[i]) >= 1
      /\ pos + Length(segs[i]) - 1 <= Len(path)
      /\ Passed(i + 1) => Surplus >= 0
  BY <1>1, <1>2, <1>3, <1>4, SegmentTakes
<1>6. Start(i) < Start(i + 1) /\ Start(i + 1) <= Len(path) + 1
  BY <1>2, <1>3, <1>5
<1>7. values' = IF n = NoName THEN values
                ELSE [values EXCEPT ![n] = IF @ = Absent THEN Stretch(i, i)
                                           ELSE @ \o Stretch(i, i)]
  <2>1. SubSeq(path, pos, pos + Length(segs[i]) - 1) = Stretch(i, i)
    <3>1. pos = Start(i)
      BY <1>2
    <3>2. pos + Length(segs[i]) - 1 = Start(i + 1) - 1
      BY <1>3, <1>5
    <3> QED
      BY <3>1, <3>2, Zenon DEF Stretch
  <2> QED
    BY <2>1 DEF MatchSegment, NameOf
<1>8. Valued(values', i) /\ values' \in [Names -> Path \cup {Absent}]
  <2>1. values \in [Names -> Path \cup {Absent}]
    BY <1>2 DEF TypeOK
  <2> QED
    BY <1>2, <1>3, <1>5, <1>6, <1>7, <2>1, ValuedNext
<1>9. TypeOK' /\ ParserInv'
  <2>1. pos' \in 1 .. Len(path') + 1
    BY <1>1, <1>3, <1>5
  <2> QED
    BY <1>1, <1>2, <1>3, <1>8, <2>1, UseStepTyped DEF TypeOK
<1>10. /\ segs' = segs /\ PathWildcards' = PathWildcards /\ Surplus' = Surplus
       /\ \A j : NameOf(j)' = NameOf(j)
  BY <1>1, <1>2, TemplateStays DEF PathWildcards, Surplus, NameOf
<1>11. MatchInv'
  <2>1. i' - 1 = i
    BY <1>1, <1>3
  <2>2. (pos = Start(i))'
    BY <1>1, <1>5, <1>10 DEF Start, Passed
  <2>3. Agrees(i)
    <3>1. segs[i].kind = "label" => path[Start(i)] = segs[i].text
      BY <1>1, <1>2 DEF Accepts
    <3>2. \A j \in 1 .. i : j = i \/ j \in 1 .. i - 1
      BY <1>3
    <3> QED
      BY <1>2, <1>5, <3>1, <3>2 DEF Agrees
  <2>4. Agrees(i - 1)'
    BY <1>1, <1>10, <2>1, <2>3 DEF Agrees, Start, Passed
  <2>5. \A j : Start(j)' = Start(j)
    BY <1>10 DEF Start, Passed
  <2>6. \A a, b : Stretch(a, b)' = Stretch(a, b)
    BY <1>1, <2>5, Zenon DEF Stretch
  <2>7. Valued(values, i - 1)'
    BY <1>1, <1>8, <1>10, <2>1, <2>6 DEF Valued
  <2> QED
    BY <1>1, <2>2, <2>4, <2>7 DEF MatchInv
<1>12. RenderInv'
  BY <1>1 DEF RenderInv
<1> QED
  BY <1>9, <1>11, <1>12 DEF Inv

(* What is left of the path when all segments have matched.                *)
LEMMA RestAtEnd ==
    ASSUME TypeOK, ParserInv, pos = Start(i), i = Len(segs) + 1
    PROVE  /\ Rest = IF PathWildcards = {} THEN Surplus ELSE 0
           /\ Whole <=> Rest = 0
           /\ PathWildcards # {} <=> Passed(Len(segs) + 1)
<1>1. /\ Len(segs) \in Nat /\ Len(path) \in Nat /\ Surplus \in Int
      /\ PathWildcards \subseteq 1 .. Len(segs)
  BY Starts
<1>2. PathWildcards # {} <=> Passed(Len(segs) + 1)
  <2>1. \A w \in PathWildcards : w < Len(segs) + 1
    BY <1>1
  <2> QED
    BY <2>1 DEF Passed
<1>3. CASE PathWildcards = {}
  <2>1. pos = Len(segs) + 1 /\ Start(Len(segs) + 1) = Len(segs) + 1
    BY <1>2, <1>3 DEF Start
  <2>2. Rest = Surplus /\ (Whole <=> Rest = 0)
    BY <1>1, <2>1 DEF Rest, Whole, Surplus
  <2> QED
    BY <1>2, <1>3, <2>2
<1>4. CASE PathWildcards # {}
  <2>1. pos = Start(Len(segs) + 1) /\ Start(Len(segs) + 1) = Len(segs) + 1 + Surplus
    BY <1>2, <1>4 DEF Start
  <2>2. Rest = 0 /\ Whole
    BY <1>1, <2>1 DEF Rest, Whole, Surplus
  <2> QED
    BY <1>2, <1>4, <2>2
<1> QED
  BY <1>3, <1>4

LEMMA MismatchStep ==
    ASSUME Inv, Mismatch
    PROVE  Inv'
<1>1. /\ pc = "match" /\ pc' = "unmatched" /\ i' = i /\ order' = order
      /\ path' = path /\ pos' = pos /\ values' = values
      /\ UNCHANGED template /\ binding' = binding /\ lastVariableName' = lastVariableName
      /\ result' = result
  BY DEF Mismatch, Goto, matching, rendering
<1>2. /\ TypeOK /\ ParserInv /\ Using /\ Using' /\ pc' # "star"
      /\ pos = Start(i) /\ Agrees(i - 1)
  BY <1>1 DEF Inv, MatchInv, Using
<1>3. TypeOK' /\ ParserInv'
  BY <1>1, <1>2, UseStepTyped DEF TypeOK
<1>4. /\ Len(segs) \in Nat /\ Len(path) \in Nat /\ Surplus \in Int
      /\ PathWildcards \subseteq 1 .. Len(segs) /\ DOMAIN segs = 1 .. Len(segs)
      /\ i \in 1 .. Len(segs) + 1
  BY <1>2, Starts, SegmentsTyped DEF TypeOK
<1>5. ~StandFor(1, Len(segs), path)
  <2> SUFFICES ASSUME Surplus >= 0,
                      Surplus = 0 \/ PathWildcards # {},
                      \A j \in 1 .. Len(segs) : segs[j].kind = "label" => path[Start(j)] = segs[j].text
               PROVE  FALSE
    BY <1>2, StandForPath
  <2>1. CASE i = Len(segs) + 1 /\ Rest # 0
    BY <1>2, <1>4, <2>1, RestAtEnd
  <2>2. CASE i <= Len(segs) /\ ~Accepts(segs[i])
    <3>1. i \in 1 .. Len(segs) /\ segs[i].kind \in {"label", "wildcard", "pathWildcard"}
      BY <1>2, <1>4, <2>2, SegmentsTyped DEF SegmentSet
    <3>2. CASE segs[i].kind = "pathWildcard"
      <4>1. i \in PathWildcards
        BY <1>4, <3>1, <3>2 DEF PathWildcards
      <4>2. segs[i].after = Len(segs) - i /\ pos = i
        BY <1>2, <1>4, <4>1, Starts DEF ParserInv, Positions, Start
      <4>3. Rest = Len(path) + 1 - i
        BY <4>2 DEF Rest
      <4>4. Rest > segs[i].after
        BY <1>4, <3>1, <4>2, <4>3 DEF Surplus
      <4> QED
        BY <2>2, <3>2, <4>4 DEF Accepts
    <3>3. CASE segs[i].kind # "pathWildcard"
      <4>1. Start(i) = i \/ Start(i) = i + Surplus
        BY DEF Start
      <4>2. Rest > 0
        BY <1>2, <1>4, <3>1, <4>1 DEF Rest, Surplus
      <4>3. segs[i].kind = "label" => path[pos] = segs[i].text
        BY <1>2, <3>1
      <4> QED
        BY <2>2, <3>1, <3>3, <4>2, <4>3 DEF Accepts
    <3> QED
      BY <3>2, <3>3
  <2> QED
    BY <2>1, <2>2 DEF Mismatch
<1>6. segs' = segs /\ PathWildcards' = PathWildcards
  BY <1>1, <1>2, TemplateStays DEF PathWildcards
<1>7. MatchInv'
  <2>1. ~StandFor(1, Len(segs), path)'
    BY <1>1, <1>5, <1>6 DEF StandFor
  <2> QED
    BY <1>1, <2>1 DEF MatchInv
<1>8. RenderInv'
  BY <1>1 DEF RenderInv
<1> QED
  BY <1>3, <1>7, <1>8 DEF Inv

(* What holds of a path that matched holds on while nothing changes.       *)
LEMMA MatchStays ==
    ASSUME segs' = segs, path' = path, values' = values,
           Whole, Agrees(Len(segs)), Valued(values, Len(segs))
    PROVE  /\ Whole' /\ Agrees(Len(segs))' /\ Valued(values, Len(segs))'
           /\ \A j : NameOf(j)' = NameOf(j)
           /\ \A j : Start(j)' = Start(j)
<1>1. /\ PathWildcards' = PathWildcards /\ Surplus' = Surplus
      /\ \A j : NameOf(j)' = NameOf(j)
  BY DEF PathWildcards, Surplus, NameOf
<1>2. Whole'
  BY <1>1 DEF Whole, Start, Passed
<1>3. Agrees(Len(segs))'
  BY <1>1 DEF Agrees, Start, Passed
<1>4. \A j : Start(j)' = Start(j)
  BY <1>1 DEF Start, Passed
<1>5. \A a, b : Stretch(a, b)' = Stretch(a, b)
  BY <1>4, Zenon DEF Stretch
<1>6. Valued(values, Len(segs))'
  BY <1>1, <1>5 DEF Valued
<1> QED
  BY <1>1, <1>2, <1>3, <1>4, <1>6

LEMMA MatchedStep ==
    ASSUME Inv, Matched
    PROVE  Inv'
<1>1. /\ pc = "match" /\ pc' = "matched" /\ i' = i /\ order' = order
      /\ path' = path /\ pos' = pos /\ values' = values
      /\ UNCHANGED template /\ binding' = binding /\ lastVariableName' = lastVariableName
      /\ result' = result /\ i = Len(segs) + 1 /\ Rest = 0
  BY DEF Matched, Goto, matching, rendering
<1>2. /\ TypeOK /\ ParserInv /\ Using /\ Using' /\ pc' # "star"
      /\ pos = Start(i) /\ Agrees(i - 1) /\ Valued(values, i - 1)
  BY <1>1 DEF Inv, MatchInv, Using
<1>3. TypeOK' /\ ParserInv' /\ segs' = segs
  BY <1>1, <1>2, UseStepTyped, TemplateStays DEF TypeOK
<1>4. i - 1 = Len(segs) /\ Len(segs) \in Nat
  BY <1>1, <1>2, SegmentsTyped
<1>5. Whole /\ Agrees(Len(segs)) /\ Valued(values, Len(segs))
  BY <1>1, <1>2, <1>4, RestAtEnd
<1>6. MatchInv'
  BY <1>1, <1>3, <1>5, MatchStays DEF MatchInv
<1>7. RenderInv'
  BY <1>1 DEF RenderInv
<1> QED
  BY <1>3, <1>6, <1>7 DEF Inv
-----------------------------------------------------------------------------
(***************************************************************************)
(* Render.                                                                 *)
(***************************************************************************)
(* What Render has to go on when its values are from Match.                *)
FromMatch == Whole /\ Agrees(Len(segs)) /\ Valued(values, Len(segs)) /\ binding = values

LEMMA StartRenderStep ==
    ASSUME Inv, Using, NEW b \in [Names -> Path \cup {Absent}], StartRender(b),
           order' \in {"match", "render"}, UNCHANGED matching,
           order' = "match" => pc = "matched" /\ b = values
    PROVE  Inv'
<1>1. /\ pc' = "render" /\ binding' = b /\ i' = 1 /\ lastVariableName' = NoName
      /\ result' = <<>> /\ UNCHANGED template /\ path' = path /\ pos' = pos /\ values' = values
  BY DEF StartRender, Goto, matching
<1>2. Using' /\ pc' # "star"
  BY <1>1 DEF Using
<1>3. TypeOK /\ ParserInv /\ Len(segs) \in Nat
  BY SegmentsTyped DEF Inv
<1>4. 1 \in 1 .. Len(segs) + 1
  BY <1>3
<1>5. TypeOK' /\ ParserInv' /\ segs' = segs
  BY <1>1, <1>2, <1>3, <1>4, UseStepTyped, TemplateStays DEF TypeOK
<1>6. MatchInv'
  BY <1>1 DEF MatchInv
<1>7. CASE order' = "match"
  <2>1. Whole /\ Agrees(Len(segs)) /\ Valued(values, Len(segs))
    BY <1>7 DEF Inv, MatchInv
  <2>2. /\ Whole' /\ Agrees(Len(segs))' /\ Valued(values, Len(segs))'
        /\ \A j : Start(j)' = Start(j)
    BY <1>1, <1>5, <2>1, MatchStays
  <2>3. Start(1) = 1
    BY <1>3, Starts
  <2>4. RenderedUpTo(1)'
    <3>1. SubSeq(path, 1, 0) = <<>>
      BY SubSeqEmpty
    <3>2. Start(1)' - 1 = 0
      BY <2>2, <2>3
    <3>3. (result = SubSeq(path, 1, Start(1) - 1))'
      BY <1>1, <3>1, <3>2, Zenon
    <3> QED
      BY <1>1, <3>3 DEF RenderedUpTo
  <2>5. 1 \in i' .. Len(segs') + 1
    BY <1>1, <1>4, <1>5
  <2> QED
    BY <1>1, <1>5, <1>6, <1>7, <2>2, <2>4, <2>5 DEF Inv, RenderInv
<1>8. CASE order' # "match"
  BY <1>5, <1>6, <1>8 DEF Inv, RenderInv
<1> QED
  BY <1>7, <1>8

(* A step of Render's loop.                                                *)
LEMMA RenderStepStep ==
    ASSUME Inv, Rendering, NEW r \in Seq(Texts), NEW last \in Names \cup {NoName},
           RenderStep(r, last),
           order = "match" /\ FromMatch =>
              /\ last = NameOf(i)
              /\ \E e \in i + 1 .. Len(segs) + 1 :
                    /\ r = SubSeq(path, 1, Start(e) - 1)
                    /\ \A j \in i + 1 .. e - 1 : NameOf(j) = last /\ last # NoName
                    /\ e <= Len(segs) /\ last # NoName => NameOf(e) # last
    PROVE  Inv'
<1>1. /\ pc = "render" /\ pc' = pc /\ i <= Len(segs) /\ i' = i + 1 /\ order' = order
      /\ path' = path /\ pos' = pos /\ values' = values /\ binding' = binding
      /\ UNCHANGED template /\ lastVariableName' = last /\ result' = r
  BY DEF Rendering, RenderStep, matching
<1>2. /\ TypeOK /\ ParserInv /\ Using /\ Using' /\ pc' # "star"
  BY <1>1 DEF Inv, Using
<1>3. i \in 1 .. Len(segs) /\ Len(segs) \in Nat /\ i' \in 1 .. Len(segs) + 1
  BY <1>1, <1>2, SegmentsTyped DEF TypeOK
<1>4. TypeOK' /\ ParserInv' /\ segs' = segs
  BY <1>1, <1>2, <1>3, UseStepTyped, TemplateStays DEF TypeOK
<1>5. MatchInv'
  BY <1>1 DEF MatchInv
<1>6. CASE order = "match"
  <2>1. FromMatch
    BY <1>1, <1>6 DEF Inv, RenderInv, FromMatch
  <2>2. last = NameOf(i)
    BY <1>6, <2>1
  <2>3. PICK e \in i + 1 .. Len(segs) + 1 :
            /\ r = SubSeq(path, 1, Start(e) - 1)
            /\ \A j \in i + 1 .. e - 1 : NameOf(j) = last /\ last # NoName
            /\ e <= Len(segs) /\ last # NoName => NameOf(e) # last
    BY <1>6, <2>1
  <2>4. /\ Whole' /\ Agrees(Len(segs))' /\ Valued(values, Len(segs))'
        /\ \A j : NameOf(j)' = NameOf(j)
        /\ \A j : Start(j)' = Start(j)
    BY <1>1, <1>4, <2>1, MatchStays DEF FromMatch
  <2>5. (result = SubSeq(path, 1, Start(e) - 1))'
    BY <1>1, <2>3, <2>4, Zenon
  <2>6. RenderedUpTo(e)'
    BY <1>1, <1>4, <2>3, <2>4, <2>5 DEF RenderedUpTo
  <2>7. (lastVariableName = IF i = 1 THEN NoName ELSE NameOf(i - 1))'
    <3>1. i' # 1 /\ i' - 1 = i
      BY <1>1, <1>3
    <3> QED
      BY <1>1, <1>4, <2>2, <3>1 DEF NameOf
  <2>8. e \in i' .. Len(segs') + 1
    BY <1>1, <1>4
  <2>9. (binding = values)'
    BY <1>1, <2>1 DEF FromMatch
  <2> QED
    BY <1>1, <1>4, <1>5, <2>4, <2>6, <2>7, <2>8, <2>9 DEF Inv, RenderInv
<1>7. CASE order # "match"
  BY <1>1, <1>4, <1>5, <1>7 DEF Inv, RenderInv
<1> QED
  BY <1>6, <1>7

(* Where Render stands when its values are from Match.                     *)
LEMMA RenderFacts ==
    ASSUME Inv, Rendering
    PROVE  /\ TypeOK /\ ParserInv
           /\ i \in 1 .. Len(segs) /\ Len(segs) \in Nat /\ DOMAIN segs = 1 .. Len(segs)
           /\ segs[i] \in SegmentSet /\ NameOf(i) \in Names \cup {NoName}
           /\ result \in Seq(Texts) /\ lastVariableName \in Names \cup {NoName}
           /\ order = "match" =>
                 /\ FromMatch
                 /\ lastVariableName = IF i = 1 THEN NoName ELSE NameOf(i - 1)
                 /\ IF Repeated THEN \E e \in i + 1 .. Len(segs) + 1 : RenderedUpTo(e)
                                ELSE result = SubSeq(path, 1, Start(i) - 1)
<1>1. /\ TypeOK /\ ParserInv /\ pc = "render"
  BY DEF Inv, Rendering
<1>2. /\ i \in 1 .. Len(segs) /\ Len(segs) \in Nat /\ DOMAIN segs = 1 .. Len(segs)
      /\ segs[i] \in SegmentSet
  BY <1>1, SegmentsTyped DEF TypeOK, Rendering
<1>3. NameOf(i) \in Names \cup {NoName}
  BY <1>2 DEF SegmentSet, NameOf
<1>4. ASSUME order = "match"
      PROVE  /\ FromMatch
             /\ lastVariableName = IF i = 1 THEN NoName ELSE NameOf(i - 1)
             /\ \E e \in i .. Len(segs) + 1 : RenderedUpTo(e)
  BY <1>1, <1>4 DEF Inv, RenderInv, FromMatch
<1>5. ASSUME NEW e \in i .. Len(segs) + 1, RenderedUpTo(e)
      PROVE  IF Repeated THEN e \in i + 1 .. Len(segs) + 1
                         ELSE result = SubSeq(path, 1, Start(i) - 1)
  <2>1. CASE e = i
    BY <1>2, <1>5, <2>1 DEF RenderedUpTo, Repeated, NameOf
  <2>2. CASE e # i
    <3>1. i \in i .. e - 1 /\ e \in i + 1 .. Len(segs) + 1
      BY <1>2, <2>2
    <3>2. Repeated
      BY <1>5, <3>1 DEF RenderedUpTo, Repeated, NameOf
    <3> QED
      BY <3>1, <3>2
  <2> QED
    BY <2>1, <2>2
<1> QED
  BY <1>1, <1>2, <1>3, <1>4, <1>5 DEF TypeOK

LEMMA RenderRepeatedStep ==
    ASSUME Inv, RenderRepeated
    PROVE  Inv'
<1>1. Rendering /\ Repeated /\ RenderStep(result, lastVariableName)
  BY DEF RenderRepeated
<1>2. /\ result \in Seq(Texts) /\ lastVariableName \in Names \cup {NoName}
      /\ i \in 1 .. Len(segs) /\ Len(segs) \in Nat
      /\ order = "match" => \E e \in i + 1 .. Len(segs) + 1 : RenderedUpTo(e)
  BY <1>1, RenderFacts
<1>3. lastVariableName = NameOf(i)
  BY <1>1 DEF Repeated, NameOf
<1>4. ASSUME order = "match"
      PROVE  \E e \in i + 1 .. Len(segs) + 1 :
                /\ result = SubSeq(path, 1, Start(e) - 1)
                /\ \A j \in i + 1 .. e - 1 : NameOf(j) = lastVariableName /\ lastVariableName # NoName
                /\ e <= Len(segs) /\ lastVariableName # NoName => NameOf(e) # lastVariableName
  <2>1. PICK e \in i + 1 .. Len(segs) + 1 : RenderedUpTo(e)
    BY <1>2, <1>4
  <2>2. \A j \in i + 1 .. e - 1 : j \in i .. e - 1
    BY <1>2
  <2> QED
    BY <2>1, <2>2 DEF RenderedUpTo
<1> QED
  BY <1>1, <1>2, <1>3, <1>4, RenderStepStep

LEMMA RenderLabelStep ==
    ASSUME Inv, RenderLabel
    PROVE  Inv'
<1> DEFINE t == segs[i].text
<1>1. Rendering /\ ~Repeated /\ NameOf(i) = NoName /\ RenderStep(Append(result, t), NoName)
  BY DEF RenderLabel, NameOf
<1>2. /\ TypeOK /\ ParserInv
      /\ i \in 1 .. Len(segs) /\ Len(segs) \in Nat /\ DOMAIN segs = 1 .. Len(segs)
      /\ t \in Texts /\ result \in Seq(Texts)
      /\ order = "match" => FromMatch /\ result = SubSeq(path, 1, Start(i) - 1)
  BY <1>1, RenderFacts DEF SegmentSet
<1>3. Append(result, t) \in Seq(Texts)
  BY <1>2
<1>4. ASSUME order = "match", FromMatch
      PROVE  Append(result, t) = SubSeq(path, 1, Start(i + 1) - 1)
  <2>1. segs[i].kind = "label"
    BY <1>1, <1>2 DEF ParserInv, NamelessAreLabels
  <2>2. path[Start(i)] = t
    BY <1>2, <1>4, <2>1 DEF FromMatch, Agrees
  <2>3. /\ Start(i) \in Int /\ Start(i + 1) = Start(i) + 1 /\ Len(path) \in Nat
        /\ Surplus \in Int
    BY <1>2, <2>1, Starts
  <2>4. /\ 1 <= Start(i) /\ Start(i + 1) <= Len(path) + 1
    <3>1. Passed(Len(segs) + 1) => Surplus >= 0
      BY <1>4 DEF FromMatch, Agrees
    <3>2. /\ Len(segs) + 1 \in 1 .. Len(segs) + 1
          /\ i \in 1 .. Len(segs) + 1 /\ i + 1 \in 1 .. Len(segs) + 1
      BY <1>2
    <3> QED
      BY <1>2, <1>4, <3>1, <3>2, StartsInOrder DEF FromMatch, Whole
  <2>5. Start(i) \in 1 .. Len(path) /\ 1 \in 1 .. Len(path)
    BY <2>3, <2>4
  <2>6. path \in Seq(Texts)
    BY <1>2 DEF TypeOK
  <2>7. SubSeq(path, 1, Start(i)) = SubSeq(path, 1, Start(i) - 1) \o <<path[Start(i)]>>
    BY <2>5, <2>6, SubSeqRecursiveSecond
  <2>8. Append(result, t) = result \o <<t>>
    BY <1>2, AppendIsConcat
  <2>9. result = SubSeq(path, 1, Start(i) - 1)
    BY <1>2, <1>4
  <2>10. Start(i + 1) - 1 = Start(i)
    BY <2>3
  <2> QED
    BY <2>2, <2>7, <2>8, <2>9, <2>10, Zenon
<1>5. ASSUME order = "match", FromMatch
      PROVE  \E e \in i + 1 .. Len(segs) + 1 :
                /\ Append(result, t) = SubSeq(path, 1, Start(e) - 1)
                /\ \A j \in i + 1 .. e - 1 : NameOf(j) = NoName /\ NoName # NoName
                /\ e <= Len(segs) /\ NoName # NoName => NameOf(e) # NoName
  <2>1. i + 1 \in i + 1 .. Len(segs) + 1
    BY <1>2
  <2>2. \A j \in i + 1 .. (i + 1) - 1 : FALSE
    BY <1>2
  <2> HIDE DEF t
  <2> USE <2>1
  <2> WITNESS i + 1 \in i + 1 .. Len(segs) + 1
  <2> QED
    BY <1>4, <1>5, <2>2
<1>6. NoName \in Names \cup {NoName}
  OBVIOUS
<1> QED
  BY <1>1, <1>3, <1>5, <1>6, RenderStepStep

LEMMA RenderVariableStep ==
    ASSUME Inv, RenderVariable
    PROVE  Inv'
<1> DEFINE n == NameOf(i)
           r == result \o binding[n]
<1>1. /\ Rendering /\ ~Repeated /\ n # NoName /\ binding[n] # Absent /\ RenderStep(r, n)
  BY DEF RenderVariable, NameOf
<1>2. /\ TypeOK /\ ParserInv
      /\ i \in 1 .. Len(segs) /\ Len(segs) \in Nat /\ DOMAIN segs = 1 .. Len(segs)
      /\ n \in Names \cup {NoName} /\ result \in Seq(Texts)
      /\ order = "match" =>
            /\ FromMatch
            /\ lastVariableName = IF i = 1 THEN NoName ELSE NameOf(i - 1)
            /\ result = SubSeq(path, 1, Start(i) - 1)
  BY <1>1, RenderFacts
<1>3. r \in Seq(Texts)
  <2>1. binding[n] \in Path
    BY <1>1, <1>2 DEF TypeOK
  <2> QED
    BY <1>2, <2>1, ConcatProperties DEF Path
<1>4. ASSUME order = "match", FromMatch
      PROVE  \E e \in i + 1 .. Len(segs) + 1 :
                /\ r = SubSeq(path, 1, Start(e) - 1)
                /\ \A j \in i + 1 .. e - 1 : NameOf(j) = n /\ n # NoName
                /\ e <= Len(segs) /\ n # NoName => NameOf(e) # n
  <2>1. PICK a \in 1 .. Len(segs), b \in 1 .. Len(segs) :
            /\ a <= i /\ i <= b
            /\ \A k \in 1 .. Len(segs) : NameOf(k) = n <=> a <= k /\ k <= b
            /\ values[n] = Stretch(a, b)
    BY <1>1, <1>2, <1>4 DEF FromMatch, Valued
  <2>2. a = i
    <3> SUFFICES ASSUME a < i PROVE FALSE
      BY <1>2, <2>1
    <3>1. i - 1 \in 1 .. Len(segs) /\ a <= i - 1 /\ i - 1 <= b /\ i # 1
      BY <1>2, <2>1
    <3>2. NameOf(i - 1) = n
      BY <2>1, <3>1
    <3>3. lastVariableName = n
      BY <1>2, <1>4, <3>1, <3>2
    <3> QED
      BY <1>1, <3>3 DEF Repeated, NameOf
  <2>3. /\ Start(i) \in Int /\ Start(b + 1) \in Int /\ Len(path) \in Nat /\ Surplus \in Int
        /\ PathWildcards \subseteq 1 .. Len(segs) /\ i <= b /\ b + 1 \in i + 1 .. Len(segs) + 1
    <3>1. i \in 1 .. Len(segs) + 1 /\ b + 1 \in 1 .. Len(segs) + 1 /\ i <= b
          /\ b + 1 \in i + 1 .. Len(segs) + 1
      BY <1>2, <2>1
    <3> QED
      BY <1>2, <3>1, Starts
  <2>4. /\ 1 <= Start(i) /\ Start(i) <= Start(b + 1) /\ Start(b + 1) <= Len(path) + 1
    <3>1. Passed(Len(segs) + 1) => Surplus >= 0
      BY <1>4 DEF FromMatch, Agrees
    <3>2. Passed(b + 1) => Passed(Len(segs) + 1)
      <4>1. \A w \in PathWildcards : w < Len(segs) + 1
        BY <1>2, <2>3
      <4> QED
        BY <4>1 DEF Passed
    <3>3. /\ Len(segs) + 1 \in 1 .. Len(segs) + 1
          /\ b + 1 \in 1 .. Len(segs) + 1 /\ i \in 1 .. b + 1
      BY <1>2, <2>1, <2>3
    <3>4. 1 <= Start(i) /\ Start(i) <= Start(b + 1)
      BY <1>2, <3>1, <3>2, <3>3, StartsInOrder
    <3>5. Start(b + 1) <= Start(Len(segs) + 1)
      BY <1>2, <3>1, <3>3, StartsInOrder
    <3> QED
      BY <1>4, <3>4, <3>5 DEF FromMatch, Whole
  <2>5. r = SubSeq(path, 1, Start(b + 1) - 1)
    <3>1. path \in Seq(Texts)
      BY <1>2 DEF TypeOK
    <3>2. /\ 1 \in 1 .. Len(path) + 1
          /\ Start(i) - 1 \in 1 - 1 .. Len(path)
          /\ Start(b + 1) - 1 \in Start(i) - 1 .. Len(path)
      BY <2>3, <2>4
    <3>3. SubSeq(path, 1, Start(i) - 1) \o SubSeq(path, (Start(i) - 1) + 1, Start(b + 1) - 1)
            = SubSeq(path, 1, Start(b + 1) - 1)
      BY <3>1, <3>2, ConcatAdjacentSubSeq
    <3>4. (Start(i) - 1) + 1 = Start(i)
      BY <2>3
    <3>5. Stretch(a, b) = SubSeq(path, (Start(i) - 1) + 1, Start(b + 1) - 1)
      BY <2>2, <3>4, Zenon DEF Stretch
    <3>6. result = SubSeq(path, 1, Start(i) - 1) /\ binding[n] = Stretch(a, b)
      BY <1>2, <1>4, <2>1 DEF FromMatch
    <3> QED
      BY <3>3, <3>5, <3>6, Zenon
  <2>6. \A j \in i + 1 .. (b + 1) - 1 : NameOf(j) = n
    <3>1. \A j \in i + 1 .. (b + 1) - 1 : j \in 1 .. Len(segs) /\ a <= j /\ j <= b
      BY <1>2, <2>1, <2>3
    <3> QED
      BY <2>1, <3>1
  <2>7. b + 1 <= Len(segs) => NameOf(b + 1) # n
    <3>1. b + 1 <= Len(segs) => b + 1 \in 1 .. Len(segs) /\ ~(b + 1 <= b)
      BY <2>3, <1>2
    <3> QED
      BY <2>1, <3>1
  <2>8. b + 1 \in i + 1 .. Len(segs) + 1
    BY <2>3
  <2> HIDE DEF r, n
  <2> USE <2>8
  <2> WITNESS b + 1 \in i + 1 .. Len(segs) + 1
  <2> QED
    BY <1>1, <2>3, <2>5, <2>6, <2>7
<1> QED
  BY <1>1, <1>2, <1>3, <1>4, RenderStepStep

LEMMA MissingStep ==
    ASSUME Inv, Missing
    PROVE  Inv'
<1>1. /\ Rendering /\ ~Repeated /\ NameOf(i) # NoName /\ binding[NameOf(i)] = Absent
      /\ pc' = "missing" /\ i' = i /\ order' = order /\ path' = path /\ pos' = pos
      /\ values' = values /\ binding' = binding /\ lastVariableName' = lastVariableName
      /\ result' = result /\ UNCHANGED template
  BY DEF Missing, NameOf, Goto, matching, rendering
<1>2. /\ TypeOK /\ ParserInv /\ i \in 1 .. Len(segs)
      /\ order = "match" => FromMatch
  BY <1>1, RenderFacts
<1>3. Using /\ Using'
  BY <1>1 DEF Rendering, Using
<1>4. TypeOK' /\ ParserInv'
  BY <1>1, <1>2, <1>3, UseStepTyped DEF TypeOK
<1>5. order # "match"
  BY <1>1, <1>2, TextAssumption DEF FromMatch, Valued
<1>6. MatchInv' /\ RenderInv'
  BY <1>1, <1>5 DEF MatchInv, RenderInv
<1> QED
  BY <1>4, <1>6 DEF Inv

LEMMA RenderedStep ==
    ASSUME Inv, Rendered
    PROVE  Inv'
<1>1. /\ pc = "render" /\ i = Len(segs) + 1 /\ pc' = "rendered"
      /\ i' = i /\ order' = order /\ path' = path /\ pos' = pos
      /\ values' = values /\ binding' = binding /\ lastVariableName' = lastVariableName
      /\ result' = result /\ UNCHANGED template
  BY DEF Rendered, Goto, matching, rendering
<1>2. TypeOK /\ ParserInv /\ Using /\ Using' /\ pc' # "star"
  BY <1>1 DEF Inv, Using
<1>3. TypeOK' /\ ParserInv' /\ segs' = segs
  BY <1>1, <1>2, UseStepTyped, TemplateStays DEF TypeOK
<1>4. MatchInv'
  BY <1>1 DEF MatchInv
<1>5. CASE order = "match"
  <2>1. PICK e \in i .. Len(segs) + 1 : RenderedUpTo(e)
    BY <1>1, <1>5 DEF Inv, RenderInv
  <2>2. /\ Whole /\ Agrees(Len(segs)) /\ Valued(values, Len(segs)) /\ binding = values
        /\ lastVariableName = IF i = 1 THEN NoName ELSE NameOf(i - 1)
    BY <1>1, <1>5 DEF Inv, RenderInv
  <2>3. /\ Whole' /\ Agrees(Len(segs))' /\ Valued(values, Len(segs))'
        /\ \A j : NameOf(j)' = NameOf(j)
        /\ \A j : Start(j)' = Start(j)
    BY <1>1, <1>3, <2>2, MatchStays
  <2>4. e = Len(segs) + 1 /\ Len(segs) \in Nat /\ Len(path) \in Nat /\ path \in Seq(Texts)
    BY <1>1, <1>2, <2>1, Starts DEF TypeOK
  <2>5. result = path
    <3>1. Start(e) - 1 = Len(path)
      BY <2>2, <2>4 DEF Whole
    <3>2. result = SubSeq(path, 1, Len(path))
      BY <2>1, <3>1, Zenon DEF RenderedUpTo
    <3> QED
      BY <2>4, <3>2, SubSeqFull
  <2>6. (result = SubSeq(path, 1, Start(e) - 1))'
    BY <1>1, <2>1, <2>3, Zenon DEF RenderedUpTo
  <2>7. RenderedUpTo(e)'
    BY <1>1, <1>3, <2>1, <2>3, <2>6 DEF RenderedUpTo
  <2>8. (lastVariableName = IF i = 1 THEN NoName ELSE NameOf(i - 1))'
    BY <1>1, <1>3, <2>2 DEF NameOf
  <2>9. e \in i' .. Len(segs') + 1
    BY <1>1, <1>3, <2>1
  <2>10. RenderInv'
    BY <1>1, <2>2, <2>3, <2>5, <2>7, <2>8, <2>9 DEF RenderInv
  <2> QED
    BY <1>3, <1>4, <2>10 DEF Inv
<1>6. CASE order # "match"
  BY <1>1, <1>3, <1>4, <1>6 DEF Inv, RenderInv
<1> QED
  BY <1>5, <1>6
-----------------------------------------------------------------------------
(***************************************************************************)
(* The theorems.                                                           *)
(***************************************************************************)
LEMMA InitInv == Init => Inv
<1> SUFFICES ASSUME Init PROVE Inv
  OBVIOUS
<1>1. Parsing /\ ~Using
  BY DEF Init, Parsing, Using
<1>2. segs = <<>> /\ segs \in Seq(SegmentSet) /\ DOMAIN segs = {} /\ Len(segs) = 0
  BY DEF Init
<1>3. TypeOK
  <2>1. next \in Tokens /\ read \in 0 .. MaxTokens /\ nextVar \in 0 .. read
    BY TextAssumption DEF Init
  <2>2. path \in Seq(Texts) /\ Len(path) = 0 /\ pos \in 1 .. Len(path) + 1
        /\ i \in 1 .. Len(segs) + 1 /\ result \in Seq(Texts)
    BY <1>2 DEF Init
  <2>3. values \in [Names -> Path \cup {Absent}] /\ binding \in [Names -> Path \cup {Absent}]
    BY NothingTyped DEF Init
  <2> QED
    BY <1>1, <1>2, <2>1, <2>2, <2>3 DEF Init, TypeOK, SegmentSet
<1>4. ParserInv
  <2>1. PathWildcards = {}
    BY <1>2 DEF PathWildcards
  <2>2. NamesGiven /\ NamelessAreLabels /\ Contiguous /\ CurrentIsLast
    BY <1>2 DEF NamesGiven, NamelessAreLabels, Contiguous, CurrentIsLast
  <2>3. Positions
    BY <1>1, <1>2 DEF Init, Positions
  <2> QED
    BY <2>1, <2>2, <2>3 DEF ParserInv, OnePathWildcard
<1>5. MatchInv /\ RenderInv
  BY DEF Init, MatchInv, RenderInv
<1> QED
  BY <1>3, <1>4, <1>5 DEF Inv

LEMMA NextInv == Inv /\ [Next]_vars => Inv'
<1> SUFFICES ASSUME Inv, [Next]_vars PROVE Inv'
  OBVIOUS
<1>1. TypeOK /\ ParserInv
  BY DEF Inv
<1>2. CASE Parse
  <2>1. TypeOK' /\ ParserInv'
    BY <1>1, <1>2, ParseStep
  <2>2. pc' \notin {"match", "matched", "unmatched", "render", "rendered", "missing"}
    BY <1>2 DEF Parse, InitialSlash, NoInitialSlash, Star, Wildcard, PathWildcard,
       MultipleWildcards, Label, EmptyLiteral, OpenVariable, RecursiveBinding, VariableName,
       BadName, Bind, BareVariable, Slash, CloseVariable, ExpectedBrace, Parsed, Reject, Goto
  <2>3. MatchInv' /\ RenderInv'
    BY <2>2 DEF MatchInv, RenderInv
  <2> QED
    BY <2>1, <2>3 DEF Inv
<1>3. CASE CallMatch
  <2>1. /\ Using /\ order' \in {"match", "render"} /\ UNCHANGED rendering
        /\ \E p \in Seq(Texts) : StartMatch(p)
    BY <1>3, TextAssumption DEF CallMatch, Using, Path
  <2> QED
    BY <2>1, StartMatchStep
<1>4. CASE MatchRendered
  <2>1. /\ Using /\ order' \in {"match", "render"} /\ UNCHANGED rendering
        /\ result \in Seq(Texts) /\ StartMatch(result)
    BY <1>1, <1>4 DEF MatchRendered, Using, TypeOK
  <2> QED
    BY <2>1, StartMatchStep
<1>5. CASE CallRender
  <2>1. Using /\ order' = "render" /\ UNCHANGED matching
    BY <1>5 DEF CallRender, Using
  <2>2. PICK b \in [NamesOf(segs) -> Values \cup {Absent}] :
           StartRender([n \in Names |-> IF n \in NamesOf(segs) THEN b[n] ELSE Absent])
    BY <1>5 DEF CallRender
  <2>3. [n \in Names |-> IF n \in NamesOf(segs) THEN b[n] ELSE Absent]
          \in [Names -> Path \cup {Absent}]
    BY TextAssumption
  <2> QED
    BY <2>1, <2>2, <2>3, StartRenderStep
<1>6. CASE RenderMatched
  <2>1. /\ Using /\ order' \in {"match", "render"} /\ UNCHANGED matching /\ pc = "matched"
        /\ values \in [Names -> Path \cup {Absent}] /\ StartRender(values)
    BY <1>1, <1>6 DEF RenderMatched, Using, TypeOK
  <2> QED
    BY <2>1, StartRenderStep
<1>7. CASE MatchSegment \/ Mismatch \/ Matched
  BY <1>7, MatchSegmentStep, MismatchStep, MatchedStep
<1>8. CASE RenderRepeated \/ RenderLabel \/ RenderVariable \/ Missing \/ Rendered
  BY <1>8, RenderRepeatedStep, RenderLabelStep, RenderVariableStep, MissingStep, RenderedStep
<1>9. CASE UNCHANGED vars
  <2>1. /\ pc' = pc /\ next' = next /\ read' = read /\ segs' = segs /\ name' = name
        /\ nextVar' = nextVar /\ seenName' = seenName /\ seenPathWildcard' = seenPathWildcard
        /\ order' = order /\ path' = path /\ pos' = pos /\ i' = i /\ values' = values
        /\ binding' = binding /\ lastVariableName' = lastVariableName /\ result' = result
    BY <1>9 DEF vars, input, parser, matching, rendering
  <2>2. TypeOK'
    BY <1>1, <2>1 DEF TypeOK, Parsing, Using
  <2>3. ParserInv'
    <3>1. /\ NamesGiven' /\ NamelessAreLabels' /\ Contiguous' /\ OnePathWildcard'
          /\ CurrentIsLast' /\ PathWildcards' = PathWildcards
          /\ \A j \in DOMAIN segs : NameOf(j)' = NameOf(j)
      BY <1>1, <2>1, SameSegments
    <3>2. Positions'
      BY <1>1, <2>1, <3>1 DEF ParserInv, Positions, Using
    <3> QED
      BY <3>1, <3>2 DEF ParserInv
  <2>4. /\ PathWildcards' = PathWildcards /\ Surplus' = Surplus
        /\ \A j : NameOf(j)' = NameOf(j)
    BY <2>1 DEF PathWildcards, Surplus, NameOf
  <2>5. \A j : Start(j)' = Start(j)
    BY <2>4 DEF Start, Passed
  <2>6. \A a, b : Stretch(a, b)' = Stretch(a, b)
    BY <2>1, <2>5, Zenon DEF Stretch
  <2>7. MatchInv'
    <3>1. ASSUME pc = "match"
          PROVE  (pos = Start(i))' /\ Agrees(i - 1)' /\ Valued(values, i - 1)'
      <4>1. pos = Start(i) /\ Agrees(i - 1) /\ Valued(values, i - 1)
        BY <3>1 DEF Inv, MatchInv
      <4>2. (pos = Start(i))'
        BY <2>1, <2>4, <4>1 DEF Start, Passed
      <4>3. Agrees(i - 1)'
        BY <2>1, <2>4, <4>1 DEF Agrees, Start, Passed
      <4>4. Valued(values, i - 1)'
        BY <2>1, <2>4, <2>6, <4>1 DEF Valued
      <4> QED
        BY <4>2, <4>3, <4>4
    <3>2. ASSUME pc = "matched"
          PROVE  Whole' /\ Agrees(Len(segs))' /\ Valued(values, Len(segs))'
      BY <2>1, <3>2, MatchStays DEF Inv, MatchInv
    <3>3. ASSUME pc = "unmatched"
          PROVE  ~StandFor(1, Len(segs), path)'
      BY <2>1, <2>4, <3>3 DEF Inv, MatchInv, StandFor
    <3> QED
      BY <2>1, <3>1, <3>2, <3>3 DEF MatchInv
  <2>8. RenderInv'
    <3>1. CASE pc \in {"render", "rendered", "missing"} /\ order = "match"
      <4>1. PICK e \in i .. Len(segs) + 1 : RenderedUpTo(e)
        BY <3>1 DEF Inv, RenderInv
      <4>2. /\ pc # "missing" /\ Whole /\ Agrees(Len(segs)) /\ Valued(values, Len(segs))
            /\ binding = values
            /\ lastVariableName = IF i = 1 THEN NoName ELSE NameOf(i - 1)
            /\ pc = "rendered" => result = path
        BY <3>1 DEF Inv, RenderInv
      <4>3. Whole' /\ Agrees(Len(segs))' /\ Valued(values, Len(segs))'
        BY <2>1, <4>2, MatchStays
      <4>4. (result = SubSeq(path, 1, Start(e) - 1))'
        BY <2>1, <2>5, <4>1, Zenon DEF RenderedUpTo
      <4>5. RenderedUpTo(e)'
        BY <2>1, <2>4, <4>1, <4>4 DEF RenderedUpTo
      <4>6. (lastVariableName = IF i = 1 THEN NoName ELSE NameOf(i - 1))'
        BY <2>1, <4>2 DEF NameOf
      <4>7. e \in i' .. Len(segs') + 1
        BY <2>1, <4>1
      <4> QED
        BY <2>1, <4>2, <4>3, <4>5, <4>6, <4>7 DEF RenderInv
    <3>2. CASE ~(pc \in {"render", "rendered", "missing"} /\ order = "match")
      BY <2>1, <3>2 DEF RenderInv
    <3> QED
      BY <3>1, <3>2
  <2> QED
    BY <2>2, <2>3, <2>7, <2>8 DEF Inv
<1> QED
  BY <1>2, <1>3, <1>4, <1>5, <1>6, <1>7, <1>8, <1>9 DEF Next, Use

(* The invariant holds of every parse, match and render.                   *)
THEOREM Invariant == Spec => []Inv
<1>1. Init => Inv
  BY InitInv
<1>2. Inv /\ [Next]_vars => Inv'
  BY NextInv
<1> QED
  BY <1>1, <1>2, PTL DEF Spec

(* Every variable has its type: the parser, Match and Render never index   *)
(* past a template or a path.                                              *)
THEOREM TypeCorrect == Spec => []TypeOK
<1>1. Inv => TypeOK
  BY DEF Inv
<1> QED
  BY <1>1, Invariant, PTL

(* The parser (path_template.go 224-344) accepts only templates whose      *)
(* variables do not interleave and that have at most one "**".             *)
THEOREM ParserIsSound == Spec => []TemplateSound
<1>1. ASSUME Inv, Using
      PROVE  /\ segs # <<>>
             /\ \A j, k, l \in DOMAIN segs :
                   j < k /\ k < l /\ segs[j].name = segs[l].name /\ segs[j].name # NoName
                   => segs[k].name = segs[j].name
             /\ \A j, k \in PathWildcards : j = k
             /\ \A j \in PathWildcards : segs[j].after = Len(segs) - j
  <2>1. segs # <<>> /\ \A j \in PathWildcards : segs[j].after = Len(segs) - j
    BY <1>1 DEF Inv, ParserInv, Positions
  <2>2. \A j, k \in PathWildcards : j = k
    BY <1>1 DEF Inv, ParserInv, OnePathWildcard
  <2>3. Contiguous
    BY <1>1 DEF Inv, ParserInv
  <2> QED
    BY <2>1, <2>2, <2>3 DEF Contiguous, NameOf
<1>2. Inv => TemplateSound
  BY <1>1 DEF TemplateSound
<1> QED
  BY <1>2, Invariant, PTL

(* Match (path_template.go 160-184) accepts exactly the paths that the     *)
(* template stands for, of any length.                                     *)
THEOREM MatchIsExact == Spec => []MatchDecides
<1>1. ASSUME Inv, pc = "matched"
      PROVE  StandFor(1, Len(segs), path)
  <2>1. Whole /\ Agrees(Len(segs)) /\ TypeOK /\ ParserInv
    BY <1>1 DEF Inv, MatchInv
  <2>2. /\ Len(segs) \in Nat /\ Len(path) \in Nat /\ Surplus \in Int
        /\ PathWildcards \subseteq 1 .. Len(segs)
    BY <2>1, Starts
  <2>3. CASE Passed(Len(segs) + 1)
    <3>1. PathWildcards # {} /\ Surplus >= 0
      BY <2>1, <2>3 DEF Agrees, Passed
    <3> QED
      BY <2>1, <3>1, StandForPath DEF Agrees
  <2>4. CASE ~Passed(Len(segs) + 1)
    <3>1. Surplus = 0
      BY <2>1, <2>2, <2>4 DEF Whole, Start, Surplus
    <3> QED
      BY <2>1, <3>1, StandForPath DEF Agrees
  <2> QED
    BY <2>3, <2>4
<1>2. Inv => MatchDecides
  BY <1>1 DEF Inv, MatchInv, MatchDecides
<1> QED
  BY <1>2, Invariant, PTL

(* Render (path_template.go 186-207) makes of the values that Match        *)
(* returned the path they came from, with no variable missing.             *)
THEOREM RenderUndoesMatch == Spec => []RenderInvertsMatch
<1>1. Inv => RenderInvertsMatch
  BY DEF Inv, RenderInv, RenderInvertsMatch
<1> QED
  BY <1>1, Invariant, PTL
=============================================================================
