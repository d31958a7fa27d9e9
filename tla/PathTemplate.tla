---------------------------- MODULE PathTemplate ----------------------------
(***************************************************************************)
(* path_template.go: the recursive-descent parser of path templates as the *)
(* automaton it is, since variables do not nest, and the loops of Match    *)
(* and Render over the segments it returns.                                *)
(*                                                                         *)
(* The template's text is chosen as it is read, one token at a time; a     *)
(* literal is one token, read up to a stop character.  A path is the       *)
(* sequence of what its slashes separate, and so is a variable's value.    *)
(***************************************************************************)
EXTENDS Naturals, Sequences

CONSTANTS Literals,    \* texts without a stop character
          EmptyText,   \* the text between two slashes in a row
          NoName,      \* the name of a segment outside all variables
          Unnamed(_),  \* Unnamed(n): the name "$n"
          Paths,       \* the paths that are matched
          Values,      \* the values that are rendered
          Absent,      \* no value in a binding
          MaxTokens    \* bound on the tokens read

Stops == {"/", "*", "{", "}", "="}
Tokens == Stops \cup Literals \cup {"end"}
Texts == Literals \cup {EmptyText}
Names == Literals \cup {Unnamed(n) : n \in 0 .. MaxTokens}
Path == Seq(Texts) \ {<<>>}

ASSUME TextAssumption ==
    /\ MaxTokens \in Nat
    /\ Literals \cap (Stops \cup {"end", EmptyText, NoName}) = {}
    /\ Paths \subseteq Path
    /\ Values \subseteq Path
    /\ Absent \notin Path

(* No variable is called "$n".                                             *)
ASSUME UnnamedAssumption ==
    \A n \in 0 .. MaxTokens :
        /\ Unnamed(n) \notin Literals \cup {NoName}
        /\ \A k \in 0 .. MaxTokens : Unnamed(n) = Unnamed(k) => n = k

VARIABLES pc,          \* where the parser, Match or Render is
          next,        \* the token the reader is at
          read,        \* tokens consumed
          segs,        \* the segments parsed
          name,        \* the variable being parsed, or NoName
          nextVar,     \* number of the next unnamed variable
          seenName,    \* names of the variables so far
          seenPathWildcard,
          order,       \* which is called first: "none" yet, "match" or "render"
          path,        \* the path to match, or <<>>
          pos,         \* Match: where in path the rest begins
          i,           \* Match and Render: the segment looked at
          values,      \* values[n]: what Match bound n to, or Absent
          binding,     \* binding[n]: what Render gets for n, or Absent
          lastVariableName,
          result       \* the path rendered so far

input == <<next, read>>
parser == <<name, nextVar, seenName, seenPathWildcard>>
matching == <<path, pos, values>>
rendering == <<binding, lastVariableName, result>>
vars == <<pc, input, segs, parser, order, i, matching, rendering>>

Nothing == [n \in Names |-> Absent]

Init ==
    /\ pc = "template"
    /\ next \in Tokens
    /\ read = 0
    /\ segs = <<>>
    /\ name = NoName
    /\ nextVar = 0
    /\ seenName = {}
    /\ seenPathWildcard = FALSE
    /\ order = "none"
    /\ path = <<>>
    /\ pos = 1
    /\ i = 1
    /\ values = Nothing
    /\ binding = Nothing
    /\ lastVariableName = NoName
    /\ result = <<>>

(***************************************************************************)
(* The reader.                                                             *)
(***************************************************************************)
Consume ==
    /\ read < MaxTokens
    /\ read' = read + 1
    /\ next' \in IF next \in Literals THEN Tokens \ Literals ELSE Tokens

Goto(p) == pc' = p
NoCalls == UNCHANGED <<order, i, matching, rendering>>

(* The parser's error: nothing but the error is returned.                  *)
Reject ==
    /\ Goto("rejected")
    /\ NoCalls
    /\ UNCHANGED <<input, segs, parser>>

(***************************************************************************)
(* The parser.                                                             *)
(***************************************************************************)
Segment(k, t, n) == [kind |-> k, text |-> t, after |-> 0, name |-> n]
Add(s) == segs' = Append(segs, s)

(* An initial slash needs an initial empty label.                          *)
InitialSlash ==
    /\ pc = "template"
    /\ next = "/"
    /\ Consume
    /\ Add(Segment("label", EmptyText, NoName))
    /\ Goto("segment")
    /\ NoCalls
    /\ UNCHANGED parser

NoInitialSlash ==
    /\ pc = "template"
    /\ next # "/"
    /\ Goto("segment")
    /\ NoCalls
    /\ UNCHANGED <<input, segs, parser>>

Star ==
    /\ pc = "segment"
    /\ next = "*"
    /\ Consume
    /\ Goto("star")
    /\ NoCalls
    /\ UNCHANGED <<segs, parser>>

(* The name of a wildcard, and the number of the next one.                 *)
WildcardName == IF name = NoName THEN Unnamed(nextVar) ELSE name
CountVar == nextVar' = IF name = NoName THEN nextVar + 1 ELSE nextVar

Wildcard ==
    /\ pc = "star"
    /\ next # "*"
    /\ Add(Segment("wildcard", EmptyText, WildcardName))
    /\ CountVar
    /\ Goto("next")
    /\ NoCalls
    /\ UNCHANGED <<input, name, seenName, seenPathWildcard>>

PathWildcard ==
    /\ pc = "star"
    /\ next = "*"
    /\ ~seenPathWildcard
    /\ Consume
    /\ seenPathWildcard' = TRUE
    /\ Add(Segment("pathWildcard", EmptyText, WildcardName))
    /\ CountVar
    /\ Goto("next")
    /\ NoCalls
    /\ UNCHANGED <<name, seenName>>

MultipleWildcards ==
    /\ pc = "star"
    /\ next = "*"
    /\ seenPathWildcard
    /\ Reject

Label ==
    /\ pc = "segment"
    /\ next \in Literals
    /\ Consume
    /\ Add(Segment("label", next, name))
    /\ Goto("next")
    /\ NoCalls
    /\ UNCHANGED parser

EmptyLiteral ==
    /\ pc = "segment"
    /\ next \in {"/", "}", "=", "end"}
    /\ Reject

OpenVariable ==
    /\ pc = "segment"
    /\ next = "{"
    /\ name = NoName
    /\ Consume
    /\ Goto("name")
    /\ NoCalls
    /\ UNCHANGED <<segs, parser>>

RecursiveBinding ==
    /\ pc = "segment"
    /\ next = "{"
    /\ name # NoName
    /\ Reject

(* Mutant: a name may be used twice.                                       *)
VariableNameAgain ==
    /\ pc = "name"
    /\ next \in Literals
    /\ Consume
    /\ name' = next
    /\ seenName' = seenName \cup {next}
    /\ Goto("bind")
    /\ NoCalls
    /\ UNCHANGED <<segs, nextVar, seenPathWildcard>>

VariableName ==
    /\ pc = "name"
    /\ next \in Literals \ seenName
    /\ Consume
    /\ name' = next
    /\ seenName' = seenName \cup {next}
    /\ Goto("bind")
    /\ NoCalls
    /\ UNCHANGED <<segs, nextVar, seenPathWildcard>>

BadName ==
    /\ pc = "name"
    /\ next \notin Literals \ seenName
    /\ Reject

Bind ==
    /\ pc = "bind"
    /\ next = "="
    /\ Consume
    /\ Goto("segment")
    /\ NoCalls
    /\ UNCHANGED <<segs, parser>>

(* "{var}" stands for "{var=*}".                                           *)
BareVariable ==
    /\ pc = "bind"
    /\ next = "}"
    /\ Consume
    /\ Add(Segment("wildcard", EmptyText, name))
    /\ name' = NoName
    /\ Goto("next")
    /\ NoCalls
    /\ UNCHANGED <<nextVar, seenName, seenPathWildcard>>

(* After a segment.                                                        *)
Slash ==
    /\ pc = "next"
    /\ next = "/"
    /\ Consume
    /\ Goto("segment")
    /\ NoCalls
    /\ UNCHANGED <<segs, parser>>

CloseVariable ==
    /\ pc = "next"
    /\ next = "}"
    /\ name # NoName
    /\ Consume
    /\ name' = NoName
    /\ NoCalls
    /\ UNCHANGED <<pc, segs, nextVar, seenName, seenPathWildcard>>

ExpectedBrace ==
    /\ \/ pc = "bind" /\ next \notin {"=", "}"}
       \/ pc = "next" /\ next \notin {"/", "}"} /\ name # NoName
    /\ Reject

(* Outside a variable anything but a slash ends the template, whatever     *)
(* text is left.  Only now is the length of a "**" known.                  *)
Parsed ==
    /\ pc = "next"
    /\ next # "/"
    /\ name = NoName
    /\ segs' = [j \in DOMAIN segs |->
                   IF segs[j].kind = "pathWildcard"
                   THEN [segs[j] EXCEPT !.after = Len(segs) - j]
                   ELSE segs[j]]
    /\ Goto("parsed")
    /\ NoCalls
    /\ UNCHANGED <<input, parser>>

Parse ==
    \/ InitialSlash \/ NoInitialSlash \/ Star \/ Wildcard \/ PathWildcard
    \/ MultipleWildcards \/ Label \/ EmptyLiteral \/ OpenVariable
    \/ RecursiveBinding \/ VariableName \/ BadName \/ Bind \/ BareVariable
    \/ Slash \/ CloseVariable \/ ExpectedBrace \/ Parsed

(***************************************************************************)
(* Match.                                                                  *)
(***************************************************************************)
template == <<input, segs, parser>>

StartMatch(p) ==
    /\ Goto("match")
    /\ path' = p
    /\ pos' = 1
    /\ i' = 1
    /\ values' = Nothing
    /\ UNCHANGED template

CallMatch ==
    /\ pc = "parsed"
    /\ order' = "match"
    /\ \E p \in Paths : StartMatch(p)
    /\ UNCHANGED rendering

Rest == Len(path) + 1 - pos

(* Mutant: a "**" may stand for nothing.                                   *)
AcceptsNone(s) ==
    CASE s.kind = "label" -> Rest > 0 /\ path[pos] = s.text
      [] s.kind = "wildcard" -> Rest > 0
      [] s.kind = "pathWildcard" -> Rest >= s.after

(* What match of the segment's matcher accepts, and how much it takes.     *)
Accepts(s) ==
    CASE s.kind = "label" -> Rest > 0 /\ path[pos] = s.text
      [] s.kind = "wildcard" -> Rest > 0
      [] s.kind = "pathWildcard" -> Rest > s.after

Length(s) == IF s.kind = "pathWildcard" THEN Rest - s.after ELSE 1

(* Mutant: a variable gets the value of its last segment only.             *)
MatchSegmentAlone ==
    /\ pc = "match"
    /\ i <= Len(segs)
    /\ Accepts(segs[i])
    /\ LET n == segs[i].name
           value == SubSeq(path, pos, pos + Length(segs[i]) - 1)
       IN  values' = IF n = NoName THEN values ELSE [values EXCEPT ![n] = value]
    /\ pos' = pos + Length(segs[i])
    /\ i' = i + 1
    /\ UNCHANGED <<pc, template, order, path, rendering>>

MatchSegment ==
    /\ pc = "match"
    /\ i <= Len(segs)
    /\ Accepts(segs[i])
    /\ LET n == segs[i].name
           value == SubSeq(path, pos, pos + Length(segs[i]) - 1)
       IN  values' = IF n = NoName THEN values
                     ELSE [values EXCEPT ![n] = IF @ = Absent THEN value ELSE @ \o value]
    /\ pos' = pos + Length(segs[i])
    /\ i' = i + 1
    /\ UNCHANGED <<pc, template, order, path, rendering>>

Mismatch ==
    /\ pc = "match"
    /\ \/ i <= Len(segs) /\ ~Accepts(segs[i])
       \/ i = Len(segs) + 1 /\ Rest # 0
    /\ Goto("unmatched")
    /\ UNCHANGED <<template, order, i, matching, rendering>>

(* Mutant: what is left of the path is not looked at.                      *)
MatchedPrefix ==
    /\ pc = "match"
    /\ i = Len(segs) + 1
    /\ Goto("matched")
    /\ UNCHANGED <<template, order, i, matching, rendering>>

Matched ==
    /\ pc = "match"
    /\ i = Len(segs) + 1
    /\ Rest = 0
    /\ Goto("matched")
    /\ UNCHANGED <<template, order, i, matching, rendering>>

(***************************************************************************)
(* Render.                                                                 *)
(***************************************************************************)
StartRender(b) ==
    /\ Goto("render")
    /\ binding' = b
    /\ i' = 1
    /\ lastVariableName' = NoName
    /\ result' = <<>>
    /\ UNCHANGED template

NamesOf(s) == {s[j].name : j \in DOMAIN s} \ {NoName}

CallRender ==
    /\ pc = "parsed"
    /\ order' = "render"
    /\ \E b \in [NamesOf(segs) -> Values \cup {Absent}] :
          StartRender([n \in Names |-> IF n \in NamesOf(segs) THEN b[n] ELSE Absent])
    /\ UNCHANGED matching

Rendering == pc = "render" /\ i <= Len(segs)

(* Mutant: each segment of a variable is replaced by the variable's value. *)
NeverRepeated == FALSE

Repeated == lastVariableName # NoName /\ segs[i].name = lastVariableName

RenderStep(r, last) ==
    /\ result' = r
    /\ lastVariableName' = last
    /\ i' = i + 1
    /\ UNCHANGED <<pc, template, order, matching, binding>>

RenderRepeated ==
    /\ Rendering
    /\ Repeated
    /\ RenderStep(result, lastVariableName)

RenderLabel ==
    /\ Rendering
    /\ ~Repeated
    /\ segs[i].name = NoName
    /\ RenderStep(Append(result, segs[i].text), NoName)

RenderVariable ==
    /\ Rendering
    /\ ~Repeated
    /\ segs[i].name # NoName
    /\ binding[segs[i].name] # Absent
    /\ RenderStep(result \o binding[segs[i].name], segs[i].name)

Missing ==
    /\ Rendering
    /\ ~Repeated
    /\ segs[i].name # NoName
    /\ binding[segs[i].name] = Absent
    /\ Goto("missing")
    /\ UNCHANGED <<template, order, i, matching, rendering>>

Rendered ==
    /\ pc = "render"
    /\ i = Len(segs) + 1
    /\ Goto("rendered")
    /\ UNCHANGED <<template, order, i, matching, rendering>>

(* The result of one is given to the other.                                *)
RenderMatched ==
    /\ pc = "matched"
    /\ order = "match"
    /\ StartRender(values)
    /\ UNCHANGED <<order, matching>>

MatchRendered ==
    /\ pc = "rendered"
    /\ order = "render"
    /\ StartMatch(result)
    /\ UNCHANGED <<order, rendering>>

Use ==
    \/ CallMatch \/ MatchSegment \/ Mismatch \/ Matched \/ MatchRendered
    \/ CallRender \/ RenderRepeated \/ RenderLabel \/ RenderVariable
    \/ Missing \/ Rendered \/ RenderMatched

Next == Parse \/ Use

Spec == Init /\ [][Next]_vars
-----------------------------------------------------------------------------
(***************************************************************************)
(* Properties.                                                             *)
(***************************************************************************)
Parsing == pc \in {"template", "segment", "star", "name", "bind", "next", "rejected"}
Using == pc \in {"parsed", "match", "matched", "unmatched", "render", "rendered", "missing"}

(* Every variable has its type.                                            *)
TypeOK ==
    /\ Parsing \/ Using
    /\ next \in Tokens
    /\ read \in 0 .. MaxTokens
    /\ segs \in Seq([kind : {"label", "wildcard", "pathWildcard"}, text : Texts,
                     after : Nat, name : Names \cup {NoName}])
    /\ name \in Literals \cup {NoName}
    /\ nextVar \in 0 .. read
    /\ seenName \in SUBSET Literals
    /\ seenPathWildcard \in BOOLEAN
    /\ order \in {"none", "match", "render"}
    /\ path \in Seq(Texts)
    /\ pos \in 1 .. Len(path) + 1
    /\ i \in 1 .. Len(segs) + 1
    /\ values \in [Names -> Path \cup {Absent}]
    /\ binding \in [Names -> Path \cup {Absent}]
    /\ lastVariableName \in Names \cup {NoName}
    /\ result \in Seq(Texts)

PathWildcards == {j \in DOMAIN segs : segs[j].kind = "pathWildcard"}

(* What Match and Render rely on in a template the parser accepts: the     *)
(* segments of a variable stand together, no other variable has its name,  *)
(* and there is at most one "**", which knows what comes after it.         *)
TemplateSound ==
    Using =>
        /\ segs # <<>>
        /\ \A j, k, l \in DOMAIN segs :
              j < k /\ k < l /\ segs[j].name = segs[l].name /\ segs[j].name # NoName
              => segs[k].name = segs[j].name
        /\ \A j, k \in PathWildcards : j = k
        /\ \A j \in PathWildcards : segs[j].after = Len(segs) - j

(* Segments a to b stand for p: one part of p for each, and what is left   *)
(* over for the "**" if it is among them.                                  *)
StandFor(a, b, p) ==
    LET surplus == Len(p) - (b + 1 - a)
        At(j) == IF \E w \in PathWildcards : a <= w /\ w < j
                 THEN j + 1 - a + surplus ELSE j + 1 - a
    IN  /\ Len(p) >= b + 1 - a
        /\ surplus = 0 \/ \E w \in PathWildcards : a <= w /\ w <= b
        /\ \A j \in a .. b : segs[j].kind = "label" => p[At(j)] = segs[j].text

(* Match accepts exactly the paths that the template stands for.           *)
MatchDecides ==
    /\ pc = "matched" => StandFor(1, Len(segs), path)
    /\ pc = "unmatched" => ~StandFor(1, Len(segs), path)

(* Render makes of the values that Match returned the path they are from.  *)
RenderInvertsMatch ==
    order = "match" =>
        /\ pc # "missing"
        /\ pc = "rendered" => result = path

(* Each variable has a value that its own segments stand for.              *)
BindingFits ==
    \A n \in NamesOf(segs) :
        LET own == {j \in DOMAIN segs : segs[j].name = n}
            a == CHOOSE j \in own : \A k \in own : j <= k
            b == CHOOSE j \in own : \A k \in own : k <= j
        IN  binding[n] # Absent /\ StandFor(a, b, binding[n])

(* Match gives back the values that a path was rendered from, if each      *)
(* value is one its variable can have.                                     *)
MatchInvertsRender ==
    order = "render" /\ pc \in {"matched", "unmatched"} /\ BindingFits =>
        pc = "matched" /\ values = binding
=============================================================================
