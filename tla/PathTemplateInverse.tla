------------------------ MODULE PathTemplateInverse ------------------------
(***************************************************************************)
(* Proof that Match inverts Render, for every set of literals and values:  *)
(* a path rendered from values that fit their variables is matched by the  *)
(* same template and gives these values back.                              *)
(*                                                                         *)
(* A "**" takes the room that its variable's value has beyond one part for *)
(* each of the variable's segments.  So the values alone say where in the  *)
(* path to be rendered each segment comes to stand.  The invariant is that *)
(* what Render has made so far holds every label and every value at those  *)
(* places; Match, which starts each segment where the path's length tells  *)
(* it to, then finds them there.                                           *)
(***************************************************************************)
EXTENDS PathTemplateProofs, WellFoundedInduction

(* The segments of the variable n are those from a to b.                   *)
Owns(n, a, b) == \A k \in 1 .. Len(segs) : NameOf(k) = n <=> a <= k /\ k <= b

HasWildcard(a, b) == \E w \in PathWildcards : a <= w /\ w <= b

(* The room that the values leave for the "**", beyond one part.           *)
Room(s) ==
    /\ s \in Nat
    /\ PathWildcards = {} => s = 0
    /\ \A a, b \in 1 .. Len(segs) :
          a <= b /\ NameOf(a) # NoName /\ Owns(NameOf(a), a, b) =>
             Len(binding[NameOf(a)]) = b + 1 - a + IF HasWildcard(a, b) THEN s ELSE 0

HasRoom == \E s \in Nat : Room(s)

(* Where segment j comes to stand.                                         *)
Place(s, j) == IF Passed(j) THEN j + s ELSE j

(* The path p holds what the segments before e stand for, and no more.     *)
Laid(s, p, e) ==
    /\ Len(p) = Place(s, e) - 1
    /\ \A j \in 1 .. e - 1 : NameOf(j) = NoName => p[Place(s, j)] = segs[j].text
    /\ \A j \in 1 .. e - 1 : NameOf(j) # NoName =>
          \E a, b \in 1 .. e - 1 :
              /\ a <= j /\ j <= b
              /\ Owns(NameOf(j), a, b)
              /\ SubSeq(p, Place(s, a), Place(s, b + 1) - 1) = binding[NameOf(j)]

(* Render has come to segment i, having put in the value of the variable   *)
(* whose segments i to e - 1 are still to be passed over.                  *)
LaidUpTo(s, e) ==
    /\ Laid(s, result, e)
    /\ \A j \in i .. e - 1 : NameOf(j) = lastVariableName /\ lastVariableName # NoName
    /\ e <= Len(segs) /\ lastVariableName # NoName => NameOf(e) # lastVariableName

Called == pc \in {"render", "rendered", "missing", "match", "matched", "unmatched"}

RenderFirst == order = "render" /\ Called /\ BindingFits

InverseInv ==
    RenderFirst =>
        /\ pc # "missing"
        /\ \A n \in Names \ NamesOf(segs) : binding[n] = Absent
        /\ pc = "render" =>
              lastVariableName = IF i = 1 THEN NoName ELSE NameOf(i - 1)
        /\ \E s \in Nat :
              /\ Room(s)
              /\ pc = "render" => \E e \in i .. Len(segs) + 1 : LaidUpTo(s, e)
              /\ pc = "rendered" => Laid(s, result, Len(segs) + 1)
              /\ pc \in {"match", "matched", "unmatched"} => Laid(s, path, Len(segs) + 1)
-----------------------------------------------------------------------------
(***************************************************************************)
(* The segments of a variable.                                             *)
(***************************************************************************)
LEMMA Least ==
    ASSUME NEW S \in SUBSET Nat, S # {}
    PROVE  \E x \in S : \A y \in S : x <= y
<1> DEFINE R == {ss \in Nat \X Nat : ss[1] < ss[2]}
<1>1. IsWellFoundedOn(R, Nat)
  BY NatLessThanWellFounded DEF OpToRel
<1>2. \E x \in S : \A y \in S : ~(<<y, x>> \in R)
  <2> HIDE DEF R
  <2> QED
    BY <1>1, WFMin
<1>3. PICK x \in S : \A y \in S : ~(<<y, x>> \in R)
  BY <1>2
<1>4. ASSUME NEW y \in S PROVE x <= y
  <2>1. x \in Nat /\ y \in Nat /\ ~(y < x)
    BY <1>3
  <2> QED
    BY <2>1
<1> QED
  BY <1>3, <1>4

LEMMA Greatest ==
    ASSUME NEW m \in Nat, NEW S \in SUBSET (0 .. m), S # {}
    PROVE  \E x \in S : \A y \in S : y <= x
<1> DEFINE T == {m - y : y \in S}
<1>1. T \in SUBSET Nat /\ T # {}
  <2>1. \A y \in S : m - y \in Nat
    OBVIOUS
  <2> QED
    BY <2>1
<1>2. PICK z \in T : \A y \in T : z <= y
  <2> HIDE DEF T
  <2> QED
    BY <1>1, Least
<1>3. PICK x \in S : z = m - x
  BY <1>2
<1>4. ASSUME NEW y \in S PROVE y <= x
  <2>1. m - x <= m - y /\ x \in 0 .. m /\ y \in 0 .. m
    BY <1>2, <1>3
  <2> QED
    BY <2>1
<1> QED
  BY <1>3, <1>4

LEMMA OwnedStretch ==
    ASSUME TypeOK, ParserInv, NEW j \in 1 .. Len(segs), NameOf(j) # NoName
    PROVE  \E a, b \in 1 .. Len(segs) : a <= j /\ j <= b /\ Owns(NameOf(j), a, b)
<1> DEFINE own == {k \in 1 .. Len(segs) : NameOf(k) = NameOf(j)}
<1>1. Len(segs) \in Nat /\ DOMAIN segs = 1 .. Len(segs)
  BY SegmentsTyped
<1>2. j \in own /\ own \in SUBSET Nat /\ own \in SUBSET (0 .. Len(segs))
  BY <1>1
<1>3. PICK a \in own : \A k \in own : a <= k
  <2> HIDE DEF own
  <2> QED
    BY <1>2, Least
<1>4. PICK b \in own : \A k \in own : k <= b
  <2> HIDE DEF own
  <2> QED
    BY <1>1, <1>2, Greatest
<1>5. ASSUME NEW k \in 1 .. Len(segs), a <= k, k <= b
      PROVE  NameOf(k) = NameOf(j)
  <2>1. CASE k = a \/ k = b
    BY <1>3, <1>4, <2>1
  <2>2. CASE a < k /\ k < b
    BY <1>1, <1>3, <1>4, <2>2 DEF ParserInv, Contiguous
  <2> QED
    BY <1>1, <1>3, <1>4, <1>5, <2>1, <2>2
<1>6. Owns(NameOf(j), a, b)
  BY <1>3, <1>4, <1>5 DEF Owns
<1> QED
  BY <1>2, <1>3, <1>4, <1>6

LEMMA OwnsUnique ==
    ASSUME NEW n, NEW a \in 1 .. Len(segs), NEW b \in 1 .. Len(segs), a <= b,
           NEW c \in 1 .. Len(segs), NEW d \in 1 .. Len(segs), c <= d,
           Owns(n, a, b), Owns(n, c, d), Len(segs) \in Nat
    PROVE  a = c /\ b = d
<1>1. NameOf(a) = n /\ NameOf(b) = n /\ NameOf(c) = n /\ NameOf(d) = n
  BY DEF Owns
<1>2. c <= a /\ a <= c /\ b <= d /\ d <= b
  BY <1>1 DEF Owns
<1> QED
  BY <1>2

(* What the values are for.                                                *)
LEMMA ValueFits ==
    ASSUME TypeOK, ParserInv, BindingFits,
           NEW a \in 1 .. Len(segs), NEW b \in 1 .. Len(segs), a <= b,
           NameOf(a) # NoName, Owns(NameOf(a), a, b)
    PROVE  binding[NameOf(a)] \in Path /\ StandFor(a, b, binding[NameOf(a)])
<1> DEFINE n == NameOf(a)
           own == {j \in DOMAIN segs : segs[j].name = n}
           first == CHOOSE j \in own : \A k \in own : j <= k
           last == CHOOSE j \in own : \A k \in own : k <= j
<1>1. Len(segs) \in Nat /\ DOMAIN segs = 1 .. Len(segs) /\ segs[a] \in SegmentSet
  BY SegmentsTyped
<1>2. n \in NamesOf(segs) /\ n \in Names
  BY <1>1 DEF NamesOf, NameOf, SegmentSet
<1>3. own = {k \in 1 .. Len(segs) : a <= k /\ k <= b}
  BY <1>1 DEF Owns, NameOf
<1>4. a \in own /\ b \in own /\ \A k \in own : a <= k /\ k <= b /\ k \in Nat
  BY <1>1, <1>3
<1>5. binding[n] # Absent /\ StandFor(first, last, binding[n])
  BY <1>2 DEF BindingFits
<1> HIDE DEF own, n
<1>6. first = a
  <2>1. first \in own /\ \A k \in own : first <= k
    BY <1>4
  <2> HIDE DEF first
  <2>2. first <= a /\ a <= first /\ first \in Nat /\ a \in Nat
    BY <1>4, <2>1
  <2> QED
    BY <2>2
<1>7. last = b
  <2>1. last \in own /\ \A k \in own : k <= last
    BY <1>4
  <2> HIDE DEF last
  <2>2. last <= b /\ b <= last /\ last \in Nat /\ b \in Nat
    BY <1>4, <2>1
  <2> QED
    BY <2>2
<1>8. binding[n] \in Path
  BY <1>2, <1>5 DEF TypeOK
<1> QED
  BY <1>5, <1>6, <1>7, <1>8 DEF n

(***************************************************************************)
(* The places of the segments.                                             *)
(***************************************************************************)
LEMMA Places ==
    ASSUME TypeOK, ParserInv, NEW s \in Nat
    PROVE  /\ Len(segs) \in Nat /\ DOMAIN segs = 1 .. Len(segs)
           /\ PathWildcards \subseteq 1 .. Len(segs)
           /\ \A j \in 1 .. Len(segs) + 1 : Place(s, j) \in Nat /\ 1 <= Place(s, j)
           /\ Place(s, 1) = 1
           /\ \A j, k \in 1 .. Len(segs) + 1 : j < k => Place(s, j) < Place(s, k)
           /\ \A j, k \in 1 .. Len(segs) + 1 : j <= k => Place(s, j) <= Place(s, k)
<1>1. /\ Len(segs) \in Nat /\ DOMAIN segs = 1 .. Len(segs)
      /\ PathWildcards \subseteq 1 .. Len(segs)
  BY SegmentsTyped DEF PathWildcards
<1>2. ~Passed(1)
  BY <1>1 DEF Passed
<1>3. \A j, k \in 1 .. Len(segs) + 1 : j <= k /\ Passed(j) => Passed(k)
  BY <1>1 DEF Passed
<1> QED
  BY <1>1, <1>2, <1>3 DEF Place

(* How much of the path the segments from a to b take.                     *)
LEMMA PlaceAfter ==
    ASSUME TypeOK, ParserInv, NEW s \in Nat,
           NEW a \in 1 .. Len(segs), NEW b \in 1 .. Len(segs), a <= b
    PROVE  /\ Place(s, b + 1) = Place(s, a) + (b + 1 - a) + IF HasWildcard(a, b) THEN s ELSE 0
           /\ HasWildcard(a, b) => ~Passed(a) /\ Passed(b + 1)
<1>1. Len(segs) \in Nat /\ PathWildcards \subseteq 1 .. Len(segs)
  BY Places
<1>2. HasWildcard(a, b) => ~Passed(a)
  BY <1>1 DEF HasWildcard, Passed, ParserInv, OnePathWildcard
<1>3. Passed(b + 1) <=> Passed(a) \/ HasWildcard(a, b)
  BY <1>1 DEF HasWildcard, Passed
<1> QED
  BY <1>1, <1>2, <1>3 DEF Place

(* Values that fit leave room for the "**".                                *)
LEMMA RoomExists == TypeOK /\ ParserInv /\ BindingFits => HasRoom
<1> SUFFICES ASSUME TypeOK, ParserInv, BindingFits
             PROVE  \E s \in Nat : Room(s)
  BY DEF HasRoom
<1>1. Len(segs) \in Nat /\ PathWildcards \subseteq 1 .. Len(segs)
  BY Starts
<1>2. ASSUME NEW a \in 1 .. Len(segs), NEW b \in 1 .. Len(segs), a <= b,
             NameOf(a) # NoName, Owns(NameOf(a), a, b)
      PROVE  /\ Len(binding[NameOf(a)]) - (b + 1 - a) \in Nat
             /\ ~HasWildcard(a, b) => Len(binding[NameOf(a)]) = b + 1 - a
  <2>1. binding[NameOf(a)] \in Path /\ StandFor(a, b, binding[NameOf(a)])
    BY <1>2, ValueFits
  <2>2. Len(binding[NameOf(a)]) \in Nat
    BY <2>1 DEF Path
  <2> QED
    BY <1>1, <2>1, <2>2 DEF StandFor, HasWildcard
<1>3. CASE PathWildcards = {}
  <2>1. \A a, b : ~HasWildcard(a, b)
    BY <1>3 DEF HasWildcard
  <2>2. Room(0)
    BY <1>1, <1>2, <2>1 DEF Room
  <2> QED
    BY <2>2
<1>4. CASE PathWildcards # {}
  <2>1. PICK w \in PathWildcards : TRUE
    BY <1>4
  <2>2. NameOf(w) # NoName
    BY <1>1, <2>1, SegmentsTyped DEF ParserInv, NamelessAreLabels, PathWildcards
  <2>3. PICK c \in 1 .. Len(segs), d \in 1 .. Len(segs) :
            c <= w /\ w <= d /\ Owns(NameOf(w), c, d)
    BY <1>1, <2>1, <2>2, OwnedStretch
  <2>4. NameOf(c) = NameOf(w) /\ c <= d
    BY <1>1, <2>1, <2>3 DEF Owns
  <2> DEFINE s == Len(binding[NameOf(c)]) - (d + 1 - c)
  <2>5. s \in Nat
    BY <1>2, <2>2, <2>3, <2>4
  <2>6. ASSUME NEW a \in 1 .. Len(segs), NEW b \in 1 .. Len(segs), a <= b,
               NameOf(a) # NoName, Owns(NameOf(a), a, b)
        PROVE  Len(binding[NameOf(a)]) = b + 1 - a + IF HasWildcard(a, b) THEN s ELSE 0
    <3>1. CASE HasWildcard(a, b)
      <4>1. a <= w /\ w <= b
        BY <2>1, <3>1 DEF HasWildcard, ParserInv, OnePathWildcard
      <4>2. NameOf(w) = NameOf(a)
        BY <1>1, <2>1, <2>6, <4>1 DEF Owns
      <4>3. a = c /\ b = d
        BY <1>1, <2>3, <2>4, <2>6, <4>2, OwnsUnique
      <4>4. Len(binding[NameOf(a)]) \in Nat
        BY <2>6, ValueFits DEF Path
      <4>5. s = Len(binding[NameOf(a)]) - (b + 1 - a)
        BY <4>3
      <4>6. \A m \in Nat : m = b + 1 - a + (m - (b + 1 - a))
        BY <1>1
      <4> HIDE DEF s
      <4> QED
        BY <3>1, <4>4, <4>5, <4>6, Zenon
    <3>2. CASE ~HasWildcard(a, b)
      BY <1>2, <2>6, <3>2
    <3> QED
      BY <3>1, <3>2
  <2> HIDE DEF s
  <2>7. Room(s)
    BY <1>4, <2>5, <2>6 DEF Room
  <2> QED
    BY <2>5, <2>7
<1> QED
  BY <1>3, <1>4

(* What is laid stays laid when the next segments are added, if these are  *)
(* in their places.                                                        *)
LEMMA LaidExtends ==
    ASSUME TypeOK, ParserInv, NEW s \in Nat, NEW p \in Seq(Texts), NEW q \in Seq(Texts),
           NEW f \in 1 .. Len(segs), NEW e \in f + 1 .. Len(segs) + 1,
           Laid(s, p, f), Len(p \o q) = Place(s, e) - 1,
           \A j \in f .. e - 1 :
              NameOf(j) = NoName => (p \o q)[Place(s, j)] = segs[j].text,
           \A j \in f .. e - 1 : NameOf(j) # NoName =>
              \E a, b \in 1 .. e - 1 :
                 /\ a <= j /\ j <= b
                 /\ Owns(NameOf(j), a, b)
                 /\ SubSeq(p \o q, Place(s, a), Place(s, b + 1) - 1) = binding[NameOf(j)]
    PROVE  Laid(s, p \o q, e)
<1> DEFINE r == p \o q
<1>1. /\ Len(segs) \in Nat /\ Len(p) = Place(s, f) - 1
      /\ \A j \in 1 .. Len(segs) + 1 : Place(s, j) \in Nat /\ 1 <= Place(s, j)
      /\ \A j, k \in 1 .. Len(segs) + 1 : j < k => Place(s, j) < Place(s, k)
  BY Places DEF Laid
<1>2. /\ r \in Seq(Texts) /\ Len(p) \in Nat
      /\ \A m \in 1 .. Len(p) : r[m] = p[m]
      /\ Len(p) <= Len(r) /\ Len(r) \in Nat
  BY ConcatProperties
<1>3. ASSUME NEW m \in Nat, NEW n \in Nat, 1 <= m, n <= Len(p)
      PROVE  SubSeq(r, m, n) = SubSeq(p, m, n)
  <2> HIDE DEF r
  <2> QED
    BY <1>2, <1>3
<1> HIDE DEF r
<1>4. ASSUME NEW j \in 1 .. f - 1, NameOf(j) = NoName
      PROVE  r[Place(s, j)] = segs[j].text
  <2>1. Place(s, j) \in 1 .. Len(p)
    BY <1>1
  <2> QED
    BY <1>2, <1>4, <2>1 DEF Laid
<1>5. ASSUME NEW j \in 1 .. f - 1, NameOf(j) # NoName
      PROVE  \E a, b \in 1 .. e - 1 :
                 /\ a <= j /\ j <= b
                 /\ Owns(NameOf(j), a, b)
                 /\ SubSeq(r, Place(s, a), Place(s, b + 1) - 1) = binding[NameOf(j)]
  <2>1. PICK a \in 1 .. f - 1, b \in 1 .. f - 1 :
                 /\ a <= j /\ j <= b
                 /\ Owns(NameOf(j), a, b)
                 /\ SubSeq(p, Place(s, a), Place(s, b + 1) - 1) = binding[NameOf(j)]
    BY <1>5 DEF Laid
  <2>2. /\ Place(s, a) \in Nat /\ 1 <= Place(s, a)
        /\ Place(s, b + 1) - 1 \in Nat /\ Place(s, b + 1) - 1 <= Len(p)
    <3>1. a \in 1 .. Len(segs) + 1 /\ b + 1 \in 1 .. Len(segs) + 1 /\ f \in 1 .. Len(segs) + 1
          /\ (b + 1 < f \/ b + 1 = f)
      BY <1>1
    <3>2. Place(s, b + 1) <= Place(s, f)
      <4>1. b + 1 <= f
        BY <1>1
      <4>2. \A j1, k1 \in 1 .. Len(segs) + 1 : j1 <= k1 => Place(s, j1) <= Place(s, k1)
        BY Places
      <4> QED
        BY <3>1, <4>1, <4>2, Zenon
    <3>3. /\ Place(s, a) \in Nat /\ 1 <= Place(s, a)
          /\ Place(s, b + 1) \in Nat /\ 1 <= Place(s, b + 1) /\ Place(s, f) \in Nat
      BY <1>1, <3>1
    <3> QED
      BY <1>1, <3>2, <3>3
  <2>3. SubSeq(r, Place(s, a), Place(s, b + 1) - 1) = binding[NameOf(j)]
    BY <1>3, <2>1, <2>2
  <2>4. a \in 1 .. e - 1 /\ b \in 1 .. e - 1
    BY <1>1
  <2> QED
    BY <2>1, <2>3, <2>4
<1>6. \A j \in 1 .. e - 1 : j \in 1 .. f - 1 \/ j \in f .. e - 1
  BY <1>1
<1>7. Len(r) = Place(s, e) - 1
  BY DEF r
<1>8. \A j \in 1 .. e - 1 : NameOf(j) = NoName => r[Place(s, j)] = segs[j].text
  BY <1>4, <1>6 DEF r
<1>9. \A j \in 1 .. e - 1 : NameOf(j) # NoName =>
          \E a, b \in 1 .. e - 1 :
              /\ a <= j /\ j <= b
              /\ Owns(NameOf(j), a, b)
              /\ SubSeq(r, Place(s, a), Place(s, b + 1) - 1) = binding[NameOf(j)]
  <2>1. ASSUME NEW j \in f .. e - 1, NameOf(j) # NoName
        PROVE  \E a, b \in 1 .. e - 1 :
                 /\ a <= j /\ j <= b
                 /\ Owns(NameOf(j), a, b)
                 /\ SubSeq(r, Place(s, a), Place(s, b + 1) - 1) = binding[NameOf(j)]
    BY <2>1, Zenon DEF r
  <2> QED
    BY <1>5, <1>6, <2>1, Zenon
<1> QED
  BY <1>7, <1>8, <1>9, Zenon DEF Laid, r

(***************************************************************************)
(* Render.                                                                 *)
(***************************************************************************)
LEMMA SameBinding ==
    ASSUME segs' = segs, binding' = binding
    PROVE  /\ BindingFits' <=> BindingFits
           /\ NamesOf(segs)' = NamesOf(segs)
           /\ \A j : NameOf(j)' = NameOf(j)
           /\ \A s : Room(s)' <=> Room(s)
           /\ \A s, p, e : Laid(s, p, e)' <=> Laid(s, p, e)
<1>1. NamesOf(segs)' = NamesOf(segs) /\ PathWildcards' = PathWildcards
  BY DEF NamesOf, PathWildcards
<1>3. BindingFits' <=> BindingFits
  BY DEF BindingFits, StandFor, PathWildcards, NamesOf
<1>4. \A j : NameOf(j)' = NameOf(j)
  BY DEF NameOf
<1>5. \A n, a, b : Owns(n, a, b)' <=> Owns(n, a, b)
  BY <1>4 DEF Owns
<1>6. \A a, b : HasWildcard(a, b)' <=> HasWildcard(a, b)
  BY <1>1 DEF HasWildcard
<1>7. \A s, j : Place(s, j)' = Place(s, j)
  BY <1>1 DEF Place, Passed
<1>8. ASSUME NEW s PROVE Room(s)' <=> Room(s)
  BY <1>1, <1>4, <1>5, <1>6 DEF Room
<1>9. ASSUME NEW s, NEW p, NEW e PROVE Laid(s, p, e)' <=> Laid(s, p, e)
  BY <1>4, <1>5, <1>7 DEF Laid
<1> QED
  BY <1>1, <1>3, <1>4, <1>8, <1>9

(* Where Render stands among the segments.                                 *)
LEMMA UpToHere ==
    ASSUME Inv, Rendering, NEW s, NEW e \in i .. Len(segs) + 1, LaidUpTo(s, e)
    PROVE  IF Repeated THEN e \in i + 1 .. Len(segs) + 1 ELSE e = i /\ Laid(s, result, i)
<1>1. i \in 1 .. Len(segs) /\ Len(segs) \in Nat
  BY RenderFacts
<1>2. CASE e = i
  BY <1>1, <1>2 DEF LaidUpTo, Repeated, NameOf
<1>3. CASE e # i
  <2>1. i \in i .. e - 1 /\ e \in i + 1 .. Len(segs) + 1
    BY <1>1, <1>3
  <2>2. Repeated
    BY <2>1 DEF LaidUpTo, Repeated, NameOf
  <2> QED
    BY <2>1, <2>2
<1> QED
  BY <1>2, <1>3

LEMMA RenderStepInverse ==
    ASSUME Inv, InverseInv, Rendering, NEW r, NEW last, RenderStep(r, last),
           ASSUME NEW s \in Nat, RenderFirst, Room(s),
                  lastVariableName = IF i = 1 THEN NoName ELSE NameOf(i - 1),
                  NEW e \in i .. Len(segs) + 1, LaidUpTo(s, e)
           PROVE  /\ last = NameOf(i)
                  /\ \E f \in i + 1 .. Len(segs) + 1 :
                        /\ Laid(s, r, f)
                        /\ \A j \in i + 1 .. f - 1 : NameOf(j) = last /\ last # NoName
                        /\ f <= Len(segs) /\ last # NoName => NameOf(f) # last
    PROVE  InverseInv'
<1> SUFFICES ASSUME RenderFirst'
             PROVE  /\ (pc # "missing")'
                    /\ (\A n \in Names \ NamesOf(segs) : binding[n] = Absent)'
                    /\ (lastVariableName = IF i = 1 THEN NoName ELSE NameOf(i - 1))'
                    /\ \E s \in Nat :
                          /\ Room(s)'
                          /\ (\E f \in i .. Len(segs) + 1 : LaidUpTo(s, f))'
                    /\ pc' = "render"
  BY DEF InverseInv
<1>1. /\ pc = "render" /\ pc' = pc /\ i' = i + 1 /\ order' = order
      /\ binding' = binding /\ segs' = segs /\ lastVariableName' = last /\ result' = r
  BY DEF Rendering, RenderStep, template
<1>2. /\ i \in 1 .. Len(segs) /\ Len(segs) \in Nat
  BY RenderFacts
<1>3. /\ BindingFits' <=> BindingFits
      /\ NamesOf(segs)' = NamesOf(segs)
      /\ \A j : NameOf(j)' = NameOf(j)
      /\ \A s : Room(s)' <=> Room(s)
      /\ \A s, p, e : Laid(s, p, e)' <=> Laid(s, p, e)
  BY <1>1, SameBinding
<1>4. RenderFirst
  BY <1>1, <1>3 DEF RenderFirst, Called
<1>5. PICK s \in Nat : Room(s) /\ \E e \in i .. Len(segs) + 1 : LaidUpTo(s, e)
  BY <1>1, <1>4 DEF InverseInv
<1>6. PICK e \in i .. Len(segs) + 1 : LaidUpTo(s, e)
  BY <1>5
<1>7. /\ lastVariableName = IF i = 1 THEN NoName ELSE NameOf(i - 1)
      /\ \A n \in Names \ NamesOf(segs) : binding[n] = Absent
  BY <1>1, <1>4 DEF InverseInv
<1>8. last = NameOf(i)
  BY <1>4, <1>5, <1>6, <1>7
<1>9. PICK f \in i + 1 .. Len(segs) + 1 :
            /\ Laid(s, r, f)
            /\ \A j \in i + 1 .. f - 1 : NameOf(j) = last /\ last # NoName
            /\ f <= Len(segs) /\ last # NoName => NameOf(f) # last
  BY <1>4, <1>5, <1>6, <1>7
<1>10. Laid(s, result, f)'
  <2>1. Laid(s, r, f)'
    BY <1>3, <1>9
  <2> QED
    BY <1>1, <2>1
<1>11. LaidUpTo(s, f)' /\ f \in (i .. Len(segs) + 1)'
  BY <1>1, <1>3, <1>9, <1>10 DEF LaidUpTo
<1>12. (lastVariableName = IF i = 1 THEN NoName ELSE NameOf(i - 1))'
  <2>1. i' # 1 /\ i' - 1 = i
    BY <1>1, <1>2
  <2> QED
    BY <1>1, <1>3, <1>8, <2>1
<1> QED
  BY <1>1, <1>3, <1>5, <1>7, <1>11, <1>12

LEMMA RenderRepeatedInverse ==
    ASSUME Inv, InverseInv, RenderRepeated
    PROVE  InverseInv'
<1>1. Rendering /\ Repeated /\ RenderStep(result, lastVariableName)
  BY DEF RenderRepeated
<1>2. i \in 1 .. Len(segs) /\ Len(segs) \in Nat /\ lastVariableName = NameOf(i)
  BY <1>1, RenderFacts DEF Repeated, NameOf
<1>3. ASSUME NEW s \in Nat, RenderFirst, Room(s),
             lastVariableName = IF i = 1 THEN NoName ELSE NameOf(i - 1),
             NEW e \in i .. Len(segs) + 1, LaidUpTo(s, e)
      PROVE  /\ lastVariableName = NameOf(i)
             /\ \E f \in i + 1 .. Len(segs) + 1 :
                   /\ Laid(s, result, f)
                   /\ \A j \in i + 1 .. f - 1 :
                         NameOf(j) = lastVariableName /\ lastVariableName # NoName
                   /\ f <= Len(segs) /\ lastVariableName # NoName => NameOf(f) # lastVariableName
  <2>1. e \in i + 1 .. Len(segs) + 1
    BY <1>1, <1>3, UpToHere
  <2>2. \A j \in i + 1 .. e - 1 : j \in i .. e - 1
    BY <1>2
  <2> QED
    BY <1>2, <1>3, <2>1, <2>2 DEF LaidUpTo
<1> QED
  BY <1>1, <1>3, RenderStepInverse

LEMMA RenderLabelInverse ==
    ASSUME Inv, InverseInv, RenderLabel
    PROVE  InverseInv'
<1> DEFINE t == segs[i].text
           r == Append(result, t)
<1>1. Rendering /\ ~Repeated /\ NameOf(i) = NoName /\ RenderStep(r, NoName)
  BY DEF RenderLabel, NameOf
<1>2. /\ TypeOK /\ ParserInv
      /\ i \in 1 .. Len(segs) /\ Len(segs) \in Nat /\ DOMAIN segs = 1 .. Len(segs)
      /\ t \in Texts /\ result \in Seq(Texts)
  BY <1>1, RenderFacts DEF SegmentSet
<1>3. r = result \o <<t>> /\ <<t>> \in Seq(Texts)
  BY <1>2, AppendIsConcat
<1>4. ASSUME NEW s \in Nat, RenderFirst, Room(s),
             lastVariableName = IF i = 1 THEN NoName ELSE NameOf(i - 1),
             NEW e \in i .. Len(segs) + 1, LaidUpTo(s, e)
      PROVE  /\ NoName = NameOf(i)
             /\ \E f \in i + 1 .. Len(segs) + 1 :
                   /\ Laid(s, r, f)
                   /\ \A j \in i + 1 .. f - 1 : NameOf(j) = NoName /\ NoName # NoName
                   /\ f <= Len(segs) /\ NoName # NoName => NameOf(f) # NoName
  <2>1. Laid(s, result, i)
    BY <1>1, <1>4, UpToHere
  <2>2. Place(s, i + 1) = Place(s, i) + 1 /\ Place(s, i) \in Nat
    <3>1. segs[i].kind = "label"
      BY <1>1, <1>2 DEF ParserInv, NamelessAreLabels
    <3>2. ~HasWildcard(i, i)
      BY <1>2, <3>1 DEF HasWildcard, PathWildcards
    <3>3. Place(s, i + 1) = Place(s, i) + (i + 1 - i) + IF HasWildcard(i, i) THEN s ELSE 0
      <4>1. i <= i
        BY <1>2
      <4> QED
        BY <1>2, <4>1, PlaceAfter
    <3>4. Place(s, i) \in Nat
      <4>1. i \in 1 .. Len(segs) + 1
        BY <1>2
      <4>2. \A k \in 1 .. Len(segs) + 1 : Place(s, k) \in Nat
        BY <1>2, Places
      <4> QED
        BY <4>1, <4>2
    <3> QED
      BY <1>2, <3>2, <3>3, <3>4
  <2>3. /\ Len(result \o <<t>>) = Place(s, i + 1) - 1
        /\ (result \o <<t>>)[Place(s, i)] = t
    <3>1. Len(result) = Place(s, i) - 1
      BY <2>1 DEF Laid
    <3> HIDE DEF t
    <3>2. Len(result \o <<t>>) = Len(result) + 1 /\ (result \o <<t>>)[Len(result) + 1] = t
      BY <1>2
    <3>3. Len(result) + 1 = Place(s, i)
      BY <2>2, <3>1
    <3> QED
      BY <2>2, <3>2, <3>3
  <2>4. \A j \in i .. (i + 1) - 1 : j = i
    BY <1>2
  <2>5. i + 1 \in i + 1 .. Len(segs) + 1 /\ \A j \in i + 1 .. (i + 1) - 1 : FALSE
    BY <1>2
  <2>6. Laid(s, result \o <<t>>, i + 1)
    <3> HIDE DEF t
    <3>1. \A j \in i .. (i + 1) - 1 :
            NameOf(j) = NoName => (result \o <<t>>)[Place(s, j)] = segs[j].text
      BY <2>3, <2>4 DEF t
    <3> QED
      BY <1>1, <1>2, <1>3, <2>1, <2>3, <2>4, <2>5, <3>1, LaidExtends
  <2>7. Laid(s, r, i + 1)
    BY <1>3, <2>6
  <2> HIDE DEF r
  <2> QED
    BY <1>1, <2>5, <2>7
<1> QED
  BY <1>1, <1>4, RenderStepInverse

LEMMA RenderVariableInverse ==
    ASSUME Inv, InverseInv, RenderVariable
    PROVE  InverseInv'
<1> DEFINE n == NameOf(i)
           q == binding[n]
           r == result \o q
<1>1. Rendering /\ ~Repeated /\ n # NoName /\ RenderStep(r, n)
  BY DEF RenderVariable, NameOf
<1>2. /\ TypeOK /\ ParserInv
      /\ i \in 1 .. Len(segs) /\ Len(segs) \in Nat /\ DOMAIN segs = 1 .. Len(segs)
      /\ result \in Seq(Texts)
  BY <1>1, RenderFacts
<1>3. ASSUME NEW s \in Nat, RenderFirst, Room(s),
             lastVariableName = IF i = 1 THEN NoName ELSE NameOf(i - 1),
             NEW e \in i .. Len(segs) + 1, LaidUpTo(s, e)
      PROVE  /\ n = NameOf(i)
             /\ \E f \in i + 1 .. Len(segs) + 1 :
                   /\ Laid(s, r, f)
                   /\ \A j \in i + 1 .. f - 1 : NameOf(j) = n /\ n # NoName
                   /\ f <= Len(segs) /\ n # NoName => NameOf(f) # n
  <2>1. Laid(s, result, i)
    BY <1>1, <1>3, UpToHere
  <2>2. PICK a \in 1 .. Len(segs), b \in 1 .. Len(segs) : a <= i /\ i <= b /\ Owns(n, a, b)
    BY <1>1, <1>2, OwnedStretch
  (* The variable's first segment, or its value would be in already.       *)
  <2>3. a = i
    <3> SUFFICES ASSUME a < i PROVE FALSE
      BY <1>2, <2>2
    <3>1. i - 1 \in 1 .. Len(segs) /\ a <= i - 1 /\ i - 1 <= b /\ i # 1
      BY <1>2, <2>2
    <3>2. NameOf(i - 1) = n
      BY <2>2, <3>1 DEF Owns
    <3> QED
      BY <1>1, <1>3, <3>1, <3>2 DEF Repeated, NameOf
  <2>4. Owns(n, i, b) /\ i <= b
    BY <2>2, <2>3
  <2>5. q \in Path
    BY <1>1, <1>2, <1>3, <2>4, ValueFits DEF RenderFirst
  <2>6. q \in Seq(Texts) /\ Len(q) \in Nat /\ Len(result) \in Nat
    BY <1>2, <2>5 DEF Path
  <2>7. Len(q) = b + 1 - i + IF HasWildcard(i, b) THEN s ELSE 0
    BY <1>1, <1>2, <1>3, <2>4 DEF Room
  <2>8. /\ Place(s, b + 1) = Place(s, i) + Len(q)
        /\ Place(s, i) \in Nat /\ Place(s, b + 1) \in Nat
    <3>1. Place(s, b + 1) = Place(s, i) + (b + 1 - i) + IF HasWildcard(i, b) THEN s ELSE 0
      BY <1>2, <2>4, PlaceAfter
    <3>2. Place(s, i) \in Nat /\ Place(s, b + 1) \in Nat
      <4>1. i \in 1 .. Len(segs) + 1 /\ b + 1 \in 1 .. Len(segs) + 1
        BY <1>2
      <4> QED
        BY <1>2, <4>1, Places
    <3> DEFINE room == IF HasWildcard(i, b) THEN s ELSE 0
    <3>3. room \in Nat /\ b + 1 - i \in Nat
      BY <1>2, <2>2, <2>3
    <3> HIDE DEF q, room
    <3>4. Place(s, b + 1) = Place(s, i) + (b + 1 - i) + room /\ Len(q) = b + 1 - i + room
      BY <2>7, <3>1 DEF room
    <3>5. \A w, x, y \in Nat : w + x + y = w + (x + y)
      OBVIOUS
    <3> QED
      BY <3>2, <3>3, <3>4, <3>5
  <2>9. Len(result) = Place(s, i) - 1
    BY <2>1 DEF Laid
  <2>10. /\ Len(r) = Place(s, b + 1) - 1
         /\ SubSeq(r, Place(s, i), Place(s, b + 1) - 1) = q
    <3> HIDE DEF q
    <3>1. Len(r) = Len(result) + Len(q)
      BY <1>2, <2>6
    <3>2. SubSeq(r, Len(result) + 1, Len(result) + Len(q)) = q
      BY <1>2, <2>6
    <3>3. Len(result) + 1 = Place(s, i) /\ Len(result) + Len(q) = Place(s, b + 1) - 1
      BY <2>6, <2>8, <2>9
    <3> QED
      BY <3>1, <3>2, <3>3
  <2>11. \A j \in i .. (b + 1) - 1 : j \in 1 .. Len(segs) /\ i <= j /\ j <= b /\ NameOf(j) = n
    <3>1. \A j \in i .. (b + 1) - 1 : j \in 1 .. Len(segs) /\ i <= j /\ j <= b
      BY <1>2, <2>2
    <3> QED
      BY <2>4, <3>1 DEF Owns
  <2>12. b + 1 \in i + 1 .. Len(segs) + 1 /\ i \in 1 .. (b + 1) - 1 /\ b \in 1 .. (b + 1) - 1
    BY <1>2, <2>2
  <2>13. Laid(s, r, b + 1)
    <3>1. ASSUME NEW j \in i .. (b + 1) - 1
          PROVE  /\ NameOf(j) # NoName
                 /\ \E c, d \in 1 .. (b + 1) - 1 :
                        /\ c <= j /\ j <= d
                        /\ Owns(NameOf(j), c, d)
                        /\ SubSeq(r, Place(s, c), Place(s, d + 1) - 1) = binding[NameOf(j)]
      <4>1. NameOf(j) = n /\ i <= j /\ j <= b
        BY <2>11
      <4> HIDE DEF r, n
      <4> QED
        BY <1>1, <2>4, <2>10, <2>12, <4>1 DEF q
    <3> HIDE DEF q
    <3> QED
      BY <1>2, <2>1, <2>6, <2>10, <2>12, <3>1, LaidExtends
  <2>14. b + 1 <= Len(segs) => NameOf(b + 1) # n
    <3>1. b + 1 <= Len(segs) => b + 1 \in 1 .. Len(segs) /\ ~(b + 1 <= b)
      BY <1>2
    <3> QED
      BY <2>4, <3>1 DEF Owns
  <2>15. \A j \in i + 1 .. (b + 1) - 1 : NameOf(j) = n
    <3>1. \A j \in i + 1 .. (b + 1) - 1 : j \in i .. (b + 1) - 1
      BY <1>2
    <3> QED
      BY <2>11, <3>1
  <2> HIDE DEF r, n
  <2> USE <2>12
  <2>16. \E f \in i + 1 .. Len(segs) + 1 :
           /\ Laid(s, r, f)
           /\ \A j \in i + 1 .. f - 1 : NameOf(j) = n /\ n # NoName
           /\ f <= Len(segs) /\ n # NoName => NameOf(f) # n
    <3> WITNESS b + 1 \in i + 1 .. Len(segs) + 1
    <3> QED
      BY <1>1, <2>13, <2>14, <2>15
  <2> QED
    BY <2>16 DEF n
<1> QED
  BY <1>1, <1>3, RenderStepInverse

(* Render begins.                                                          *)
LEMMA CallRenderInverse ==
    ASSUME Inv, Inv', CallRender
    PROVE  InverseInv'
<1> SUFFICES ASSUME RenderFirst'
             PROVE  /\ (\A n \in Names \ NamesOf(segs) : binding[n] = Absent)'
                    /\ (lastVariableName = IF i = 1 THEN NoName ELSE NameOf(i - 1))'
                    /\ \E s \in Nat :
                          /\ Room(s)'
                          /\ (\E f \in i .. Len(segs) + 1 : LaidUpTo(s, f))'
                    /\ pc' = "render"
  BY DEF InverseInv
<1>1. PICK b \in [NamesOf(segs) -> Values \cup {Absent}] :
        StartRender([n \in Names |-> IF n \in NamesOf(segs) THEN b[n] ELSE Absent])
  BY DEF CallRender
<1>2. /\ pc' = "render" /\ i' = 1 /\ lastVariableName' = NoName /\ result' = <<>>
      /\ segs' = segs
      /\ binding' = [n \in Names |-> IF n \in NamesOf(segs) THEN b[n] ELSE Absent]
  BY <1>1 DEF StartRender, Goto, template
<1>3. (\A n \in Names \ NamesOf(segs) : binding[n] = Absent)'
  BY <1>2 DEF NamesOf
<1>4. Len(segs) \in Nat /\ PathWildcards \subseteq 1 .. Len(segs) /\ PathWildcards' = PathWildcards
  BY <1>2, Starts DEF Inv, PathWildcards
<1>5. PICK s \in Nat : Room(s)'
  <2>1. (TypeOK /\ ParserInv /\ BindingFits => HasRoom)'
    BY RoomExists, PTL
  <2>2. HasRoom'
    BY <2>1 DEF Inv, RenderFirst
  <2> QED
    BY <2>2 DEF HasRoom
<1>6. Place(s, 1)' = 1
  BY <1>4 DEF Place, Passed
<1>7. Laid(s, result, 1)'
  <2>1. Len(<<>>) = 1 - 1 /\ \A j \in 1 .. 1 - 1 : FALSE
    OBVIOUS
  <2> QED
    BY <1>2, <1>6, <2>1 DEF Laid
<1>8. LaidUpTo(s, 1)' /\ 1 \in (i .. Len(segs) + 1)'
  <2>1. \A j \in 1 .. 1 - 1 : FALSE
    OBVIOUS
  <2> QED
    BY <1>2, <1>4, <1>7, <2>1 DEF LaidUpTo
<1> QED
  BY <1>2, <1>3, <1>5, <1>8

(* A step after which the template and the values are as before.           *)
LEMMA StillFirst ==
    ASSUME InverseInv, RenderFirst', Called, segs' = segs, binding' = binding, order' = order
    PROVE  /\ RenderFirst
           /\ pc # "missing"
           /\ (\A n \in Names \ NamesOf(segs) : binding[n] = Absent)'
           /\ \E s \in Nat :
                 /\ Room(s)'
                 /\ pc = "render" => \E e \in i .. Len(segs) + 1 : LaidUpTo(s, e)
                 /\ pc = "rendered" => \A p : p = result => Laid(s, p, Len(segs) + 1)'
                 /\ pc \in {"match", "matched", "unmatched"} =>
                       \A p : p = path => Laid(s, p, Len(segs) + 1)'
                 /\ \A p, e : Laid(s, p, e) => Laid(s, p, e)'
<1>1. /\ BindingFits' <=> BindingFits
      /\ NamesOf(segs)' = NamesOf(segs)
      /\ \A s : Room(s)' <=> Room(s)
      /\ \A s, p, e : Laid(s, p, e)' <=> Laid(s, p, e)
  BY SameBinding
<1>2. RenderFirst
  BY <1>1 DEF RenderFirst
<1> QED
  BY <1>1, <1>2 DEF InverseInv

(* No value is missing, since each one fits.                               *)
LEMMA MissingInverse ==
    ASSUME Inv, InverseInv, Missing
    PROVE  InverseInv'
<1> SUFFICES ASSUME RenderFirst' PROVE FALSE
  BY DEF InverseInv
<1>1. /\ Rendering /\ segs[i].name # NoName /\ binding[segs[i].name] = Absent
      /\ segs' = segs /\ binding' = binding /\ order' = order
  BY DEF Missing, template, rendering
<1>2. Called
  BY <1>1 DEF Rendering, Called
<1>3. BindingFits
  BY <1>1, <1>2, StillFirst DEF RenderFirst
<1>4. segs[i].name \in NamesOf(segs)
  BY <1>1, RenderFacts DEF NamesOf
<1> QED
  BY <1>1, <1>3, <1>4 DEF BindingFits

LEMMA RenderedInverse ==
    ASSUME Inv, InverseInv, Rendered
    PROVE  InverseInv'
<1> SUFFICES ASSUME RenderFirst' PROVE InverseInv'
  BY DEF InverseInv
<1>1. /\ pc = "render" /\ i = Len(segs) + 1 /\ pc' = "rendered"
      /\ segs' = segs /\ binding' = binding /\ order' = order /\ result' = result
  BY DEF Rendered, Goto, template, rendering
<1>2. Len(segs) \in Nat
  BY Starts DEF Inv
<1>3. Called
  BY <1>1 DEF Called
<1>4. (\A n \in Names \ NamesOf(segs) : binding[n] = Absent)'
  BY <1>1, <1>3, StillFirst
<1>5. PICK s \in Nat : /\ Room(s)'
                       /\ \E e \in i .. Len(segs) + 1 : LaidUpTo(s, e)
                       /\ \A p, e : Laid(s, p, e) => Laid(s, p, e)'
  BY <1>1, <1>3, StillFirst
<1>6. PICK e \in i .. Len(segs) + 1 : LaidUpTo(s, e)
  BY <1>5
<1>7. e = Len(segs) + 1
  BY <1>1, <1>2
<1>8. Laid(s, result, Len(segs) + 1)
  BY <1>6, <1>7 DEF LaidUpTo
<1>9. \A p : p = result => Laid(s, p, Len(segs) + 1)'
  BY <1>1, <1>5, <1>8
<1>10. Laid(s, result, Len(segs) + 1)'
  BY <1>1, <1>9
<1> QED
  BY <1>1, <1>4, <1>5, <1>10 DEF InverseInv

(***************************************************************************)
(* Match.                                                                  *)
(***************************************************************************)
LEMMA MatchRenderedInverse ==
    ASSUME Inv, InverseInv, MatchRendered
    PROVE  InverseInv'
<1> SUFFICES ASSUME RenderFirst' PROVE InverseInv'
  BY DEF InverseInv
<1>1. /\ pc = "rendered" /\ pc' = "match" /\ path' = result
      /\ segs' = segs /\ binding' = binding /\ order' = order
  BY DEF MatchRendered, StartMatch, Goto, template, rendering
<1>2. Called
  BY <1>1 DEF Called
<1>3. (\A n \in Names \ NamesOf(segs) : binding[n] = Absent)'
  BY <1>1, <1>2, StillFirst
<1>4. PICK s \in Nat : Room(s)' /\ \A p : p = result => Laid(s, p, Len(segs) + 1)'
  BY <1>1, <1>2, StillFirst
<1>5. Laid(s, path, Len(segs) + 1)'
  BY <1>1, <1>4
<1> QED
  BY <1>1, <1>3, <1>4, <1>5 DEF InverseInv

(* Match leaves the path as Render made it.                                *)
LEMMA MatchingInverse ==
    ASSUME Inv, InverseInv, MatchSegment \/ Mismatch \/ Matched
    PROVE  InverseInv'
<1> SUFFICES ASSUME RenderFirst' PROVE InverseInv'
  BY DEF InverseInv
<1>1. /\ pc = "match" /\ pc' \in {"match", "matched", "unmatched"} /\ path' = path
      /\ segs' = segs /\ binding' = binding /\ order' = order
  BY DEF MatchSegment, Mismatch, Matched, Goto, template, rendering, matching
<1>2. Called
  BY <1>1 DEF Called
<1>3. (\A n \in Names \ NamesOf(segs) : binding[n] = Absent)'
  BY <1>1, <1>2, StillFirst
<1>4. PICK s \in Nat : Room(s)' /\ \A p : p = path => Laid(s, p, Len(segs) + 1)'
  BY <1>1, <1>2, StillFirst
<1>5. Laid(s, path, Len(segs) + 1)'
  BY <1>1, <1>4
<1> QED
  BY <1>1, <1>3, <1>4, <1>5 DEF InverseInv

LEMMA UnchangedInverse ==
    ASSUME InverseInv, UNCHANGED vars
    PROVE  InverseInv'
<1>1. /\ pc' = pc /\ segs' = segs /\ order' = order /\ path' = path /\ i' = i
      /\ binding' = binding /\ lastVariableName' = lastVariableName /\ result' = result
  BY DEF vars, matching, rendering
<1>2. /\ BindingFits' <=> BindingFits
      /\ NamesOf(segs)' = NamesOf(segs)
      /\ \A j : NameOf(j)' = NameOf(j)
      /\ \A s : Room(s)' <=> Room(s)
      /\ \A s, p, e : Laid(s, p, e)' <=> Laid(s, p, e)
  BY <1>1, SameBinding
<1> SUFFICES ASSUME RenderFirst' PROVE InverseInv'
  BY DEF InverseInv
<1>3. RenderFirst
  BY <1>1, <1>2 DEF RenderFirst, Called
<1>4. PICK s \in Nat :
        /\ Room(s)
        /\ pc = "render" => \E e \in i .. Len(segs) + 1 : LaidUpTo(s, e)
        /\ pc = "rendered" => Laid(s, result, Len(segs) + 1)
        /\ pc \in {"match", "matched", "unmatched"} => Laid(s, path, Len(segs) + 1)
  BY <1>3 DEF InverseInv
<1>5. \A e : Laid(s, result, e)' <=> Laid(s, result, e)
  <2>1. \A p, e : p = result => (Laid(s, p, e)' <=> Laid(s, p, e))
    BY <1>2
  <2>2. \A p, e : p = result' => (Laid(s, p, e)' <=> Laid(s, p, e))
    BY <1>2
  <2> QED
    BY <1>1, <2>1, <2>2
<1>6. Laid(s, path, Len(segs) + 1)' <=> Laid(s, path, Len(segs) + 1)
  <2>1. \A p : p = path => (Laid(s, p, Len(segs) + 1)' <=> Laid(s, p, Len(segs) + 1))
    BY <1>1, <1>2
  <2> QED
    BY <1>1, <2>1
<1>7. \A e : LaidUpTo(s, e)' <=> LaidUpTo(s, e)
  BY <1>1, <1>2, <1>5 DEF LaidUpTo
<1>8. (pc = "rendered" => Laid(s, result, Len(segs) + 1))'
  BY <1>1, <1>4, <1>5
<1>9. (lastVariableName = IF i = 1 THEN NoName ELSE NameOf(i - 1))'
        <=> lastVariableName = IF i = 1 THEN NoName ELSE NameOf(i - 1)
  BY <1>1, <1>2
<1> QED
  BY <1>1, <1>2, <1>3, <1>4, <1>6, <1>7, <1>8, <1>9 DEF InverseInv

(* Where in its variable's value a segment finds its text.                 *)
LEMMA PartOfValue ==
    ASSUME TypeOK, ParserInv, BindingFits, NEW s \in Nat, Room(s),
           NEW a \in 1 .. Len(segs), NEW b \in 1 .. Len(segs), NEW j \in a .. b,
           NameOf(a) # NoName, Owns(NameOf(a), a, b)
    PROVE  LET v == binding[NameOf(a)]
               k == Place(s, j) + 1 - Place(s, a)
           IN  /\ k \in 1 .. Len(v)
               /\ segs[j].kind = "label" => v[k] = segs[j].text
<1> DEFINE v == binding[NameOf(a)]
           k == Place(s, j) + 1 - Place(s, a)
           At == IF \E w \in PathWildcards : a <= w /\ w < j
                 THEN j + 1 - a + (Len(v) - (b + 1 - a)) ELSE j + 1 - a
<1>1. /\ Len(segs) \in Nat /\ PathWildcards \subseteq 1 .. Len(segs) /\ a <= b
      /\ j \in 1 .. Len(segs) /\ a <= j /\ j <= b
  BY Places
<1>2. /\ segs[j].kind = "label" => v[At] = segs[j].text
      /\ v \in Path
  BY <1>1, ValueFits DEF StandFor
<1>3. Len(v) = b + 1 - a + IF HasWildcard(a, b) THEN s ELSE 0
  BY <1>1 DEF Room
<1>4. /\ Place(s, b + 1) = Place(s, a) + (b + 1 - a) + IF HasWildcard(a, b) THEN s ELSE 0
      /\ HasWildcard(a, b) => ~Passed(a)
  BY <1>1, PlaceAfter
<1> HIDE DEF v
<1>5. /\ Place(s, a) \in Nat /\ Place(s, j) \in Nat /\ Place(s, b + 1) \in Nat
      /\ Place(s, a) <= Place(s, j) /\ Place(s, j) < Place(s, b + 1)
  <2>1. a \in 1 .. Len(segs) + 1 /\ j \in 1 .. Len(segs) + 1 /\ b + 1 \in 1 .. Len(segs) + 1
        /\ j < b + 1
    BY <1>1
  <2>2. /\ \A k1 \in 1 .. Len(segs) + 1 : Place(s, k1) \in Nat
        /\ \A j1, k1 \in 1 .. Len(segs) + 1 : j1 < k1 => Place(s, j1) < Place(s, k1)
        /\ \A j1, k1 \in 1 .. Len(segs) + 1 : j1 <= k1 => Place(s, j1) <= Place(s, k1)
    BY Places
  <2>3. Place(s, a) \in Nat /\ Place(s, j) \in Nat /\ Place(s, b + 1) \in Nat
    BY <2>1, <2>2, Zenon
  <2>4. Place(s, a) <= Place(s, j)
    BY <1>1, <2>1, <2>2, Zenon
  <2>5. Place(s, j) < Place(s, b + 1)
    BY <2>1, <2>2, Zenon
  <2> QED
    BY <2>3, <2>4, <2>5
<1>6. k \in 1 .. Len(v)
  <2> DEFINE room == IF HasWildcard(a, b) THEN s ELSE 0
  <2>1. room \in Nat /\ b + 1 - a \in Nat /\ Place(s, a) \in Nat
    BY <1>1, <1>5
  <2> HIDE DEF room
  <2>2. Len(v) = b + 1 - a + room /\ Place(s, b + 1) = Place(s, a) + (b + 1 - a) + room
    BY <1>3, <1>4 DEF room
  <2>3. Len(v) \in Nat /\ Place(s, b + 1) = Place(s, a) + Len(v)
    <3>1. \A x, y, z \in Nat : x + y + z = x + (y + z) /\ y + z \in Nat
      OBVIOUS
    <3> QED
      BY <2>1, <2>2, <3>1
  <2> QED
    BY <1>5, <2>3
<1>7. At = k
  <2>1. CASE \E w \in PathWildcards : a <= w /\ w < j
    <3>1. HasWildcard(a, b) /\ Passed(j)
      BY <1>1, <2>1 DEF HasWildcard, Passed
    <3>2. ~Passed(a)
      BY <1>4, <3>1
    <3> QED
      BY <1>1, <1>3, <2>1, <3>1, <3>2 DEF Place
  <2>2. CASE ~\E w \in PathWildcards : a <= w /\ w < j
    <3>1. Passed(j) <=> Passed(a)
      BY <1>1, <2>2 DEF Passed
    <3> QED
      BY <1>1, <2>2, <3>1 DEF Place
  <2> QED
    BY <2>1, <2>2
<1> HIDE DEF At, k
<1>8. k \in 1 .. Len(v) /\ (segs[j].kind = "label" => v[k] = segs[j].text)
  BY <1>2, <1>6, <1>7
<1> QED
  BY <1>8 DEF v, k

(* Match starts each segment where Render put it.                          *)
LEMMA PlacesAreStarts ==
    ASSUME TypeOK, ParserInv, NEW s \in Nat, Room(s), Len(path) = Place(s, Len(segs) + 1) - 1
    PROVE  Surplus = s /\ \A j : Start(j) = Place(s, j)
<1>1. Len(segs) \in Nat /\ PathWildcards \subseteq 1 .. Len(segs)
  BY Places
<1>2. Surplus = s
  <2>1. CASE PathWildcards = {}
    BY <1>1, <2>1 DEF Surplus, Place, Passed, Room
  <2>2. CASE PathWildcards # {}
    <3>1. \A w \in PathWildcards : w < Len(segs) + 1
      BY <1>1
    <3>2. Passed(Len(segs) + 1)
      BY <2>2, <3>1 DEF Passed
    <3> QED
      BY <1>1, <3>2 DEF Surplus, Place
  <2> QED
    BY <2>1, <2>2
<1> QED
  BY <1>2 DEF Start, Place

(* The template stands for the path that Render made.                      *)
LEMMA RenderedStands ==
    ASSUME TypeOK, ParserInv, BindingFits, NEW s \in Nat, Room(s), Laid(s, path, Len(segs) + 1)
    PROVE  StandFor(1, Len(segs), path)
<1>1. /\ Len(segs) \in Nat /\ path \in Seq(Texts)
      /\ Surplus = s /\ \A j : Start(j) = Place(s, j)
  BY Places, PlacesAreStarts DEF Laid, TypeOK
<1>2. Surplus >= 0 /\ (Surplus = 0 \/ PathWildcards # {})
  BY <1>1 DEF Room
<1>3. ASSUME NEW j \in 1 .. Len(segs), segs[j].kind = "label"
      PROVE  path[Place(s, j)] = segs[j].text
  <2>1. j \in 1 .. (Len(segs) + 1) - 1
    BY <1>1
  <2>2. CASE NameOf(j) = NoName
    BY <2>1, <2>2 DEF Laid
  <2>3. CASE NameOf(j) # NoName
    <3> DEFINE v == binding[NameOf(j)]
    <3>1. PICK a \in 1 .. (Len(segs) + 1) - 1, b \in 1 .. (Len(segs) + 1) - 1 :
              /\ a <= j /\ j <= b
              /\ Owns(NameOf(j), a, b)
              /\ SubSeq(path, Place(s, a), Place(s, b + 1) - 1) = v
      BY <2>1, <2>3 DEF Laid
    <3> DEFINE k == Place(s, j) + 1 - Place(s, a)
    <3>2. a \in 1 .. Len(segs) /\ b \in 1 .. Len(segs) /\ j \in a .. b /\ NameOf(a) = NameOf(j)
      BY <1>1, <3>1 DEF Owns
    <3>3. k \in 1 .. Len(v) /\ v[k] = segs[j].text
      BY <1>3, <2>3, <3>1, <3>2, PartOfValue
    <3>4. /\ Place(s, a) \in Nat /\ 1 <= Place(s, a) /\ Place(s, j) \in Nat
          /\ Place(s, b + 1) - 1 \in Nat /\ Place(s, b + 1) - 1 <= Len(path)
      <4>1. /\ a \in 1 .. Len(segs) + 1 /\ j \in 1 .. Len(segs) + 1
            /\ b + 1 \in 1 .. Len(segs) + 1 /\ Len(segs) + 1 \in 1 .. Len(segs) + 1
            /\ b + 1 <= Len(segs) + 1
        BY <1>1, <3>2
      <4>2. /\ Place(s, a) \in Nat /\ 1 <= Place(s, a) /\ Place(s, j) \in Nat
            /\ Place(s, b + 1) \in Nat /\ 1 <= Place(s, b + 1)
            /\ Place(s, b + 1) <= Place(s, Len(segs) + 1) /\ Place(s, Len(segs) + 1) \in Nat
        BY <4>1, Places
      <4>3. Len(path) = Place(s, Len(segs) + 1) - 1
        BY DEF Laid
      <4> QED
        BY <4>2, <4>3
    <3> HIDE DEF v
    <3>5. v[k] = path[Place(s, a) + k - 1]
      <4>1. /\ SubSeq(path, Place(s, a), Place(s, b + 1) - 1) = v
            /\ k \in 1 .. Len(v) /\ path \in Seq(Texts)
            /\ Place(s, a) \in Nat /\ 1 <= Place(s, a)
            /\ Place(s, b + 1) - 1 \in Nat /\ Place(s, b + 1) - 1 <= Len(path)
        BY <1>1, <3>1, <3>3, <3>4
      <4> HIDE DEF k
      <4>2. \A m, n \in Nat : 1 <= m /\ n <= Len(path) =>
               \A x \in 1 .. Len(SubSeq(path, m, n)) : SubSeq(path, m, n)[x] = path[m + x - 1]
        BY <4>1
      <4> QED
        BY <4>1, <4>2
    <3>6. Place(s, a) + k - 1 = Place(s, j)
      BY <3>4
    <3> QED
      BY <3>3, <3>5, <3>6
  <2> QED
    BY <2>2, <2>3
<1> QED
  BY <1>1, <1>2, <1>3, StandForPath

(* Match joins a variable's value again from the parts it was laid in.     *)
LEMMA SameValues ==
    ASSUME TypeOK, ParserInv, NEW s \in Nat, Room(s), Laid(s, path, Len(segs) + 1),
           Valued(values, Len(segs)), \A n \in Names \ NamesOf(segs) : binding[n] = Absent
    PROVE  values = binding
<1>1. /\ Len(segs) \in Nat /\ DOMAIN segs = 1 .. Len(segs)
      /\ \A j : Start(j) = Place(s, j)
  BY Places, PlacesAreStarts DEF Laid
<1>2. ASSUME NEW j \in 1 .. Len(segs), NameOf(j) # NoName
      PROVE  values[NameOf(j)] = binding[NameOf(j)]
  <2>1. PICK a \in 1 .. Len(segs), b \in 1 .. Len(segs) :
            /\ a <= j /\ j <= b
            /\ \A k \in 1 .. Len(segs) : NameOf(k) = NameOf(j) <=> a <= k /\ k <= b
            /\ values[NameOf(j)] = Stretch(a, b)
    BY <1>2 DEF Valued
  <2>2. j \in 1 .. (Len(segs) + 1) - 1
    BY <1>1
  <2>3. PICK c \in 1 .. (Len(segs) + 1) - 1, d \in 1 .. (Len(segs) + 1) - 1 :
            /\ c <= j /\ j <= d
            /\ Owns(NameOf(j), c, d)
            /\ SubSeq(path, Place(s, c), Place(s, d + 1) - 1) = binding[NameOf(j)]
    BY <1>2, <2>2 DEF Laid
  <2>4. /\ Owns(NameOf(j), a, b) /\ a <= b /\ c <= d
        /\ c \in 1 .. Len(segs) /\ d \in 1 .. Len(segs)
    BY <1>1, <2>1, <2>3 DEF Owns
  <2>5. a = c /\ b = d
    BY <1>1, <2>3, <2>4, OwnsUnique
  <2>6. Stretch(a, b) = SubSeq(path, Place(s, a), Place(s, b + 1) - 1)
    BY <1>1, Zenon DEF Stretch
  <2> QED
    BY <2>1, <2>3, <2>5, <2>6, Zenon
<1>3. ASSUME NEW n \in Names
      PROVE  values[n] = binding[n]
  <2>1. CASE n \in NamesOf(segs)
    <3>1. PICK j \in 1 .. Len(segs) : NameOf(j) = n /\ n # NoName
      BY <1>1, <2>1 DEF NamesOf, NameOf
    <3> QED
      BY <1>2, <3>1
  <2>2. CASE n \notin NamesOf(segs)
    <3>1. n # NoName
      BY TextAssumption, UnnamedAssumption DEF Names
    <3>2. \A j \in 1 .. Len(segs) : NameOf(j) # n
      BY <1>1, <2>2, <3>1 DEF NamesOf, NameOf
    <3> QED
      BY <2>2, <3>2 DEF Valued
  <2> QED
    BY <2>1, <2>2
<1>4. values \in [Names -> Path \cup {Absent}] /\ binding \in [Names -> Path \cup {Absent}]
  BY DEF TypeOK
<1> QED
  BY <1>3, <1>4
-----------------------------------------------------------------------------
(***************************************************************************)
(* The theorems.                                                           *)
(***************************************************************************)
LEMMA NextInverse == Inv /\ Inv' /\ InverseInv /\ [Next]_vars => InverseInv'
<1> SUFFICES ASSUME Inv, Inv', InverseInv, [Next]_vars PROVE InverseInv'
  OBVIOUS
<1>1. CASE Parse
  <2>1. pc' \notin {"match", "matched", "unmatched", "render", "rendered", "missing"}
    BY <1>1 DEF Parse, InitialSlash, NoInitialSlash, Star, Wildcard, PathWildcard,
       MultipleWildcards, Label, EmptyLiteral, OpenVariable, RecursiveBinding, VariableName,
       BadName, Bind, BareVariable, Slash, CloseVariable, ExpectedBrace, Parsed, Reject, Goto
  <2> QED
    BY <2>1 DEF InverseInv, RenderFirst, Called
<1>2. CASE CallMatch \/ RenderMatched
  <2>1. order' # "render"
    BY <1>2 DEF CallMatch, RenderMatched
  <2> QED
    BY <2>1 DEF InverseInv, RenderFirst
<1>3. CASE CallRender \/ RenderRepeated \/ RenderLabel \/ RenderVariable \/ Missing \/ Rendered
  BY <1>3, CallRenderInverse, RenderRepeatedInverse, RenderLabelInverse,
     RenderVariableInverse, MissingInverse, RenderedInverse
<1>4. CASE MatchRendered \/ MatchSegment \/ Mismatch \/ Matched
  BY <1>4, MatchRenderedInverse, MatchingInverse
<1>5. CASE UNCHANGED vars
  BY <1>5, UnchangedInverse
<1> QED
  BY <1>1, <1>2, <1>3, <1>4, <1>5 DEF Next, Use

(* What Render has made so far holds every label and every value where     *)
(* Match will look for it.                                                 *)
THEOREM InverseInvariant == Spec => []InverseInv
<1>1. Init => InverseInv
  BY DEF Init, InverseInv, RenderFirst
<1>2. Inv /\ Inv' /\ InverseInv /\ [Next]_vars => InverseInv'
  BY NextInverse
<1> QED
  BY <1>1, <1>2, Invariant, PTL DEF Spec

(* Match (path_template.go 160-184) accepts every path that Render         *)
(* (path_template.go 186-207) made of values that fit their variables, and *)
(* gives back exactly these values.                                        *)
THEOREM MatchUndoesRender == Spec => []MatchInvertsRender
<1>1. Inv /\ InverseInv => MatchInvertsRender
  <2> SUFFICES ASSUME Inv, InverseInv, order = "render", pc \in {"matched", "unmatched"},
                      BindingFits
               PROVE  pc = "matched" /\ values = binding
    BY DEF MatchInvertsRender
  <2>1. TypeOK /\ ParserInv /\ RenderFirst
    BY DEF Inv, RenderFirst, Called
  <2>2. PICK s \in Nat : Room(s) /\ Laid(s, path, Len(segs) + 1)
    BY <2>1 DEF InverseInv
  <2>3. pc # "unmatched"
    BY <2>1, <2>2, RenderedStands DEF Inv, MatchInv
  <2>4. Valued(values, Len(segs)) /\ \A n \in Names \ NamesOf(segs) : binding[n] = Absent
    BY <2>1, <2>3 DEF Inv, MatchInv, InverseInv
  <2> QED
    BY <2>1, <2>2, <2>3, <2>4, SameValues
<1> QED
  BY <1>1, Invariant, InverseInvariant, PTL
=============================================================================
