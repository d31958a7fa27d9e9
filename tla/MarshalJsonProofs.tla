------------------------- MODULE MarshalJsonProofs -------------------------
(***************************************************************************)
(* Proofs that MarshalJSON sends what the two lists select, for any schema *)
(* and any values.  The invariant compares each member that the loop left  *)
(* behind with the member its field should have.                           *)
(***************************************************************************)
EXTENDS MarshalJson, TLAPS

Position == DOMAIN schema

(* The member of field j once schemaToMap has passed it.                   *)
Wanted(j) ==
    IF schema[j].tag \notin {"omitempty", "text"} THEN Absent
    ELSE IF IsNull(j) THEN Null
    ELSE IF \/ IsEmpty(j) /\ ~IsForced(j)
            \/ schema[j].kind \in Nillable /\ input.value[j].is = "nil"
         THEN Absent
    ELSE IF NullKeysOf(j) # {}
         THEN [form |-> "value", is |-> "set",
               keys |-> input.value[j].keys \cup NullKeysOf(j), nulls |-> NullKeysOf(j)]
    ELSE IF schema[j].kind \in Maps \cup {"slice"} /\ input.value[j].is = "nil"
         THEN EmptyMember
    ELSE Encoded(schema[j], input.value[j])

(* The lists do not contradict the value of field j.                       *)
Agreed(j) ==
    /\ IsNull(j) => IsEmpty(j)
    /\ schema[j].kind = "otherMap" /\ ~IsEmpty(j) => NullKeysOf(j) = {}

Handled(j) ==
    /\ m[j] = Wanted(j)
    /\ schema[j].tag # "bare"
    /\ j \in Proper => Agreed(j)

(* Why a call may have ended as it did.                                    *)
Outcome ==
    \/ /\ result = "object"
       /\ Encodable(m)
       /\ \/ ListsEmpty(input) /\ m = Plain(input)
          \/ ~ListsEmpty(input) /\ \A j \in Position : Handled(j)
    \/ result = "badTag" /\ \E j \in Position : schema[j].tag = "bare"
    \/ result \in {"nonEmptyNull", "keysNotStrings"} /\ \E j \in Proper : ~Agreed(j)
    \/ /\ result = "badValue"
       /\ \E j \in Position : schema[j].tag # "ignored" /\ input.value[j].is = "invalid"

Progress ==
    /\ pc = "start" => i = 1 /\ result = "none" /\ \A j \in Position : m[j] = Absent
    /\ pc = "field" => /\ ~ListsEmpty(input)
                       /\ result = "none"
                       /\ \A j \in Position : IF j < i THEN Handled(j) ELSE m[j] = Absent
    /\ pc = "done" => Outcome

Inv == TypeOK /\ Progress

(* What the kind of a field says of its value.                             *)
LEMMA ValueFacts ==
    ASSUME WellTyped(input), NEW j \in Position
    PROVE  /\ schema[j] \in Field
           /\ input.value[j] \in Value
           /\ schema[j].kind = "scalar" => input.value[j].is \in {"empty", "set"}
           /\ schema[j].kind \in Maps => input.value[j].is \in {"nil", "empty", "set"}
           /\ input.value[j].is = "nil" => schema[j].kind \in Maps \cup Nillable \cup {"slice"}
           /\ schema[j].tag = "text" => schema[j].kind = "scalar"
<1>1. input.value[j] \in ValuesOf(schema[j])
  BY DEF WellTyped, Position, schema
<1>2. schema[j] \in Field
  BY DEF WellTyped, Position, schema
<1>3. schema[j].tag = "text" => schema[j].kind = "scalar"
  BY DEF WellTyped, Position, schema
<1> QED
  BY <1>1, <1>2, <1>3 DEF ValuesOf, Field, Kinds, Maps, Nillable

LEMMA Positions ==
    ASSUME WellTyped(input)
    PROVE  Len(schema) \in Nat /\ Position = 1 .. Len(schema)
  BY DEF WellTyped, Position, schema

(* Members are typed.                                                      *)
LEMMA EncodedTyped ==
    ASSUME NEW g \in Field, NEW w \in Value
    PROVE  /\ Encoded(g, w) \in Member
           /\ w.is # "nil" => Encoded(g, w).is = w.is
  BY DEF Encoded, Value, Member, Null

LEMMA WantedTyped ==
    ASSUME WellTyped(input), NEW j \in Position
    PROVE  Wanted(j) \in Member \cup {Absent}
<1>1. schema[j] \in Field /\ input.value[j] \in Value
  BY ValueFacts
<1>2. Encoded(schema[j], input.value[j]) \in Member
  BY <1>1, EncodedTyped
<1>3. NullKeysOf(j) \in SUBSET Keys /\ input.value[j].keys \in SUBSET Keys
  BY <1>1 DEF NullKeysOf, Value
<1>4. Null \in Member /\ EmptyMember \in Member
  BY DEF Null, EmptyMember, Member
<1>5. [form |-> "value", is |-> "set",
       keys |-> input.value[j].keys \cup NullKeysOf(j), nulls |-> NullKeysOf(j)] \in Member
  BY <1>3 DEF Member
<1> QED
  BY <1>2, <1>4, <1>5 DEF Wanted

LEMMA PlainTyped ==
    ASSUME WellTyped(input)
    PROVE  Plain(input) \in [DOMAIN schema -> Member \cup {Absent}]
<1>1. ASSUME NEW j \in DOMAIN schema
      PROVE  Encoded(input.schema[j], input.value[j]) \in Member
  BY <1>1, ValueFacts, EncodedTyped DEF schema, Position
<1> QED
  BY <1>1 DEF Plain, schema

(* A turn of the loop that gives field p the member it should have.        *)
LEMMA StepForward ==
    ASSUME Inv, Looking, NextField, NEW p, p = i,
           m' = [m EXCEPT ![p] = Wanted(p)],
           schema[p].tag # "bare", p \in Proper => Agreed(p)
    PROVE  Inv'
<1>1. WellTyped(input) /\ schema' = schema /\ Position' = Position
  BY DEF Inv, TypeOK, NextField, schema, Position
<1>2. Len(schema) \in Nat /\ p \in Position /\ Position = 1 .. Len(schema)
  BY <1>1, Positions DEF Inv, TypeOK, Looking
<1>3. TypeOK'
  <2>1. Wanted(p) \in Member \cup {Absent}
    BY <1>1, <1>2, WantedTyped
  <2>2. i' \in 1 .. Len(schema) + 1
    BY <1>2 DEF NextField
  <2>3. m' \in [Position -> Member \cup {Absent}]
    BY <2>1, <1>2 DEF Inv, TypeOK, Position
  <2> QED
    BY <1>1, <2>2, <2>3 DEF Inv, TypeOK, NextField, WellTyped, Position
<1>4. ASSUME NEW j \in Position
      PROVE  IF j < i' THEN Handled(j)' ELSE m'[j] = Absent
  <2>1. /\ Wanted(j)' = Wanted(j)
        /\ Agreed(j)' = Agreed(j)
        /\ Proper' = Proper
    BY DEF Wanted, Proper, Agreed, IsNull, IsEmpty, IsForced, NullKeysOf, NextField, schema
  <2>2. m'[j] = IF j = p THEN Wanted(p) ELSE m[j]
    BY <1>2 DEF Inv, TypeOK, Position
  <2>3. j < i' <=> j < i \/ j = p
    BY <1>2 DEF NextField
  <2>4. IF j < i THEN Handled(j) ELSE m[j] = Absent
    BY DEF Inv, Progress, Looking
  <2>5. ~(p < i)
    BY <1>2
  <2> QED
    BY <1>1, <2>1, <2>2, <2>3, <2>4, <2>5 DEF Handled
<1> QED
  BY <1>1, <1>3, <1>4 DEF Inv, Progress, NextField, Looking, ListsEmpty

LEMMA StepEnds ==
    ASSUME Inv, pc = "field", NEW r, Finish(r), UNCHANGED m, Outcome',
           r \in {"object", "badTag", "nonEmptyNull", "keysNotStrings", "badValue"}
    PROVE  Inv'
<1>1. TypeOK'
  BY DEF Inv, TypeOK, Finish, WellTyped, schema
<1> QED
  BY <1>1 DEF Inv, Progress, Finish

(* Every step keeps the invariant.                                         *)
LEMMA InitInv == Init => Inv
<1> SUFFICES ASSUME Init PROVE Inv
  OBVIOUS
<1>1. WellTyped(input)
  BY InputsAssumption DEF Init
<1> QED
  BY <1>1, Positions DEF Init, Inv, TypeOK, Progress, Position

(* Nothing is said of a field but by the arguments and the object.         *)
LEMMA Unmoved ==
    ASSUME UNCHANGED <<input, m>>, NEW j
    PROVE  /\ Handled(j)' = Handled(j)
           /\ Agreed(j)' = Agreed(j)
           /\ Position' = Position
  BY DEF Handled, Wanted, Proper, Agreed, IsNull, IsEmpty, IsForced, NullKeysOf, schema, Position

(* A map has entries exactly if it is not empty.                           *)
LEMMA KeysOfMap ==
    ASSUME WellTyped(input), NEW j \in Position, schema[j].kind \in Maps
    PROVE  input.value[j].keys # {} <=> ~IsEmptyValue(input.value[j])
<1>1. input.value[j] \in ValuesOf(schema[j])
  BY DEF WellTyped, Position, schema
<1> QED
  BY <1>1, ValueFacts DEF ValuesOf, IsEmptyValue, Value

(* The field looked at, named by its position.                             *)
LEMMA LookingFacts ==
    ASSUME Inv, Looking, NEW p, p = i
    PROVE  /\ p \in Position
           /\ f = schema[p] /\ v = input.value[p]
           /\ (f.name \in input.null) = IsNull(p)
           /\ (f.name \in input.force) = IsForced(p)
           /\ IsEmptyValue(v) = IsEmpty(p)
           /\ NullKeysOf(p) = IF f.kind \in Maps THEN nullKeys ELSE {}
           /\ f \in Field /\ v \in Value
           /\ f.kind \in Maps => v.is \in {"nil", "empty", "set"}
           /\ v.is = "nil" => f.kind \in Maps \cup Nillable \cup {"slice"}
           /\ m = [m EXCEPT ![p] = Absent]
           /\ \A e : [m EXCEPT ![i] = e] = [m EXCEPT ![p] = e]
<1>1. WellTyped(input)
  BY DEF Inv, TypeOK
<1>2. p \in Position /\ Position = 1 .. Len(schema)
  BY <1>1, Positions DEF Inv, TypeOK, Looking
<1>3. f = schema[p] /\ v = input.value[p]
  BY DEF f, v
<1>4. m[p] = Absent
  BY <1>1, <1>2, Positions DEF Inv, Progress, Looking
<1>5. m = [m EXCEPT ![p] = Absent]
  BY <1>2, <1>4 DEF Inv, TypeOK, Position
<1>6. NullKeysOf(p) = IF f.kind \in Maps THEN nullKeys ELSE {}
  BY <1>3 DEF NullKeysOf, nullKeys
<1> QED
  BY <1>1, <1>2, <1>3, <1>5, <1>6, ValueFacts DEF IsNull, IsForced, IsEmpty

(* A field that passed the tests for null and for inclusion.               *)
LEMMA IncludedFacts ==
    ASSUME Inv, Included, NEW p, p = i
    PROVE  /\ schema[p].tag \in {"omitempty", "text"} /\ p \in Proper
           /\ ~IsNull(p)
           /\ ~(schema[p].kind \in Nillable /\ input.value[p].is = "nil")
           /\ ~(IsEmpty(p) /\ ~IsForced(p))
           /\ HasNullKeys <=> NullKeysOf(p) # {}
  BY LookingFacts DEF Included, Parsed, IncludeField, HasNullKeys, Proper, Position

LEMMA NextInv == Inv /\ [Next]_vars => Inv'
<1> SUFFICES ASSUME Inv, [Next]_vars PROVE Inv'
  OBVIOUS
<1>p. PICK p : p = i
  OBVIOUS
<1>t. WellTyped(input)
  BY DEF Inv, TypeOK
<1>1. CASE MarshalPlain
  <2>1. m' \in [DOMAIN schema -> Member \cup {Absent}]
    BY <1>1, <1>t, PlainTyped DEF MarshalPlain
  <2>2. TypeOK'
    BY <1>1, <2>1, Zenon DEF MarshalPlain, Finish, Inv, TypeOK, WellTyped, schema
  <2>3. Outcome'
    <3>1. UNCHANGED input /\ m' = Plain(input)
          /\ result' = IF Encodable(m') THEN "object" ELSE "badValue"
      BY <1>1 DEF MarshalPlain, Finish
    <3>2. CASE Encodable(m')
      BY <1>1, <3>1, <3>2 DEF MarshalPlain, Outcome, Encodable, ListsEmpty, Plain
    <3>3. CASE ~Encodable(m')
      <4>1. PICK j \in DOMAIN m' : m'[j] # Absent /\ m'[j].is = "invalid"
        BY <3>3 DEF Encodable
      <4>2. j \in Position /\ Written(schema[j], input.value[j])
            /\ m'[j] = Encoded(schema[j], input.value[j])
        BY <3>1, <4>1 DEF Plain, Position, schema
      <4>3. input.value[j].is = "invalid"
        BY <4>1, <4>2 DEF Encoded, Null
      <4>4. schema[j].tag # "ignored"
        BY <4>2 DEF Written
      <4> QED
        BY <3>1, <3>3, <4>2, <4>3, <4>4 DEF Outcome, Position, schema
    <3> QED
      BY <3>2, <3>3
  <2> QED
    BY <1>1, <2>2, <2>3 DEF Inv, Progress, MarshalPlain, Finish
<1>2. CASE StartMap
  <2>1. schema' = schema /\ UNCHANGED <<input, i, m, result>> /\ pc' = "field"
    BY <1>2 DEF StartMap, schema
  <2>2. TypeOK'
    BY <2>1 DEF Inv, TypeOK, WellTyped
  <2>3. ~ListsEmpty(input)' /\ result' = "none"
    BY <1>2, <2>1 DEF StartMap, ListsEmpty, Inv, Progress
  <2>4. ASSUME NEW j \in Position
        PROVE  ~(j < i') /\ m'[j] = Absent
    BY <1>2, <1>t, <2>1, Positions DEF StartMap, Inv, Progress
  <2>5. Position' = Position
    BY <2>1 DEF Position
  <2> QED
    BY <2>1, <2>2, <2>3, <2>4, <2>5 DEF Inv, Progress
<1>3. CASE SkipField
  <2>1. Wanted(p) = Absent /\ schema[p].tag # "bare" /\ p \notin Proper
    BY <1>3, <1>p, LookingFacts DEF SkipField, Ignored, Wanted, Proper
  <2> QED
    BY <1>3, <1>p, <2>1, LookingFacts, StepForward DEF SkipField
<1>4. CASE MalformedTag
  <2>1. Outcome'
    BY <1>4, <1>p, LookingFacts DEF MalformedTag, Malformed, Finish, Outcome, schema, Position
  <2> QED
    BY <1>4, <2>1, StepEnds DEF MalformedTag, Looking
<1>5. CASE NullField
  <2>1. Wanted(p) = Null /\ schema[p].tag # "bare" /\ Agreed(p)
    BY <1>5, <1>p, LookingFacts DEF NullField, Parsed, Wanted, Agreed
  <2> QED
    BY <1>5, <1>p, <2>1, LookingFacts, StepForward DEF NullField, SetMember
<1>6. CASE NullNonEmpty
  <2>1. p \in Proper /\ ~Agreed(p)
    BY <1>6, <1>p, LookingFacts DEF NullNonEmpty, Parsed, Proper, Position, Agreed
  <2>2. Outcome'
    BY <1>6, <2>1 DEF NullNonEmpty, Finish, Outcome, Proper, Agreed, IsNull, IsEmpty, NullKeysOf, schema
  <2> QED
    BY <1>6, <2>2, StepEnds DEF NullNonEmpty, Looking
<1>7. CASE LeaveOut
  <2>1. ~IsNull(p) /\ schema[p].tag \in {"omitempty", "text"}
    BY <1>7, <1>p, LookingFacts DEF LeaveOut, Parsed
  <2>2. \/ schema[p].kind \in Nillable /\ input.value[p].is = "nil"
        \/ ~IsForced(p) /\ IsEmpty(p)
    BY <1>7, <1>p, LookingFacts DEF LeaveOut, IncludeField
  <2>3. Wanted(p) = Absent /\ IsEmpty(p)
    BY <2>1, <2>2 DEF Wanted, IsEmpty, IsEmptyValue
  <2>4. schema[p].tag # "bare" /\ Agreed(p)
    BY <2>1, <2>3 DEF Agreed
  <2> QED
    BY <2>3, <2>4, <1>7, <1>p, LookingFacts, StepForward DEF LeaveOut
<1>8. CASE SetMapWithNulls
  <2>1. /\ Wanted(p) = [form |-> "value", is |-> "set",
                        keys |-> v.keys \cup nullKeys, nulls |-> nullKeys]
        /\ schema[p].tag # "bare" /\ Agreed(p)
    <3>1. Included /\ HasNullKeys /\ (f.kind # "otherMap" \/ v.keys = {})
      BY <1>8 DEF SetMapWithNulls
    <3>2. NullKeysOf(p) = nullKeys /\ NullKeysOf(p) # {}
      BY <1>p, <3>1, LookingFacts DEF HasNullKeys, Included
    <3>3. f = schema[p] /\ v = input.value[p] /\ p \in Position
      BY <1>p, <3>1, LookingFacts DEF Included
    <3>4. Agreed(p)
      BY <1>p, <1>t, <3>1, <3>3, IncludedFacts, KeysOfMap DEF Agreed, IsEmpty, IsEmptyValue, Maps
    <3> QED
      BY <1>p, <3>1, <3>2, <3>3, <3>4, IncludedFacts DEF Wanted
  <2> QED
    BY <1>8, <1>p, <2>1, LookingFacts, StepForward DEF SetMapWithNulls, SetMember, Included
<1>9. CASE KeysNotStrings
  <2>1. p \in Proper /\ ~Agreed(p)
    <3>1. Included /\ HasNullKeys /\ f.kind = "otherMap" /\ v.keys # {}
      BY <1>9 DEF KeysNotStrings
    <3>2. f = schema[p] /\ v = input.value[p] /\ p \in Position
      BY <1>p, <3>1, LookingFacts DEF Included
    <3> QED
      BY <1>p, <1>t, <3>1, <3>2, IncludedFacts, KeysOfMap DEF Agreed, IsEmpty, IsEmptyValue, Maps
  <2>2. Outcome'
    BY <1>9, <2>1 DEF KeysNotStrings, Finish, Outcome, Proper, Agreed, IsNull, IsEmpty, NullKeysOf, schema
  <2> QED
    BY <1>9, <2>2, StepEnds DEF KeysNotStrings, Included, Looking
<1>10. CASE SetEmpty
  <2>1. Wanted(p) = EmptyMember /\ schema[p].tag # "bare" /\ Agreed(p)
    BY <1>10, <1>p, LookingFacts, IncludedFacts DEF SetEmpty, Included, Wanted, Agreed
  <2> QED
    BY <1>10, <1>p, <2>1, LookingFacts, StepForward DEF SetEmpty, SetMember, Included
<1>11. CASE SetValue
  <2>1. Wanted(p) = Encoded(f, v) /\ schema[p].tag # "bare" /\ Agreed(p)
    BY <1>11, <1>p, LookingFacts, IncludedFacts DEF SetValue, Included, Wanted, Agreed
  <2> QED
    BY <1>11, <1>p, <2>1, LookingFacts, StepForward DEF SetValue, SetMember, Included
<1>12. CASE Encode
  <2>1. \A j \in Position : Handled(j)
    BY <1>12, <1>t, Positions DEF Encode, Inv, Progress
  <2>2. UNCHANGED <<input, m>> /\ result' = IF Encodable(m) THEN "object" ELSE "badValue"
    BY <1>12 DEF Encode, Finish
  <2>3. Outcome'
    <3>1. CASE Encodable(m)
      <4>1. ~ListsEmpty(input)'
        BY <1>12, <2>2 DEF Encode, Inv, Progress, ListsEmpty
      <4>2. Encodable(m)'
        BY <2>2, <3>1 DEF Encodable
      <4>3. \A j \in Position' : Handled(j)'
        BY <2>1, <2>2, Unmoved
      <4> QED
        BY <2>2, <3>1, <4>1, <4>2, <4>3 DEF Outcome
    <3>2. CASE ~Encodable(m)
      <4>1. PICK j \in DOMAIN m : m[j] # Absent /\ m[j].is = "invalid"
        BY <3>2 DEF Encodable
      <4>2. j \in Position /\ m[j] = Wanted(j)
        BY <2>1, <4>1 DEF Inv, TypeOK, Position, Handled
      <4>3. schema[j].tag # "ignored" /\ Wanted(j) = Encoded(schema[j], input.value[j])
        BY <4>1, <4>2 DEF Wanted, Null, EmptyMember
      <4>4. input.value[j].is = "invalid"
        BY <4>1, <4>2, <4>3 DEF Encoded, Null
      <4> QED
        BY <2>2, <3>2, <4>2, <4>3, <4>4 DEF Outcome, Position, schema
    <3> QED
      BY <3>1, <3>2
  <2> QED
    BY <1>12, <2>2, <2>3, StepEnds DEF Encode
<1>13. CASE UNCHANGED vars
  <2>1. UNCHANGED <<input, pc, i, m, result>> /\ schema' = schema /\ Position' = Position
    BY <1>13 DEF vars, schema, Position
  <2>2. TypeOK'
    BY <2>1 DEF Inv, TypeOK, WellTyped
  <2>3. \A j : Handled(j)' = Handled(j) /\ Agreed(j)' = Agreed(j)
    BY <2>1, Unmoved
  <2>4. Proper' = Proper
    BY <2>1 DEF Proper
  <2>5. Outcome' = Outcome
    BY <2>1, <2>3, <2>4 DEF Outcome, Encodable, ListsEmpty, Plain
  <2> QED
    BY <2>1, <2>2, <2>3, <2>5 DEF Inv, Progress, ListsEmpty
<1> QED
  BY <1>1, <1>2, <1>3, <1>4, <1>5, <1>6, <1>7, <1>8, <1>9, <1>10, <1>11, <1>12, <1>13 DEF Next

(* Whatever the schema and the lists, the loop leaves the members the      *)
(* fields should have.                                                     *)
THEOREM Invariant == Spec => []Inv
  BY InitInv, NextInv, PTL DEF Spec

(* Every variable has its type.                                            *)
THEOREM MarshalTypeCorrect == Spec => []TypeOK
<1>1. Inv => TypeOK
  BY DEF Inv
<1> QED
  BY <1>1, Invariant, PTL

(* What is known of a field of an object that was sent.                    *)
LEMMA Sent ==
    ASSUME Inv, result = "object"
    PROVE  /\ WellTyped(input)
           /\ Encodable(m)
           /\ \/ ListsEmpty(input) /\ m = Plain(input)
              \/ \A j \in Position : Handled(j)
  BY DEF Inv, TypeOK, Progress, Outcome

LEMMA ListsEmptyFacts ==
    ASSUME ListsEmpty(input), NEW j
    PROVE  ~IsNull(j) /\ ~IsForced(j) /\ NullKeysOf(j) = {}
  BY DEF ListsEmpty, IsNull, IsForced, NullKeysOf

LEMMA PlainMember ==
    ASSUME NEW j \in Proper
    PROVE  Plain(input)[j] =
               IF IsEmpty(j) THEN Absent ELSE Encoded(schema[j], input.value[j])
  BY DEF Plain, Written, Proper, IsEmpty, schema

LEMMA MembersPresent ==
    ASSUME WellTyped(input), NEW j \in Position
    PROVE  /\ Encoded(schema[j], input.value[j]) # Absent
           /\ Encoded(schema[j], input.value[j]).nulls = {}
           /\ Null # Absent /\ EmptyMember # Absent
           /\ NullKeysOf(j) \in SUBSET Keys
           /\ [form |-> "value", is |-> "set",
               keys |-> input.value[j].keys \cup NullKeysOf(j),
               nulls |-> NullKeysOf(j)] # Absent
<1>1. schema[j] \in Field /\ input.value[j] \in Value
  BY ValueFacts
<1>2. Encoded(schema[j], input.value[j]) \in Member
  BY <1>1, EncodedTyped
<1>3. Encoded(schema[j], input.value[j]).nulls = {}
  BY DEF Encoded, Null
<1>4. NullKeysOf(j) \in SUBSET Keys /\ input.value[j].keys \in SUBSET Keys
  BY <1>1 DEF NullKeysOf, Value
<1>5. Null \in Member /\ EmptyMember \in Member
  BY DEF Null, EmptyMember, Member
<1>6. [form |-> "value", is |-> "set",
       keys |-> input.value[j].keys \cup NullKeysOf(j), nulls |-> NullKeysOf(j)] \in Member
  BY <1>4 DEF Member
<1> QED
  BY <1>2, <1>3, <1>4, <1>5, <1>6, AbsentAssumption

(* MarshalJSON sends exactly the fields that its comment selects.          *)
THEOREM SelectedFieldsAreSent == Spec => []SelectionSent
<1>1. ASSUME Inv PROVE SelectionSent
  <2> SUFFICES ASSUME result = "object", NEW j \in Proper
               PROVE  m[j] # Absent
                      <=> \/ ~IsEmpty(j)
                          \/ /\ IsForced(j)
                             /\ ~(schema[j].kind \in Nillable /\ input.value[j].is = "nil")
                          \/ IsNull(j)
    BY DEF SelectionSent
  <2>1. j \in Position /\ schema[j].tag \in {"omitempty", "text"}
    BY DEF Proper, Position
  <2>2. WellTyped(input)
    BY <1>1, Sent
  <2>3. CASE ListsEmpty(input) /\ m = Plain(input)
    BY <2>1, <2>2, <2>3, ListsEmptyFacts, PlainMember, MembersPresent
  <2>4. CASE Handled(j)
    BY <2>1, <2>2, <2>4, MembersPresent DEF Handled, Wanted, IsEmpty, IsEmptyValue
  <2> QED
    BY <1>1, <2>1, <2>3, <2>4, Sent
<1> QED
  BY <1>1, Invariant, PTL

(* MarshalJSON sends null where NullFields asks for it and nowhere else.   *)
THEOREM NullsOnlyAsAsked == Spec => []NullsAsAsked
<1>1. ASSUME Inv PROVE NullsAsAsked
  <2> SUFFICES ASSUME result = "object", NEW j \in Proper, m[j] # Absent
               PROVE  /\ m[j].form = "null" <=> IsNull(j)
                      /\ m[j].nulls = IF IsNull(j) THEN {} ELSE NullKeysOf(j)
    BY DEF NullsAsAsked
  <2>1. j \in Position /\ schema[j].tag \in {"omitempty", "text"}
    BY DEF Proper, Position
  <2>2. WellTyped(input)
    BY <1>1, Sent
  <2>3. CASE ListsEmpty(input) /\ m = Plain(input)
    <3>1. m[j] = Encoded(schema[j], input.value[j]) /\ ~IsEmpty(j)
      BY <2>3, PlainMember
    <3>2. m[j].form # "null"
      BY <3>1 DEF Encoded, IsEmpty, IsEmptyValue
    <3> QED
      BY <2>1, <2>2, <2>3, <3>1, <3>2, ListsEmptyFacts, MembersPresent
  <2>4. CASE Handled(j)
    <3>1. CASE IsNull(j)
      BY <2>1, <2>4, <3>1 DEF Handled, Wanted, Null
    <3>2. CASE ~IsNull(j) /\ NullKeysOf(j) # {}
      BY <2>1, <2>4, <3>2 DEF Handled, Wanted
    <3>3. CASE ~IsNull(j) /\ NullKeysOf(j) = {}
      <4>1. \/ m[j] = EmptyMember
            \/ /\ m[j] = Encoded(schema[j], input.value[j])
               /\ input.value[j].is # "nil"
        BY <2>1, <2>2, <2>4, <3>3, ValueFacts DEF Handled, Wanted
      <4> QED
        BY <3>3, <4>1 DEF EmptyMember, Encoded
    <3> QED
      BY <3>1, <3>2, <3>3
  <2> QED
    BY <1>1, <2>1, <2>3, <2>4, Sent
<1> QED
  BY <1>1, Invariant, PTL

(* The reflection path and encoding/json write a field alike.              *)
THEOREM TwoPathsAgree == Spec => []PathsAgree
<1>1. ASSUME Inv PROVE PathsAgree
  <2> SUFFICES ASSUME result = "object", NEW j \in Proper, ~IsNull(j), NullKeysOf(j) = {},
                      IsForced(j) => ~IsEmpty(j)
               PROVE  m[j] = Plain(input)[j]
    BY DEF PathsAgree
  <2>1. j \in Position /\ schema[j].tag \in {"omitempty", "text"}
    BY DEF Proper, Position
  <2>2. CASE Handled(j)
    BY <2>1, <2>2, PlainMember DEF Handled, Wanted, IsEmpty, IsEmptyValue
  <2> QED
    BY <1>1, <2>1, <2>2, Sent
<1> QED
  BY <1>1, Invariant, PTL

(* MarshalJSON fails only where the lists contradict the values, or where  *)
(* a value cannot be encoded, and then always.                             *)
THEOREM FailsOnlyIfContradictory == Spec => []FailsIfContradictory
<1>1. ASSUME Inv PROVE FailsIfContradictory
  <2> SUFFICES ASSUME pc = "done", \A j \in DOMAIN schema : schema[j].tag \notin {"none", "bare"}
               PROVE  result = "object"
                      <=> Consistent /\ \A j \in Proper : input.value[j].is # "invalid"
    BY DEF FailsIfContradictory
  <2>1. WellTyped(input)
    BY <1>1 DEF Inv, TypeOK
  <2>2. Consistent <=> \A j \in Proper : Agreed(j)
    BY DEF Consistent, Agreed
  <2>3. ASSUME result # "object", \A j \in Proper : Agreed(j)
        PROVE  \E j \in Proper : input.value[j].is = "invalid"
    <3>1. PICK j \in Position : schema[j].tag # "ignored" /\ input.value[j].is = "invalid"
      BY <1>1, <2>3 DEF Inv, Progress, Outcome, Position
    <3> QED
      BY <2>1, <3>1, ValueFacts DEF Proper, Position, Field, Tags
  <2>4. ASSUME result = "object", NEW j \in Proper
        PROVE  Agreed(j) /\ input.value[j].is # "invalid"
    <3>1. j \in Position /\ schema[j].tag \in {"omitempty", "text"}
      BY DEF Proper, Position
    <3>2. Encodable(m) /\ DOMAIN m = Position
      BY <1>1, <2>4, Sent DEF Inv, TypeOK, Position
    <3>3. CASE ListsEmpty(input) /\ m = Plain(input)
      <4>1. Agreed(j)
        BY <3>3, ListsEmptyFacts DEF Agreed
      <4>2. ASSUME input.value[j].is = "invalid"
            PROVE  FALSE
        <5>1. m[j] = Encoded(schema[j], input.value[j])
          BY <3>3, <4>2, PlainMember DEF IsEmpty, IsEmptyValue
        <5> QED
          BY <2>1, <3>1, <3>2, <4>2, <5>1, MembersPresent DEF Encodable, Encoded
      <4> QED
        BY <4>1, <4>2
    <3>4. CASE Handled(j)
      <4>1. Agreed(j)
        BY <3>4 DEF Handled
      <4>2. ASSUME input.value[j].is = "invalid"
            PROVE  FALSE
        <5>1. ~IsEmpty(j) /\ ~IsNull(j)
          BY <4>1, <4>2 DEF Agreed, IsEmpty, IsEmptyValue
        <5>2. schema[j].kind \notin Maps /\ NullKeysOf(j) = {}
          BY <2>1, <3>1, <4>2, ValueFacts DEF NullKeysOf
        <5>3. m[j] = Encoded(schema[j], input.value[j])
          BY <3>1, <3>4, <4>2, <5>1, <5>2 DEF Handled, Wanted
        <5> QED
          BY <2>1, <3>1, <3>2, <4>2, <5>3, MembersPresent DEF Encodable, Encoded
      <4> QED
        BY <4>1, <4>2
    <3> QED
      BY <1>1, <2>4, <3>1, <3>3, <3>4, Sent
  <2> QED
    BY <2>2, <2>3, <2>4
<1> QED
  BY <1>1, Invariant, PTL
=============================================================================
