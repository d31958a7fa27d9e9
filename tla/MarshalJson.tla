---------------------------- MODULE MarshalJson ----------------------------
(***************************************************************************)
(* MarshalJSON of gensupport/json.go: the JSON object that a schema struct *)
(* is sent as, with the fields that its ForceSendFields and NullFields     *)
(* select.  With both lists empty encoding/json does everything; otherwise *)
(* schemaToMap goes through the fields with reflection and encoding/json   *)
(* writes the map it returns.                                              *)
(*                                                                         *)
(* The keys of a schema are distinct, so the object maps the positions of  *)
(* the fields to members.  Nested schemas marshal themselves: a nested     *)
(* value either has an encoding or not ("invalid").                        *)
(***************************************************************************)
EXTENDS Naturals, Sequences

CONSTANTS Keys,    \* keys of the map fields
          Inputs,  \* the arguments MarshalJSON is called with
          Absent   \* no entry in the object

(***************************************************************************)
(* Schemas and their values.                                               *)
(***************************************************************************)
(* The json: struct tag: none at all, "-", "key,omitempty",                *)
(* "key,omitempty,string", or "key" without options.                       *)
Tags == {"none", "ignored", "omitempty", "text", "bare"}

Maps == {"stringMap", "anyMap", "otherMap"}
Nillable == {"pointer", "interface"}
Kinds == {"scalar", "slice"} \cup Maps \cup Nillable

Field == [name : STRING, tag : Tags, kind : Kinds]

(* What a value of a field can be; a map that is set has entries.          *)
Value == [is : {"nil", "empty", "set", "invalid"}, keys : SUBSET Keys]

ValuesOf(f) ==
    {v \in Value :
        /\ v.is \in CASE f.kind = "scalar" -> {"empty", "set"}
                      [] f.kind = "slice" -> {"nil", "empty", "set", "invalid"}
                      [] f.kind \in Maps -> {"nil", "empty", "set"}
                      [] f.kind \in Nillable -> {"nil", "set", "invalid"}
        /\ v.keys # {} <=> f.kind \in Maps /\ v.is = "set"}

(* One call: the struct with its type, and the two lists.  NullFields'      *)
(* entries "field" are in null, the entries "field.key" in nullKeys.       *)
WellTyped(x) ==
    /\ x.schema \in Seq(Field)
    /\ \A j, k \in DOMAIN x.schema : x.schema[j].name = x.schema[k].name => j = k
    /\ DOMAIN x.value = DOMAIN x.schema
    /\ \A j \in DOMAIN x.schema :
          /\ x.value[j] \in ValuesOf(x.schema[j])
          /\ x.schema[j].tag = "text" => x.schema[j].kind = "scalar"
    /\ x.force \in SUBSET STRING
    /\ x.null \in SUBSET STRING
    /\ x.nullKeys \in SUBSET (STRING \X Keys)

ASSUME InputsAssumption == \A x \in Inputs : WellTyped(x)

(* A member of the object: null, a number, list or object as it is, or     *)
(* text; the entries of a map, and those of them that are null.            *)
Member == [form : {"null", "value", "text"}, is : {"empty", "set", "invalid"},
           keys : SUBSET Keys, nulls : SUBSET Keys]

ASSUME AbsentAssumption == Absent \notin Member

VARIABLES input,   \* the arguments
          pc,      \* "start", "field" or "done"
          i,       \* the field schemaToMap looks at
          m,       \* the object built so far
          result   \* "none", "object", or the error returned

vars == <<input, pc, i, m, result>>

schema == input.schema

Init ==
    /\ input \in Inputs
    /\ pc = "start"
    /\ i = 1
    /\ m = [j \in DOMAIN schema |-> Absent]
    /\ result = "none"

Finish(r) ==
    /\ pc' = "done"
    /\ result' = r
    /\ UNCHANGED <<input, i>>

IsEmptyValue(v) == v.is \in {"nil", "empty"}

Null == [form |-> "null", is |-> "empty", keys |-> {}, nulls |-> {}]
EmptyMember == [form |-> "value", is |-> "empty", keys |-> {}, nulls |-> {}]

(* encoding/json on one field: nil is null.                                *)
Encoded(f, v) ==
    IF v.is = "nil" THEN Null
    ELSE [form |-> IF f.tag = "text" THEN "text" ELSE "value",
          is |-> v.is, keys |-> v.keys, nulls |-> {}]

(***************************************************************************)
(* encoding/json alone, when both lists are empty.                         *)
(***************************************************************************)
ListsEmpty(x) ==
    /\ x.force = {}
    /\ x.null = {}
    /\ x.nullKeys = {}

Written(f, v) ==
    \/ f.tag \in {"none", "bare"}
    \/ f.tag \in {"omitempty", "text"} /\ ~IsEmptyValue(v)

Plain(x) ==
    [j \in DOMAIN x.schema |->
        IF Written(x.schema[j], x.value[j]) THEN Encoded(x.schema[j], x.value[j])
        ELSE Absent]

Encodable(o) == \A j \in DOMAIN o : o[j] # Absent => o[j].is # "invalid"

MarshalPlain ==
    /\ pc = "start"
    /\ ListsEmpty(input)
    /\ m' = Plain(input)
    /\ Finish(IF Encodable(m') THEN "object" ELSE "badValue")

(***************************************************************************)
(* schemaToMap, one field at a time.                                       *)
(***************************************************************************)
StartMap ==
    /\ pc = "start"
    /\ ~ListsEmpty(input)
    /\ pc' = "field"
    /\ UNCHANGED <<input, i, m, result>>

Looking == pc = "field" /\ i <= Len(schema)
f == schema[i]
v == input.value[i]
nullKeys == {k \in Keys : <<f.name, k>> \in input.nullKeys}

(* Mutant: the field after is passed over.                                 *)
NextButOne ==
    /\ i' = i + 2
    /\ UNCHANGED <<input, pc, result>>

NextField ==
    /\ i' = i + 1
    /\ UNCHANGED <<input, pc, result>>

SetMember(e) == m' = [m EXCEPT ![i] = e] /\ NextField

(* parseJSONTag.                                                           *)
Ignored == f.tag \in {"none", "ignored"}
Malformed == f.tag = "bare"
Parsed == f.tag \in {"omitempty", "text"}

SkipField ==
    /\ Looking
    /\ Ignored
    /\ NextField
    /\ UNCHANGED m

MalformedTag ==
    /\ Looking
    /\ Malformed
    /\ Finish("badTag")
    /\ UNCHANGED m

NullField ==
    /\ Looking
    /\ Parsed
    /\ f.name \in input.null
    /\ IsEmptyValue(v)
    /\ SetMember(Null)

(* Mutant: a non-empty field in NullFields is sent as null.                *)
NullOverwrites ==
    /\ Looking
    /\ Parsed
    /\ f.name \in input.null
    /\ ~IsEmptyValue(v)
    /\ SetMember(Null)

NullNonEmpty ==
    /\ Looking
    /\ Parsed
    /\ f.name \in input.null
    /\ ~IsEmptyValue(v)
    /\ Finish("nonEmptyNull")
    /\ UNCHANGED m

(* Mutant: forced fields are included, nil pointers too.                   *)
IncludeNil == f.name \in input.force \/ ~IsEmptyValue(v)

IncludeField ==
    /\ ~(f.kind \in Nillable /\ v.is = "nil")
    /\ f.name \in input.force \/ ~IsEmptyValue(v)

(* The field passed the tests for null and for inclusion.                  *)
Included == Looking /\ Parsed /\ f.name \notin input.null /\ IncludeField

LeaveOut ==
    /\ Looking
    /\ Parsed
    /\ f.name \notin input.null
    /\ ~IncludeField
    /\ NextField
    /\ UNCHANGED m

HasNullKeys == f.kind \in Maps /\ nullKeys # {}

(* A map with keys to send as null; initMapSlow needs string keys.         *)
SetMapWithNulls ==
    /\ Included
    /\ HasNullKeys
    /\ f.kind # "otherMap" \/ v.keys = {}
    /\ SetMember([form |-> "value", is |-> "set",
                  keys |-> v.keys \cup nullKeys,
                  nulls |-> nullKeys])

KeysNotStrings ==
    /\ Included
    /\ HasNullKeys
    /\ f.kind = "otherMap"
    /\ v.keys # {}
    /\ Finish("keysNotStrings")
    /\ UNCHANGED m

(* Mutant: encoding/json gets the nil map or slice.                        *)
SetNil ==
    /\ Included
    /\ ~HasNullKeys
    /\ f.kind \in Maps \cup {"slice"}
    /\ v.is = "nil"
    /\ SetMember(Encoded(f, v))

(* A nil map or slice is sent as an empty one.                             *)
SetEmpty ==
    /\ Included
    /\ ~HasNullKeys
    /\ f.kind \in Maps \cup {"slice"}
    /\ v.is = "nil"
    /\ SetMember(EmptyMember)

(* Mutant: numbers that encoding/json writes as text are not.              *)
SetUnformatted ==
    /\ Included
    /\ ~HasNullKeys
    /\ ~(f.kind \in Maps \cup {"slice"} /\ v.is = "nil")
    /\ SetMember([Encoded(f, v) EXCEPT !.form = "value"])

SetValue ==
    /\ Included
    /\ ~HasNullKeys
    /\ ~(f.kind \in Maps \cup {"slice"} /\ v.is = "nil")
    /\ SetMember(Encoded(f, v))

Encode ==
    /\ pc = "field"
    /\ i = Len(schema) + 1
    /\ Finish(IF Encodable(m) THEN "object" ELSE "badValue")
    /\ UNCHANGED m

Next ==
    \/ MarshalPlain \/ StartMap
    \/ SkipField \/ MalformedTag \/ NullField \/ NullNonEmpty \/ LeaveOut
    \/ SetMapWithNulls \/ KeysNotStrings \/ SetEmpty \/ SetValue
    \/ Encode

Spec == Init /\ [][Next]_vars
-----------------------------------------------------------------------------
(***************************************************************************)
(* Properties.                                                             *)
(***************************************************************************)
(* Every variable has its type.                                            *)
TypeOK ==
    /\ WellTyped(input)
    /\ pc \in {"start", "field", "done"}
    /\ i \in 1 .. Len(schema) + 1
    /\ m \in [DOMAIN schema -> Member \cup {Absent}]
    /\ result \in {"none", "object", "badTag", "nonEmptyNull", "keysNotStrings", "badValue"}

(* The fields whose tags both encoding/json and parseJSONTag take alike.   *)
Proper == {j \in DOMAIN schema : schema[j].tag \in {"omitempty", "text"}}

IsForced(j) == schema[j].name \in input.force
IsNull(j) == schema[j].name \in input.null
IsEmpty(j) == IsEmptyValue(input.value[j])
NullKeysOf(j) ==
    IF schema[j].kind \in Maps
    THEN {k \in Keys : <<schema[j].name, k>> \in input.nullKeys} ELSE {}

(* The object has a member for exactly the fields that the comment of      *)
(* MarshalJSON selects, whichever of the two paths made it: those with a   *)
(* non-empty value, those forced unless nil pointers, those to be null.    *)
SelectionSent ==
    result = "object" =>
        \A j \in Proper :
            m[j] # Absent
            <=> \/ ~IsEmpty(j)
                \/ IsForced(j) /\ ~(schema[j].kind \in Nillable /\ input.value[j].is = "nil")
                \/ IsNull(j)

(* JSON null deletes: a member is null exactly if NullFields names its     *)
(* field, never because a forced map or slice is nil, and an entry of a    *)
(* map that is sent is null exactly if NullFields names it.                *)
NullsAsAsked ==
    result = "object" =>
        \A j \in Proper : m[j] # Absent =>
            /\ m[j].form = "null" <=> IsNull(j)
            /\ m[j].nulls = IF IsNull(j) THEN {} ELSE NullKeysOf(j)

(* The two paths agree: a field that is to be neither null nor forced      *)
(* although empty is sent as encoding/json alone would send it, in the     *)
(* same form and with the same entries.                                    *)
PathsAgree ==
    result = "object" =>
        \A j \in Proper :
            ~IsNull(j) /\ NullKeysOf(j) = {} /\ (IsForced(j) => ~IsEmpty(j))
            => m[j] = Plain(input)[j]

(* The lists do not contradict the values: no non-empty field is to be     *)
(* null, and no map without string keys is to have null entries.           *)
Consistent ==
    \A j \in Proper :
        /\ IsNull(j) => IsEmpty(j)
        /\ schema[j].kind = "otherMap" /\ ~IsEmpty(j) => NullKeysOf(j) = {}

(* If all tags are as generated, MarshalJSON fails exactly if the lists    *)
(* contradict the values or a nested value has no encoding.                *)
FailsIfContradictory ==
    pc = "done" /\ (\A j \in DOMAIN schema : schema[j].tag \notin {"none", "bare"}) =>
        (result = "object"
         <=> Consistent /\ \A j \in Proper : input.value[j].is # "invalid")

(* The comment of every ForceSendFields: a field in it that is neither a   *)
(* pointer nor an interface is sent, empty or not.                         *)
ForcedFieldsSent ==
    pc = "done" /\ Consistent /\ (\A j \in DOMAIN schema : input.value[j].is # "invalid") =>
        \A j \in DOMAIN schema :
            IsForced(j) /\ schema[j].kind \notin Nillable /\ schema[j].tag # "ignored"
            => m[j] # Absent /\ result = "object"
=============================================================================
